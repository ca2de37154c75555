----------------------------- MODULE DiffBundle -----------------------------
(***************************************************************************)
(* What one refresh collects: CollectBundle of internal/sessiondiff, which *)
(* asks git about each repository in a dozen separate commands, and        *)
(* boundEncodedBundle, which sheds what does not fit into one upload.      *)
(*                                                                         *)
(* Something outside the bridge may change the checkout between any two    *)
(* commands.  A path is its entry in the baseline, in the index and in the *)
(* working tree; content is a count of lines changed from the baseline.  A *)
(* rename is one change of its new path here; type and mode changes are    *)
(* modifications.                                                          *)
(***************************************************************************)
EXTENDS Naturals, SequencesExt, FiniteSetsExt, Sorted

CONSTANTS
    N,            \* repositories, in the order of the bundle
    NPaths,       \* paths, in git's order
    Setups,       \* the sessions and Limits considered
    None, Binary  \* no value; counts of binary content

RepoIndices == 1..N
Paths == 1..NPaths
Shapes == [base : BOOLEAN, idx : BOOLEAN, unmerged : BOOLEAN, work : {None} \cup 0..3]

\* What the constants must be; a module that instantiates this one assumes it.
ConstantsOK ==
    /\ N \in Nat \ {0} /\ NPaths \in Nat   \* without repositories nothing is collected
    /\ \A c \in Setups :
        /\ c.kind \in [Paths -> {"text", "binary", "submodule"}] /\ c.excluded \subseteq Paths
        /\ c.shapes \in [Paths -> SUBSET Shapes] /\ c.baseline \subseteq RepoIndices
        /\ {c.maxFiles, c.maxPatch, c.maxCapture, c.maxBundle, c.maxEdits, c.maxFailures} \subseteq Nat
        /\ c.mayCancel \in BOOLEAN

VARIABLES
    setup,     \* the session and the Limits of this collection
    tree,      \* each checkout: the shape of each path
    pc,        \* the next command: "raw", "others", "numstat", "unmerged",
               \* "stats" or "patch" of a file, "bound", "sent" or "failed"
    raw,       \* git diff --raw: the tracked changes, path to status
    others,    \* git ls-files --others
    numstat,   \* git diff --numstat: path to lines
    todo,      \* the selected changes still to capture
    stats,     \* the counts of the change being captured
    entry,     \* the repository's entry so far
    bundle,    \* the finished entries, one per repository
    filesLeft, bytesLeft, \* what remains of the session-wide budgets
    cancelled, edits, failures,
    seen,      \* history: the number of changes found in each repository
    unbounded  \* history: the bundle before it was bounded

checkout == <<setup, tree, edits>>
reads == <<raw, others, numstat, todo, stats>>
budget == <<filesLeft, bytesLeft>>
history == <<seen, unbounded>>
vars == <<checkout, pc, reads, entry, bundle, budget, cancelled, failures, history>>

Kind == setup.kind                 \* of each path
Excluded == setup.excluded         \* the paths of the runtime's own files
Baseline == setup.baseline         \* the repositories that have a baseline
MaxFiles == setup.maxFiles         \* Limits
MaxPatch == setup.maxPatch
MaxCapture == setup.maxCapture
MaxBundle == setup.maxBundle
MaxFailures == setup.maxFailures   \* bounds: commands that fail, and
MaxEdits == setup.maxEdits         \* changes to a checkout meanwhile
MayCancel == setup.mayCancel

R == Len(bundle) + 1     \* the repository being collected
P(p) == tree[R][p]

---------------------------------------------------------------------------
(* Git. *)

\* The status of p in git diff --raw <baseline>.
TrackedStatus(s) ==
    IF s.base /\ (~s.idx \/ s.work = None) THEN "deleted"
    ELSE IF s.base /\ s.work # 0 THEN "modified"
    ELSE IF ~s.base /\ s.idx /\ s.work # None THEN "added" ELSE None

IsUntracked(s) == ~s.idx /\ s.work # None

\* Lines of p's tracked diff, and of git diff --no-index /dev/null p; a
\* baseline file has one line.
TrackedLines(s) ==
    CASE TrackedStatus(s) = None -> 0 [] TrackedStatus(s) = "deleted" -> 1 [] OTHER -> s.work
UntrackedLines(s) == IF s.work = None THEN 0 ELSE s.work + (IF s.base THEN 1 ELSE 0)

Counted(p, lines) == IF Kind[p] = "binary" THEN Binary ELSE lines

\* A patch is a header and its lines; there is none without a difference.
TrackedPatch(s) == IF TrackedStatus(s) = None THEN 0 ELSE 1 + TrackedLines(s)
UntrackedPatch(s) == IF s.work = None THEN 0 ELSE 1 + UntrackedLines(s)

---------------------------------------------------------------------------
(* The list of changes of one repository. *)

ReadRaw ==
    /\ pc = "raw" /\ R \in Baseline /\ ~cancelled
    /\ raw' = [p \in {q \in Paths : TrackedStatus(P(q)) # None} |-> TrackedStatus(P(p))]
    /\ pc' = "others"
    /\ UNCHANGED <<checkout, others, numstat, todo, stats, entry, bundle, budget, cancelled, failures, history>>

ReadOthers ==
    /\ pc = "others" /\ ~cancelled
    /\ others' = {p \in Paths : IsUntracked(P(p))}
    /\ pc' = "numstat"
    /\ UNCHANGED <<checkout, raw, numstat, todo, stats, entry, bundle, budget, cancelled, failures, history>>

ReadNumstat ==
    /\ pc = "numstat" /\ ~cancelled
    /\ numstat' = [p \in {q \in Paths : TrackedStatus(P(q)) # None} |-> Counted(p, TrackedLines(P(p)))]
    /\ pc' = "unmerged"
    /\ UNCHANGED <<checkout, raw, others, todo, stats, entry, bundle, budget, cancelled, failures, history>>

\* Deleted in the index and present as an untracked file: one change, not two.
Overlay_None(untracked) == {}
Overlay(untracked) == {p \in untracked : p \in DOMAIN raw /\ raw[p] = "deleted"}

Change(p, status, untracked) == [path |-> p, status |-> status, untracked |-> untracked]
AllChanges(untracked, unmerged) ==
    LET tracked == InOrder(DOMAIN raw)
        added == InOrder(untracked \ Overlay(untracked))
        status(p) == IF p \in Overlay(untracked) THEN "modified"
                     ELSE IF p \in unmerged THEN "unmerged" ELSE raw[p]
    IN [i \in DOMAIN tracked |-> Change(tracked[i], status(tracked[i]), FALSE)]
       \o [i \in DOMAIN added |-> Change(added[i], "added", TRUE)]

\* The last commands, and the selection within the budget.  When the list of
\* the runtime's own files cannot be read nothing is left out.
Selected(changes) == SubSeq(changes, 1, IF filesLeft < Len(changes) THEN filesLeft ELSE Len(changes))
ReadUnmerged ==
    /\ pc = "unmerged" /\ ~cancelled
    /\ \/ others' = others \ Excluded /\ UNCHANGED failures
       \/ failures < MaxFailures /\ failures' = failures + 1 /\ UNCHANGED others
    /\ LET changes == AllChanges(others', {p \in Paths : P(p).unmerged})
           omitted == Len(changes) - Len(Selected(changes))
       IN /\ todo' = Selected(changes)
          /\ entry' = [status |-> "ready", files |-> <<>>, bytes |-> 0,
                       truncated |-> omitted > 0, omitted |-> omitted]
          /\ seen' = [seen EXCEPT ![R] = Len(changes)]
    /\ pc' = "stats"
    /\ UNCHANGED <<checkout, raw, numstat, stats, bundle, budget, cancelled, unbounded>>

---------------------------------------------------------------------------
(* One file: its counts, then its patch. *)

InOverlay(p) == p \in Overlay(others)
AddCounts(a, b) == IF Binary \in {a, b} THEN Binary ELSE a + b
TrackedStats(p) == IF p \in DOMAIN numstat THEN numstat[p] ELSE 0
UntrackedStats(p) == Counted(p, UntrackedLines(P(p)))

\* Whether git is asked again for the counts, and for the patch (or for the
\* commit of a submodule).
StatsCommand == todo[1].untracked \/ InOverlay(todo[1].path)
IsGitlink(c) == Kind[c.path] = "submodule" /\ c.path \in DOMAIN raw
PatchCommand == IsGitlink(todo[1]) \/ (stats # Binary /\ ~InOverlay(todo[1].path))

ChangeLineStats ==
    /\ pc = "stats" /\ todo # <<>> /\ ~(StatsCommand /\ cancelled)
    /\ LET p == todo[1].path
       IN stats' = IF InOverlay(p) THEN AddCounts(TrackedStats(p), UntrackedStats(p))
                   ELSE IF todo[1].untracked THEN UntrackedStats(p) ELSE TrackedStats(p)
    /\ pc' = "patch"
    /\ UNCHANGED <<checkout, raw, others, numstat, todo, entry, bundle, budget, cancelled, failures, history>>

\* renderedPatch: the render state, and the size kept.
Rendered(untracked, size) ==
    IF size > MaxPatch THEN <<"too_large", 0>>
    ELSE IF ~untracked /\ stats = 0 /\ size <= 1 THEN <<"metadata_only", 0>>
    ELSE IF size > bytesLeft - entry.bytes THEN <<"too_large", 0>>
    ELSE IF size = 0 THEN <<"metadata_only", 0>> ELSE <<"renderable", size>>

File(change, status, rendered) ==
    [path |-> change.path, status |-> status, stats |-> stats,
     state |-> rendered[1], patch |-> rendered[2]]

\* captureFile; the metadata of a submodule is what the first command said of the
\* path, whichever change it is looked up for.
CaptureFile ==
    /\ pc = "patch" /\ ~(PatchCommand /\ cancelled)
    /\ LET c == todo[1]
           size == IF c.untracked THEN UntrackedPatch(P(c.path)) ELSE TrackedPatch(P(c.path))
           file == IF IsGitlink(c) THEN File(c, "submodule", <<"metadata_only", 0>>)
                   ELSE IF stats = Binary THEN File(c, c.status, <<"binary", 0>>)
                   ELSE IF InOverlay(c.path) THEN File(c, c.status, <<"metadata_only", 0>>)
                   ELSE File(c, c.status, Rendered(c.untracked, size))
       IN entry' = [entry EXCEPT !.files = Append(@, file), !.bytes = @ + file.patch]
    /\ todo' = Tail(todo) /\ pc' = "stats"
    /\ UNCHANGED <<checkout, raw, others, numstat, stats, bundle, budget, cancelled, failures, history>>

---------------------------------------------------------------------------
(* The bundle. *)

Minus(a, b) == IF a > b THEN a - b ELSE 0
NextPc == IF R = N THEN "bound" ELSE "raw"

\* The session-wide budgets go down by what this repository took.
Deduct_Nothing(e) == UNCHANGED budget
Deduct(e) ==
    /\ filesLeft' = Minus(filesLeft, Len(e.files))
    /\ bytesLeft' = Minus(bytesLeft, e.bytes)

FinishRepository ==
    /\ pc = "stats" /\ todo = <<>>
    /\ bundle' = Append(bundle, entry) /\ pc' = NextPc
    /\ Deduct(entry)
    /\ UNCHANGED <<checkout, reads, entry, cancelled, failures, history>>

Unavailable ==
    [status |-> "unavailable", files |-> <<>>, bytes |-> 0, truncated |-> FALSE, omitted |-> 0]

\* A command of this repository fails (a missing checkout, an unreachable
\* baseline, a timeout, metadata over its limit).  Others are still collected,
\* unless it failed because the collection was cancelled.
Collecting == pc \notin {"bound", "sent", "failed"}
InCommand ==
    \/ pc \in {"raw", "others", "numstat", "unmerged"}
    \/ pc = "stats" /\ todo # <<>> /\ StatsCommand
    \/ pc = "patch" /\ PatchCommand
FailsWhole_Any == TRUE
FailsWhole == cancelled
CommandFails ==
    /\ InCommand /\ R \in Baseline
    /\ \/ cancelled /\ UNCHANGED failures
       \/ ~cancelled /\ failures < MaxFailures /\ failures' = failures + 1
    /\ IF FailsWhole THEN pc' = "failed" /\ UNCHANGED bundle
       ELSE pc' = NextPc /\ bundle' = Append(bundle, Unavailable)
    /\ UNCHANGED <<checkout, reads, entry, budget, cancelled, history>>

NoBaseline ==
    /\ pc = "raw" /\ R \notin Baseline
    /\ pc' = "failed"
    /\ UNCHANGED <<checkout, reads, entry, bundle, budget, cancelled, failures, history>>

---------------------------------------------------------------------------
(* boundEncodedBundle. *)

\* The files, each a repository and a position, those that have a patch, and
\* the units of the patches, each a file and a position.
FileRefs(b) == UNION {{r} \X DOMAIN b[r].files : r \in DOMAIN b}
PatchOf(b, x) == b[x[1]].files[x[2]].patch
PatchRefs(b) == {x \in FileRefs(b) : PatchOf(b, x) > 0}
PatchUnits(b) == UNION {{x} \X (1..PatchOf(b, x)) : x \in FileRefs(b)}

\* An entry and a file record encode to one unit each, plus the patch.
EncodedSize(b) == N + Cardinality(FileRefs(b)) + Cardinality(PatchUnits(b))
Fits(b) == EncodedSize(b) <= MaxBundle

\* Largest first, and in the bundle's order among equals.
Sooner(size, x, y) ==
    size[x] > size[y] \/ (size[x] = size[y] /\ (x[1] < y[1] \/ (x[1] = y[1] /\ x[2] <= y[2])))

\* b without its first n patches.
Shed(b, n) ==
    LET refs == PatchRefs(b)
        size == [x \in refs |-> PatchOf(b, x)]
        gone == {x \in refs : Cardinality({y \in refs : Sooner(size, y, x)}) <= n}
    IN [r \in RepoIndices |-> [b[r] EXCEPT !.files =
          [i \in DOMAIN @ |-> IF <<r, i>> \in gone THEN [@[i] EXCEPT !.patch = 0, !.state = "too_large"] ELSE @[i]]]]

\* b without its n last files: those of the last repository go first.
After(b, r) == {x \in FileRefs(b) : x[1] > r}
Omit(e, n) ==
    IF n = 0 THEN e
    ELSE [e EXCEPT !.files = SubSeq(@, 1, Len(@) - n), !.truncated = TRUE, !.omitted = @ + n]
Drop(b, n) ==
    [r \in RepoIndices |->
        LET here == Minus(n, Cardinality(After(b, r)))
        IN Omit(b[r], IF here < Len(b[r].files) THEN here ELSE Len(b[r].files))]

\* As few as it takes; all of them when that is not enough.
Least(S, all) == IF S = {} THEN all ELSE CHOOSE n \in S : \A k \in S : n <= k
Shedding(b) ==
    LET patches == Cardinality(PatchRefs(b))
    IN Shed(b, Least({n \in 0..patches : Fits(Shed(b, n))}, patches))
Dropping(b) ==
    LET files == Cardinality(FileRefs(b))
    IN Drop(b, Least({n \in 0..files : Fits(Drop(b, n))}, files))
Bounded(b) ==
    IF Fits(b) THEN b ELSE IF Fits(Shedding(b)) THEN Shedding(b) ELSE Dropping(Shedding(b))

Bound ==
    /\ pc = "bound"
    /\ bundle' = Bounded(bundle) /\ unbounded' = bundle
    /\ pc' = IF Fits(bundle') THEN "sent" ELSE "failed"
    /\ UNCHANGED <<checkout, reads, entry, budget, cancelled, failures, seen>>

---------------------------------------------------------------------------
(* Everything else, and the specification. *)

Edit(r, p) ==
    /\ edits < MaxEdits /\ pc \notin {"sent", "failed"}
    /\ \E s \in setup.shapes[p] :
                         /\ s.base = tree[r][p].base /\ s # tree[r][p]
                         /\ tree' = [tree EXCEPT ![r][p] = s]
    /\ edits' = edits + 1
    /\ UNCHANGED <<setup, pc, reads, entry, bundle, budget, cancelled, failures, history>>

Cancel ==
    /\ MayCancel /\ ~cancelled /\ Collecting
    /\ cancelled' = TRUE
    /\ UNCHANGED <<checkout, pc, reads, entry, bundle, budget, failures, history>>

Init ==
    /\ setup \in Setups
    /\ tree \in [RepoIndices -> {t \in [Paths -> UNION Range(setup.shapes)] : \A p \in Paths : t[p] \in setup.shapes[p]}]
    /\ edits = 0 /\ failures = 0
    /\ pc = "raw" /\ raw = <<>> /\ others = {} /\ numstat = <<>> /\ todo = <<>> /\ stats = 0
    /\ entry = Unavailable /\ bundle = <<>>
    /\ filesLeft = MaxFiles /\ bytesLeft = MaxCapture
    /\ cancelled = FALSE /\ seen = [r \in RepoIndices |-> 0] /\ unbounded = <<>>

Next ==
    \/ ReadRaw \/ ReadOthers \/ ReadNumstat \/ ReadUnmerged
    \/ ChangeLineStats \/ CaptureFile \/ FinishRepository
    \/ CommandFails \/ NoBaseline \/ Bound \/ Cancel
    \/ \E r \in RepoIndices, p \in Paths : Edit(r, p)

Spec == Init /\ [][Next]_vars

---------------------------------------------------------------------------
(* Properties. *)

Ready == {r \in DOMAIN bundle : bundle[r].status = "ready"}
FilesOf(r) == bundle[r].files

\* The bundle holds one entry per repository, of files with a known state.
TypeOK ==
    /\ bundle \in Seq([status : {"ready", "unavailable"}, files : Seq([path : Paths,
          status : {"added", "modified", "deleted", "unmerged", "submodule"}, stats : Nat \cup {Binary},
          state : {"renderable", "metadata_only", "too_large", "binary"}, patch : Nat]),
          bytes : Nat, truncated : BOOLEAN, omitted : Nat])
    /\ pc = "sent" => Len(bundle) = N
    /\ filesLeft \in Nat /\ bytesLeft \in Nat

\* Every change git listed is in the bundle or counted as omitted, and the
\* entry says whether any was, however often it was cut (collector.go:224-229,
\* bundle.go:195-204).
NothingUncounted ==
    \A r \in Ready : /\ Len(FilesOf(r)) + bundle[r].omitted = seen[r]
                     /\ bundle[r].truncated <=> (bundle[r].omitted > 0)

\* The ceilings hold for the whole session, not for each repository
\* (collector.go:82-83, 116-117, bundle.go:28-34).
WithinLimits ==
    /\ Cardinality(FileRefs(bundle)) <= MaxFiles
    /\ Cardinality(PatchUnits(bundle)) <= MaxCapture
    /\ pc = "sent" => Fits(bundle)

\* No path is listed twice: what git says of it in two commands "is one
\* change, not two" (collector.go:194-195), with the checkout at rest.
OncePerPath ==
    edits = 0 => \A r \in Ready : \A i, j \in DOMAIN FilesOf(r) :
        i # j => FilesOf(r)[i].path # FilesOf(r)[j].path

\* With the checkout at rest, an entry that omits nothing lists exactly what
\* differs from the baseline, and the patch shown has the lines counted.
TellsTheTruth ==
    edits = 0 /\ failures = 0 => \A r \in Ready :
        /\ ~bundle[r].truncated =>
             {f.path : f \in ToSet(FilesOf(r))} =
               {p \in Paths : TrackedStatus(tree[r][p]) # None
                                \/ (IsUntracked(tree[r][p]) /\ p \notin Excluded)}
        /\ \A f \in ToSet(FilesOf(r)) : f.state = "renderable" => f.patch = 1 + f.stats

\* A file has a patch exactly when the viewer is told to render one.
PatchIffRenderable ==
    \A r \in Ready : \A f \in ToSet(FilesOf(r)) : f.state = "renderable" <=> f.patch > 0

\* The patches shed are the largest, and files are dropped only once no patch
\* is left, from the last repository first, "so the primary checkout keeps as
\* much as possible" (bundle.go:153, 188-189).
LargestShedFirst ==
    pc = "sent" =>
        LET Was(r, i) == unbounded[r].files[i].patch
            Now(r, i) == FilesOf(r)[i].patch
            Cut(r) == Len(FilesOf(r)) < Len(unbounded[r].files)
        IN /\ \A r, q \in Ready : \A i \in DOMAIN FilesOf(r), j \in DOMAIN FilesOf(q) :
                (Now(r, i) > 0 /\ Was(q, j) > 0 /\ Now(q, j) = 0) => Was(q, j) >= Was(r, i)
           /\ \A r, q \in Ready : Cut(r) => /\ q > r => FilesOf(q) = <<>>
                                            /\ \A j \in DOMAIN FilesOf(q) : Now(q, j) = 0

\* "A repository that cannot be captured becomes an "unavailable" entry rather
\* than failing the bundle, so a broken checkout never hides the others"
\* (collector.go:77-79), when each has a baseline: only a cancelled collection,
\* or metadata alone over the limit, fails the whole.
WholeFails == cancelled \/ (Len(bundle) = N /\ ~Fits(bundle))
OthersShown == pc = "failed" /\ Baseline = RepoIndices => WholeFails

\* What the bundle says of the checkouts is so, and nothing was left out in silence.
BundleIsTrue == TypeOK /\ OncePerPath /\ TellsTheTruth /\ PatchIffRenderable /\ NothingUncounted

\* It is within every limit, and was cut where it should be.
BundleIsBounded == WithinLimits /\ LargestShedFirst

---------------------------------------------------------------------------
(* Statements of the docs that do not hold (README, section 5). *)

\* The same of a repository that has no baseline.
OthersAlwaysShown == pc = "failed" => WholeFails

\* A path in both lists "is one change, not two", though the checkout changes.
AlwaysOncePerPath ==
    \A r \in Ready : \A i, j \in DOMAIN FilesOf(r) :
        i # j => FilesOf(r)[i].path # FilesOf(r)[j].path
=============================================================================
