----------------------------- MODULE Baselines -----------------------------
(***************************************************************************)
(* The commit each repository's diff is made against: ResolveBaselines of  *)
(* internal/sessiondiff/baseline.go, the two files it keeps, and the two   *)
(* readers of them (baselineOf and repomanifest's Entry).                  *)
(*                                                                         *)
(* The repository list survives a resume of the session on a new machine;  *)
(* the manifest is made from it at every boot of a machine and stays when  *)
(* only the bridge is started again.  Between the two writes of a boot the *)
(* bridge may die, and either write may fail: its error is logged and the  *)
(* boot goes on.  Commits are numbered.                                    *)
(***************************************************************************)
EXTENDS Naturals

CONSTANTS
    Repos,
    None, Bad,    \* no value, and one that is not a full object name
    Supplied,     \* the entries the control plane may send: [snake, camel]
    MaxHead, MaxBoots  \* bounds: commits, starts of the bridge

ASSUME SuppliedAssumption == Supplied \subseteq [snake : {None, Bad, 1}, camel : {None, Bad, 1}]
ASSUME BoundsAssumption == MaxHead \in Nat \ {0} /\ MaxBoots \in Nat
ASSUME ValuesAssumption == None \notin Nat /\ Bad \notin Nat /\ None # Bad

VARIABLES
    list, manifest, \* the two files: an entry per repository
    head,      \* each checkout's commit
    phase,     \* "down", "resolve", "manifest", "list" or "run"
    records,   \* the manifest's records in memory
    resolved,  \* the baselines this start resolved, None for the others
    boots,
    \* history
    used, here,  \* the first baseline a capture used: in the session, on this machine
    unread,      \* a checkout's HEAD could not be read at some start
    lost,        \* this start could not write the manifest
    anew,        \* the bridge was started again on the manifest of such a start
    torn         \* the list was not written after the manifest was to be

fileVars == <<list, manifest>>
usedVars == <<used, here>>
faultVars == <<unread, lost, anew, torn>>
vars == <<fileVars, head, phase, records, resolved, boots, usedVars, faultVars>>

---------------------------------------------------------------------------
(* The readers. *)

\* baselineOf: the first valid spelling.
BaselineOf(e) ==
    IF e.snake \notin {None, Bad} THEN e.snake
    ELSE IF e.camel \notin {None, Bad} THEN e.camel ELSE None

\* Entry.UnmarshalJSON: the first spelling, dropped when it is not valid.
BaseSHA(e) ==
    LET value == IF e.snake # None THEN e.snake ELSE e.camel
    IN IF value = Bad THEN None ELSE value

\* The two differ on an entry whose first spelling is malformed and whose second
\* is not; the control plane sends none.
Mixed(e) == e.snake = Bad /\ e.camel \notin {None, Bad}
UnmixedSupply == \A e \in Supplied : ~Mixed(e)

SetBaseline(e, commit) == [e EXCEPT !.snake = commit]

---------------------------------------------------------------------------
(* Starts of the bridge. *)

\* A new machine's startup script derives the manifest from the list; a bridge
\* that is only restarted finds the one that is there.
Start(resume) ==
    /\ phase = "down" /\ boots < MaxBoots
    /\ boots = 0 => resume
    /\ boots' = boots + 1
    /\ manifest' = IF resume THEN list ELSE manifest
    /\ here' = IF resume THEN [r \in Repos |-> None] ELSE here
    /\ lost' = FALSE /\ anew' = (anew \/ (lost /\ ~resume))
    /\ phase' = "resolve"
    /\ UNCHANGED <<list, head, records, resolved, used, unread, torn>>

\* The gaps are filled from HEAD where it can be read.
Resolve(readable) ==
    [r \in Repos |-> IF BaselineOf(manifest[r]) = None /\ r \in readable THEN head[r] ELSE None]

ResolveBaselines ==
    /\ phase = "resolve"
    /\ \E readable \in SUBSET Repos :
        /\ unread' = (unread \/ readable # Repos)
        /\ resolved' = Resolve(readable)
    /\ records' = [r \in Repos |-> IF resolved'[r] # None THEN SetBaseline(manifest[r], resolved'[r])
                                   ELSE manifest[r]]
    /\ phase' = IF \A r \in Repos : resolved'[r] = None THEN "run" ELSE "manifest"
    /\ UNCHANGED <<fileVars, head, boots, usedVars, lost, anew, torn>>

WriteManifest ==
    /\ phase = "manifest"
    /\ \/ manifest' = records /\ UNCHANGED lost
       \/ UNCHANGED manifest /\ lost' = TRUE
    /\ phase' = "list"
    /\ UNCHANGED <<list, head, records, resolved, boots, usedVars, unread, anew, torn>>

\* applyBaselinesToList leaves an entry that has a baseline alone.
ApplyToList_Nothing == list
ApplyToList ==
    [r \in Repos |-> IF BaselineOf(list[r]) = None /\ resolved[r] # None
                     THEN SetBaseline(list[r], resolved[r]) ELSE list[r]]
WriteList ==
    /\ phase = "list"
    /\ \/ list' = ApplyToList /\ UNCHANGED torn
       \/ UNCHANGED list /\ torn' = TRUE
    /\ phase' = "run"
    /\ UNCHANGED <<manifest, head, records, resolved, boots, usedVars, unread, lost, anew>>

\* A capture reads the manifest anew.
FirstUsed(sofar) == [r \in Repos |-> IF sofar[r] = None THEN BaseSHA(manifest[r]) ELSE sofar[r]]
Capture ==
    /\ phase = "run"
    /\ used' = FirstUsed(used) /\ here' = FirstUsed(here)
    /\ UNCHANGED <<fileVars, head, phase, records, resolved, boots, faultVars>>

\* The agent commits, and only once the baselines are resolved.
Commit(r) ==
    /\ phase = "run" /\ head[r] < MaxHead
    /\ head' = [head EXCEPT ![r] = @ + 1]
    /\ UNCHANGED <<fileVars, phase, records, resolved, boots, usedVars, faultVars>>

Die ==
    /\ phase # "down"
    /\ phase' = "down"
    /\ torn' = (torn \/ phase = "list")
    /\ UNCHANGED <<fileVars, head, records, resolved, boots, usedVars, unread, lost, anew>>

Init ==
    /\ list \in [Repos -> Supplied] /\ manifest = list
    /\ head = [r \in Repos |-> 1]
    /\ phase = "down" /\ records = list /\ resolved = [r \in Repos |-> None]
    /\ boots = 0 /\ used = [r \in Repos |-> None] /\ here = used
    /\ unread = FALSE /\ lost = FALSE /\ anew = FALSE /\ torn = FALSE

Next ==
    \/ \E resume \in BOOLEAN : Start(resume)
    \/ ResolveBaselines \/ WriteManifest \/ WriteList \/ Capture \/ Die
    \/ \E r \in Repos : Commit(r)

Spec == Init /\ [][Next]_vars

---------------------------------------------------------------------------
(* Properties. *)

Entries == [snake : {None, Bad} \cup 1..MaxHead, camel : {None, Bad, 1}]

\* The files hold entries, and what a start resolves is a commit.
TypeOK ==
    /\ list \in [Repos -> Entries] /\ manifest \in [Repos -> Entries]
    /\ head \in [Repos -> 1..MaxHead]
    /\ resolved \in [Repos -> {None} \cup 1..MaxHead]

\* On one machine the baseline of a repository does not move, whatever write
\* fails and wherever the bridge dies: what a capture used, every later one uses
\* ("this boot is fine; only a resume would re-anchor", baseline.go:84-85).
MachineKeeps == \A r \in Repos : here[r] # None => BaseSHA(manifest[r]) = here[r]

\* Nor does it for the life of the session (baseline.go:30-32), over machines,
\* unless the list was not written (torn) or the bridge was started again where
\* the manifest was not (anew).  A new machine repairs the latter.
BaselineFixed ==
    phase = "run" /\ ~torn /\ ~anew => \A r \in Repos : used[r] # None => BaseSHA(manifest[r]) = used[r]

\* The baseline is the commit the session started from (baseline.go:30), when
\* every HEAD could be read as well.
BaselineIsStart == ~unread /\ ~torn /\ ~anew => \A r \in Repos : used[r] \in {None, 1}

\* Once a start has resolved what it could read and written the manifest, every
\* reader finds a baseline: a malformed value "degrades to the bridge-side
\* fallback" (repomanifest.go:51-60); and what one start could not write, the
\* next one resolves.
EveryReaderFindsOne ==
    phase = "run" /\ ~unread /\ ~lost => \A r \in Repos : BaseSHA(manifest[r]) # None

\* Diffs are against the commit the session started from, all its life.
BaselineKept == TypeOK /\ MachineKeeps /\ BaselineFixed /\ BaselineIsStart /\ EveryReaderFindsOne

---------------------------------------------------------------------------
(* Statements of the docs that do not hold (README, section 5).            *)

\* The baseline "must not move for the life of the session" (baseline.go:30-31),
\* though the bridge dies or a write fails between the two files.
NeverMoves ==
    phase = "run" => \A r \in Repos : used[r] # None => BaseSHA(manifest[r]) = used[r]

\* It "is the commit the session started from", resolved "once, at boot, before
\* the agent can touch anything" (baseline.go:30, 35-37), though a start could
\* not write the manifest: the next one on the machine resolves it again.
ResolvedOnce == ~unread /\ ~torn => \A r \in Repos : used[r] \in {None, 1}
=============================================================================
