--------------------------- MODULE SkillsInstall ---------------------------
(***************************************************************************)
(* Installing the managed skills at boot: the journalled swap of           *)
(* internal/skills/materialize.go and its repair on the next boot.         *)
(*                                                                         *)
(* The process is a list of file system operations, todo, done one at a    *)
(* time; any may fail, and the process may be killed, or the machine lose  *)
(* power, between any two.  fs is what the process sees.  A killed process *)
(* loses nothing.  A power failure keeps any part of the changes to the    *)
(* parent directory since its last fsync, for without one nothing orders   *)
(* two changes: maybe are the file systems of which it leaves one.  And    *)
(* within any tree it may take entries, at any time: each file is synced,  *)
(* but the staging directory and those of the skills never are.            *)
(*                                                                         *)
(* A tree is its version and whether all its files are there; removing one *)
(* is two operations, for RemoveAll may stop half way.                     *)
(***************************************************************************)
EXTENDS Naturals, Sequences

CONSTANTS
    Discovered,    \* what discovery may find: [root, dir, declared], declared "" for no valid name
    Destination,   \* the root that is replaced
    Names,         \* the skill names an installation may select
    MaxBoots, MaxFailures, MaxOutages \* bounds: boots, failing operations, power failures

ConstantsOK ==
    /\ \A d \in Discovered : DOMAIN d = {"root", "dir", "declared"}
    /\ "" \notin Names
    /\ {MaxBoots, MaxFailures, MaxOutages} \subseteq Nat

VARIABLES
    fs,          \* the three directories and the journal, as the process sees them
    maybe,       \* those of which a power failure leaves one
    unsynced,    \* the changes since the last fsync
    phase,       \* "off", "fetched", "repair", "swap", "rollback", "booted" or "failed"
    todo,        \* the operations left in this phase
    wanted,      \* the installation: its skills; its version is boots
    found,       \* the skills discovery finds outside
    \* history
    boots, failures, outages,
    kept,        \* the version of the last boot that succeeded
    exposed,     \* "aside": a rollback could not put the tree back; "void": a boot
                 \* then discarded it, or the power went while a rename that a
                 \* later removal relies on was not synced; else "no"
    lost         \* the versions of which a power failure took entries

fsVars == <<fs, maybe, unsynced>>
powerVars == <<outages, exposed, lost>>
vars == <<fsVars, phase, todo, wanted, found, boots, failures, powerVars, kept>>

NoTree == [v |-> 0, whole |-> FALSE]
Tree(v) == [v |-> v, whole |-> TRUE]
Installed(tree) == [dest |-> tree, staging |-> NoTree, backup |-> NoTree, journal |-> FALSE]

---------------------------------------------------------------------------
(* The three directories and the journal. *)

\* A rename onto a directory that is there fails; here it changes nothing.
Spoiled(tree) == [v |-> tree.v, whole |-> FALSE]
Apply(f, op) ==
    CASE op = "mkdir"     -> [f EXCEPT !.staging = [v |-> boots, whole |-> FALSE]]
      [] op = "fill"      -> [f EXCEPT !.staging = [v |-> @.v, whole |-> @ # NoTree]]
      [] op = "journal"   -> [f EXCEPT !.journal = TRUE]
      [] op = "unjournal" -> [f EXCEPT !.journal = FALSE]
      [] op = "aside"     -> IF f.backup = NoTree THEN [f EXCEPT !.backup = f.dest, !.dest = NoTree] ELSE f
      [] op = "back"      -> IF f.dest = NoTree THEN [f EXCEPT !.dest = f.backup, !.backup = NoTree] ELSE f
      [] op = "in"        -> IF f.dest = NoTree THEN [f EXCEPT !.dest = f.staging, !.staging = NoTree] ELSE f
      [] op = "spoilBackup"  -> [f EXCEPT !.backup = Spoiled(@)]
      [] op = "spoilStaging" -> [f EXCEPT !.staging = Spoiled(@)]
      [] op = "rmBackup"  -> [f EXCEPT !.backup = NoTree]
      [] op = "rmStaging" -> [f EXCEPT !.staging = NoTree]

\* removePath: a missing path is no error.
RemoveBackup(f) == IF f.backup = NoTree THEN <<>> ELSE <<"spoilBackup", "rmBackup">>
RemoveStaging(f) == IF f.staging = NoTree THEN <<>> ELSE <<"spoilStaging", "rmStaging">>

\* repairInterruptedSwap
Repair(f) ==
    IF ~f.journal THEN RemoveStaging(f) \o RemoveBackup(f)
    ELSE (IF f.dest # NoTree THEN RemoveBackup(f)
          ELSE IF f.backup # NoTree THEN <<"back">> ELSE <<>>)
         \o RemoveStaging(f) \o <<"unjournal", "fsync">>

\* swapIn: stage, write the journal (durable), move aside, move in, clean up.
Swap(f) ==
    <<"mkdir", "fill", "journal", "fsync">>
    \o (IF f.dest = NoTree THEN <<>> ELSE <<"aside", "fsync">>)
    \o <<"in", "fsync">>
    \o (IF f.dest = NoTree THEN <<>> ELSE <<"spoilBackup", "rmBackup">>) \o <<"unjournal", "fsync">>

\* install's rollback, which ignores its own errors
Rollback_NoRestore(f) == RemoveStaging(f) \o <<"unjournal">>
Rollback(f) ==
    (IF f.dest = NoTree /\ f.backup # NoTree THEN <<"back">> ELSE <<>>)
    \o RemoveStaging(f) \o <<"unjournal">>

---------------------------------------------------------------------------
(* Name collisions. *)

CollisionRoot(d) == d.root # Destination
SkillNames_DirOnly(d) == {d.dir}
SkillNames(d) == {d.dir} \cup ({d.declared} \ {""})
Collides(skills) == \E d \in found : CollisionRoot(d) /\ SkillNames(d) \cap skills # {}

---------------------------------------------------------------------------
(* One boot: fetch, validate, check collisions, repair, swap. *)

Boot ==
    /\ phase = "off" /\ boots < MaxBoots
    /\ boots' = boots + 1
    /\ wanted' \in SUBSET Names /\ found' \in SUBSET Discovered
    /\ phase' = "fetched" /\ todo' = <<>>
    /\ UNCHANGED <<fsVars, failures, powerVars, kept>>

\* The fetch and the validation may fail; a collision refuses the boot.
Check ==
    /\ phase = "fetched"
    /\ \/ /\ ~Collides(wanted) /\ phase' = "repair" /\ todo' = Repair(fs)
          /\ exposed' = (IF exposed # "aside" THEN exposed
                         ELSE IF fs.journal \/ fs.dest # NoTree THEN "no" ELSE "void")
          /\ UNCHANGED failures
       \/ Collides(wanted) /\ phase' = "failed" /\ UNCHANGED <<todo, failures, exposed>>
       \/ /\ failures < MaxFailures /\ phase' = "failed" /\ failures' = failures + 1
          /\ UNCHANGED <<todo, exposed>>
    /\ UNCHANGED <<fsVars, wanted, found, boots, outages, lost, kept>>

\* Mkdir fails on a directory that is there, a rename on one that is not empty.
Possible(op) ==
    /\ op = "mkdir" => fs.staging = NoTree
    /\ op = "aside" => fs.backup = NoTree
    /\ op \in {"in", "back"} => fs.dest = NoTree

Change(op) ==
    /\ fs' = Apply(fs, op)
    /\ maybe' = maybe \cup {Apply(f, op) : f \in maybe}
    /\ unsynced' = unsynced \cup {op}

\* fsyncDirectory of the parent: its entries are durable, not what is below them.
Fsync == maybe' = {fs} /\ unsynced' = {} /\ UNCHANGED fs

Do ==
    /\ todo # <<>> /\ Possible(Head(todo))
    /\ todo' = Tail(todo)
    /\ IF Head(todo) = "fsync" THEN Fsync ELSE Change(Head(todo))
    /\ UNCHANGED <<phase, wanted, found, boots, failures, powerVars, kept>>

\* A failed operation changes nothing.  After Mkdir the swap is rolled back;
\* before it, and in a repair, the error is returned as it is.
Fail ==
    /\ todo # <<>>
    /\ \/ ~Possible(Head(todo)) /\ UNCHANGED failures
       \/ failures < MaxFailures /\ failures' = failures + 1
    /\ \/ phase = "swap" /\ Head(todo) # "mkdir" /\ phase' = "rollback" /\ todo' = Rollback(fs)
       \/ phase = "swap" /\ Head(todo) = "mkdir" /\ phase' = "failed" /\ todo' = <<>>
       \/ phase = "repair" /\ phase' = "failed" /\ todo' = <<>>
       \/ phase = "rollback" /\ todo' = Tail(todo) /\ UNCHANGED phase
    /\ exposed' = IF exposed = "no" /\ phase = "rollback" /\ Head(todo) = "back" THEN "aside" ELSE exposed
    /\ UNCHANGED <<fsVars, wanted, found, boots, outages, lost, kept>>

Finish ==
    /\ todo = <<>>
    /\ \/ phase = "repair" /\ phase' = "swap" /\ todo' = Swap(fs) /\ UNCHANGED <<kept, exposed>>
       \/ phase = "swap" /\ phase' = "booted" /\ kept' = boots /\ exposed' = "no" /\ UNCHANGED todo
       \/ phase = "rollback" /\ phase' = "failed" /\ UNCHANGED <<todo, kept, exposed>>
    /\ UNCHANGED <<fsVars, wanted, found, boots, failures, outages, lost>>

\* What a repair and a rollback do without a sync between: a rename back, and
\* the removal of the backup or the journal while the new tree's rename is not
\* known to be durable.
Unsynced ==
    \/ "back" \in unsynced
    \/ "in" \in unsynced /\ {"spoilBackup", "rmBackup", "unjournal"} \cap unsynced # {}

\* What a power failure leaves of f when it takes entries from some of its trees.
Cut(f, places) == [f EXCEPT !.dest = IF "dest" \in places THEN Spoiled(@) ELSE @,
                            !.staging = IF "staging" \in places THEN Spoiled(@) ELSE @,
                            !.backup = IF "backup" \in places THEN Spoiled(@) ELSE @]

\* The process dies or ends; the machine may lose power with it.
Die ==
    /\ phase # "off" /\ boots < MaxBoots
    /\ phase' = "off" /\ todo' = <<>>
    /\ \/ UNCHANGED <<fsVars, powerVars>>
       \/ /\ outages < MaxOutages /\ outages' = outages + 1
          /\ exposed' = IF Unsynced THEN "void" ELSE exposed
          /\ \E f \in maybe : \E places \in SUBSET {p \in {"dest", "staging", "backup"} : f[p].v > 0} :
                fs' = Cut(f, places) /\ lost' = lost \cup {f[p].v : p \in places}
          /\ maybe' = {fs'} /\ unsynced' = {}
    /\ UNCHANGED <<wanted, found, boots, failures, kept>>

Init ==
    /\ fs = Installed(NoTree) /\ maybe = {fs} /\ unsynced = {}
    /\ phase = "off" /\ todo = <<>>
    /\ wanted = {} /\ found = {} /\ boots = 0 /\ failures = 0 /\ outages = 0
    /\ kept = 0 /\ exposed = "no" /\ lost = {}

Next == Boot \/ Check \/ Do \/ Fail \/ Finish \/ Die
Spec == Init /\ [][Next]_vars

---------------------------------------------------------------------------
(* Properties. *)

Trees == [v : 0..MaxBoots, whole : BOOLEAN]

\* The directories hold trees, and the list of operations is of its phase.
TypeOK ==
    /\ fs \in maybe /\ maybe \subseteq [dest : Trees, staging : Trees, backup : Trees, journal : BOOLEAN]
    /\ phase \in {"off", "fetched", "repair", "swap", "rollback", "booted", "failed"}
    /\ todo # <<>> => phase \in {"repair", "swap", "rollback"}
    /\ wanted \subseteq Names /\ found \subseteq Discovered

\* A tree that no step of the process took a file from: the whole tree, but for
\* what a power failure took.
Untouched(tree) == tree.whole \/ tree.v \in lost

\* What the disk may be after a power failure, where no removal outran a rename.
Afterwards == IF Unsynced THEN {fs} ELSE maybe

\* The destination never holds a tree that was not filled, or was half removed,
\* nor would it after a power failure: "a partially trusted skills tree is worse
\* than none" (materialize.go:61-62).
NeverPartial ==
    exposed # "void" => \A f \in Afterwards : f.dest = NoTree \/ Untouched(f.dest)

\* A boot that succeeded has the whole tree it fetched, under a durable name and
\* with no trace of the swap, and none of its skills is shadowed
\* (materialize.go:94-96, 199-203).
BootedIsInstalled ==
    phase = "booted" =>
        /\ fs = Installed(Tree(boots)) /\ maybe = {fs}
        /\ \A d \in found : d.root # Destination => {d.dir, d.declared} \cap wanted = {}

\* Wherever the swap is cut short, the last tree installed, or a later one, is
\* in place or will be put back by the next repair (materialize.go:202-203,
\* 280-282).  After a rollback that could not put it back it is still there.
Last(tree) == Untouched(tree) /\ tree.v >= kept
Survives(f) ==
    \/ f.dest # NoTree /\ Last(f.dest)
    \/ f.dest = NoTree /\ f.backup # NoTree /\ Last(f.backup) /\ (f.journal \/ exposed = "aside")
Recoverable == kept > 0 /\ exposed # "void" => \A f \in Afterwards : Survives(f)

\* An error does not take the previous tree away: when a swap was rolled back it
\* is in place, before any repair (materialize.go:223-224), or else its rename
\* back failed and it is the backup, which the next boot will discard.
RollbackKeepsTree ==
    [][phase = "rollback" /\ phase' = "failed" /\ kept > 0 /\ exposed # "void" =>
          LET tree == IF exposed = "aside" THEN fs'.backup ELSE fs'.dest
          IN tree # NoTree /\ Last(tree)]_vars

\* Nothing that an interrupted or failed boot left behind makes an operation of
\* a later one impossible (materialize.go:280-282).
NothingInTheWay == todo # <<>> => Possible(Head(todo))

\* A boot that succeeded left the tree it fetched and no other way to its names.
TrustedTree == TypeOK /\ NeverPartial /\ BootedIsInstalled

\* No boot takes the last tree away, however it ends.
TreeSurvives == [](Recoverable /\ NothingInTheWay) /\ RollbackKeepsTree

---------------------------------------------------------------------------
(* Statements of the docs that do not hold (README, section 5).            *)

\* "An interrupted swap is always recoverable on the next boot"
\* (materialize.go:202-203), though a rollback's rename fails and no power does.
AlwaysRecoverable == kept > 0 /\ outages = 0 => Survives(fs) /\ (fs.dest # NoTree \/ fs.journal)

\* It is, to a whole tree, when the power goes and no rename was outrun.
RecoversWhole == kept > 0 /\ exposed = "no" => fs.dest.whole \/ fs.backup.whole
=============================================================================
