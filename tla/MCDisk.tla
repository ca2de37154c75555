------------------------------- MODULE MCDisk -------------------------------
(***************************************************************************)
(* An instance for TLC of the parts of the bridge that work on the disk of *)
(* the sandbox (Disk).  They share no file, so a behaviour here is one of  *)
(* one of them, chosen first.                                              *)
(***************************************************************************)
EXTENDS Disk

---------------------------------------------------------------------------
(* Baselines: the control plane sends nothing, either spelling, or a bad   *)
(* value.                                                                  *)

Entry(snake, camel) == [snake |-> snake, camel |-> camel]
Usual == {Entry(None, None), Entry(1, None), Entry(None, 1), Entry(Bad, None)}

---------------------------------------------------------------------------
(* Skills: one under another name than its directory's, and one in the     *)
(* destination itself.                                                     *)

Skills == {[root |-> "repo", dir |-> "notes", declared |-> "review"],
           [root |-> "managed", dir |-> "review", declared |-> ""]}

---------------------------------------------------------------------------
(* Collections. *)

S(base, idx, unmerged, work) == [base |-> base, idx |-> idx, unmerged |-> unmerged, work |-> work]

\* Unchanged, modified, deleted, deleted in the index only (twice), added.
Tracked == {S(TRUE, TRUE, FALSE, 0), S(TRUE, TRUE, FALSE, 2), S(TRUE, FALSE, FALSE, None),
            S(TRUE, FALSE, FALSE, 0), S(TRUE, FALSE, FALSE, 2), S(FALSE, TRUE, FALSE, 1)}
\* Unchanged, modified, removed from the index, untracked, gone.
Moving == {S(TRUE, TRUE, FALSE, 0), S(TRUE, TRUE, FALSE, 2), S(TRUE, FALSE, FALSE, 2),
           S(FALSE, FALSE, FALSE, 2), S(FALSE, FALSE, FALSE, None)}
\* Untracked, empty or not, a tracked empty file, a conflict, none at all.
Every == Tracked \cup {S(FALSE, FALSE, FALSE, 0), S(FALSE, FALSE, FALSE, 3), S(FALSE, TRUE, FALSE, 0),
            S(TRUE, TRUE, TRUE, 3), S(FALSE, FALSE, FALSE, None)}
\* Sizes that differ, for the shedding.
Sizes == {S(TRUE, TRUE, FALSE, 0), S(TRUE, TRUE, FALSE, 1), S(TRUE, TRUE, FALSE, 2),
          S(FALSE, FALSE, FALSE, 0), S(FALSE, FALSE, FALSE, 3)}
Nothing == {S(FALSE, FALSE, FALSE, None)}

\* Every shape of a text and a binary path in a checkout at rest; the second
\* path is a file of the runtime, the second repository has no baseline.
AtRest == [kind |-> <<"text", "binary", "text">>, excluded |-> {2}, shapes |-> <<Every, Every, Nothing>>,
           baseline |-> {1}, maxFiles |-> 2, maxPatch |-> 3, maxCapture |-> 99, maxBundle |-> 99,
           maxEdits |-> 0, maxFailures |-> 0, mayCancel |-> FALSE]
\* Three files in each of two repositories against every ceiling.
AtTheLimits == [kind |-> <<"text", "text", "text">>, excluded |-> {}, shapes |-> <<Sizes, Sizes, Sizes>>,
           baseline |-> {1, 2}, maxFiles |-> 5, maxPatch |-> 4, maxCapture |-> 12, maxBundle |-> 6,
           maxEdits |-> 0, maxFailures |-> 0, mayCancel |-> FALSE]
\* A change between any two commands, commands that fail, a cancellation.
InMotion == [kind |-> <<"text", "submodule", "text">>, excluded |-> {}, shapes |-> <<Moving, Moving, Nothing>>,
           baseline |-> {1, 2}, maxFiles |-> 3, maxPatch |-> 9, maxCapture |-> 5, maxBundle |-> 6,
           maxEdits |-> 1, maxFailures |-> 2, mayCancel |-> TRUE]
Collected == {AtRest, AtTheLimits, InMotion}

VARIABLE part

---------------------------------------------------------------------------
ASSUME SkillConstants == I!ConstantsOK
ASSUME BundleConstants == B!ConstantsOK

\* A part that does not run has one initial state.
PartsInit ==
    /\ part \in {"baselines", "skills", "collection"}
    /\ IF part = "baselines" THEN TRUE ELSE list = [r \in Repos |-> Entry(None, None)]
    /\ IF part = "collection" THEN TRUE
       ELSE setup = InMotion /\ tree = [r \in 1..2 |-> [p \in 1..3 |-> CHOOSE s \in Nothing : TRUE]]
    /\ Init /\ I!Init /\ B!Init

PartsNext ==
    /\ UNCHANGED part
    /\ \/ part = "baselines" /\ Next /\ UNCHANGED <<skillVars, bundleVars>>
       \/ part = "skills" /\ I!Next /\ UNCHANGED <<vars, bundleVars>>
       \/ part = "collection" /\ B!Next /\ UNCHANGED <<vars, skillVars>>

PartsSpec == PartsInit /\ [][PartsNext]_<<part, vars, skillVars, bundleVars>>

=============================================================================
