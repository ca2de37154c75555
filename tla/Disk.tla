-------------------------------- MODULE Disk --------------------------------
(***************************************************************************)
(* The parts of the bridge that work on the disk of the sandbox: the diff  *)
(* baselines (Baselines) and the managed skills (SkillsInstall) that a     *)
(* boot leaves there, and what a refresh collects from the checkouts       *)
(* (DiffBundle).  They share no file; here they stand side by side, with   *)
(* what each promises.                                                     *)
(***************************************************************************)
EXTENDS Baselines

---------------------------------------------------------------------------
(* The managed skills. *)

CONSTANTS Discovered, Destination, Names, MaxInstalls, MaxFaults, MaxOutages \* of SkillsInstall

VARIABLES fs, maybe, unsynced, step, todo, wanted, found, installs, failures, outages, kept, exposed, cut

I == INSTANCE SkillsInstall WITH
        MaxBoots <- MaxInstalls, MaxFailures <- MaxFaults,
        phase <- step, boots <- installs, lost <- cut

skillVars == <<fs, maybe, unsynced, step, todo, wanted, found, installs, failures, outages, kept, exposed, cut>>

\* A boot that succeeded left the skills it fetched, under a durable name, and no
\* other way to their names; and no boot takes the last tree away, however it
\* ends: see SkillsInstall (materialize.go:61-62, 94-96, 199-203, 223-224, 280-282).
TrustedTree == I!TrustedTree
TreeSurvives == I!TreeSurvives

---------------------------------------------------------------------------
(* Collections. *)

CONSTANTS Checkouts, NPaths, Sessions, Binary  \* N, NPaths, Setups and Binary of DiffBundle

VARIABLES setup, tree, place, raw, others, numstat, selected, stats, entry, bundle,
          filesLeft, bytesLeft, cancelled, edits, errors, seen, unbounded

B == INSTANCE DiffBundle WITH
        N <- Checkouts, Setups <- Sessions,
        pc <- place, todo <- selected, failures <- errors

bundleVars == <<setup, tree, place, raw, others, numstat, selected, stats, entry, bundle,
                filesLeft, bytesLeft, cancelled, edits, errors, seen, unbounded>>

\* What a bundle says of the checkouts is so; it is within the limits of the whole
\* session, and was cut where it should be; and a repository that cannot be
\* captured does not hide the others: see DiffBundle (collector.go:77-79, 82-83,
\* 116-117, 194-195, 224-229, bundle.go:28-34, 153, 188-189, 195-204).
BundleIsTrue == B!BundleIsTrue
BundleIsBounded == B!BundleIsBounded
OthersShown == B!OthersShown
=============================================================================
