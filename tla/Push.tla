-------------------------------- MODULE Push --------------------------------
(***************************************************************************)
(* The push command (internal/bridge/git.go): the spec is validated, the   *)
(* checkout it means is found, and one git push runs in it under a         *)
(* deadline.  Commands run one after another.  git may hang, ignore        *)
(* SIGTERM, leave a child that keeps its stderr open, fail before or after *)
(* the remote took the branch, or end just when the deadline passes.       *)
(***************************************************************************)
EXTENDS Naturals, SequencesExt

CONSTANTS
    Specs,        \* the commands' specs: [present, owner, name, branch, url]
    Key,          \* [the names specs and entries use -> the name folded]
    Manifest,     \* the manifest's entries in order: [owner, name, path]
    RepoName,     \* the directory REPO_NAME names, or None
    Clones,       \* the directories of the workspace, in order
    None, Absent, \* no directory; a field that is not there
    MaxPushes     \* bound on commands

ConstantsOK ==
    /\ \A s \in Specs : {s.present, s.branch, s.url} \subseteq BOOLEAN
    /\ Manifest \in Seq(ToSet(Manifest)) /\ Clones \in Seq(ToSet(Clones))
    /\ MaxPushes \in Nat

VARIABLES
    there,     \* the directories that hold a checkout now
    count,     \* commands received
    pc,        \* "idle", "git", "waited" or "answer"
    spec, dir, \* the command, and the checkout it runs in
    process,   \* "none", "running", "ok" or "failed"
    stderr,    \* someone holds git's stderr open
    expired,   \* why the command's context is done: "no", "deadline" or "shutdown"
    delayed,   \* WaitDelay after the end of git or of its time
    error,     \* what Run and the lookups returned
    remote,    \* the remote took the branch of this command, from: a directory
    answers    \* the events sent, per command: [ok, took, spec, dir]

run == <<process, stderr, expired, delayed>>
vars == <<there, count, pc, spec, dir, run, error, remote, answers>>

---------------------------------------------------------------------------
(* Validation and the checkout. *)

Named(s) == s.owner # Absent /\ s.name # Absent
Valid(s) ==
    /\ s.present
    /\ (s.owner # Absent) = (s.name # Absent)
    /\ s.branch /\ s.url

\* The place of the first entry that fits, whatever its letters' case, or 0.
Find(s) ==
    SelectInSeq(Manifest, LAMBDA e : Key[e.owner] = Key[s.owner] /\ Key[e.name] = Key[s.name])
Here(d) == IF d \in there THEN d ELSE None

FindRepoDir ==
    LET first == SelectInSeq(Clones, LAMBDA d : d \in there)
    IN IF RepoName \in there THEN RepoName
       ELSE IF first = 0 THEN None ELSE Clones[first]

Checkout_Fallback(s) ==
    IF ~Valid(s) THEN None
    ELSE IF Named(s) /\ Find(s) # 0 THEN Here(Manifest[Find(s)].path) ELSE FindRepoDir
Checkout(s) ==
    IF ~Valid(s) THEN None
    ELSE IF ~Named(s) THEN FindRepoDir
    ELSE IF Find(s) = 0 THEN None ELSE Here(Manifest[Find(s)].path)

HandlePush(s) ==
    /\ pc = "idle" /\ count < MaxPushes
    /\ count' = count + 1 /\ spec' = s /\ dir' = Checkout(s) /\ remote' = None
    /\ error' = (dir' = None)
    /\ IF dir' = None
       THEN pc' = "answer" /\ UNCHANGED run
       ELSE /\ pc' = "git" /\ process' = "running"
            /\ stderr' = TRUE /\ expired' = "no" /\ delayed' = FALSE
    /\ UNCHANGED <<there, answers>>

---------------------------------------------------------------------------
(* git push. *)

\* The remote takes the branch.
RemoteTakes ==
    /\ pc = "git" /\ process = "running" /\ remote = None
    /\ remote' = dir
    /\ UNCHANGED <<there, count, pc, spec, dir, run, error, answers>>

\* git ends by itself or because it was told to; it may leave a child.
GitEnds ==
    /\ pc = "git" /\ process = "running"
    /\ process' \in IF remote # None THEN {"ok", "failed"} ELSE {"failed"}
    /\ stderr' \in BOOLEAN
    /\ UNCHANGED <<there, count, pc, spec, dir, expired, delayed, error, remote, answers>>

StderrCloses ==
    /\ pc = "git" /\ process \in {"ok", "failed"} /\ stderr
    /\ stderr' = FALSE
    /\ UNCHANGED <<there, count, pc, spec, dir, process, expired, delayed, error, remote, answers>>

\* gitPushTimeout, or a shutdown: SIGTERM, which git may ignore.
Deadline ==
    /\ pc \in {"git", "waited"} /\ expired = "no"
    /\ expired' \in {"deadline", "shutdown"}
    /\ UNCHANGED <<there, count, pc, spec, dir, process, stderr, delayed, error, remote, answers>>

\* WaitDelay after that, or after git's end: git is killed and its stderr no
\* longer waited for.
GraceEnds_None == FALSE
GraceEnds == expired # "no" \/ process # "running"
WaitDelay ==
    /\ pc = "git" /\ ~delayed /\ GraceEnds
    /\ delayed' = TRUE
    /\ process' = IF process = "running" THEN "failed" ELSE process
    /\ UNCHANGED <<there, count, pc, spec, dir, stderr, expired, error, remote, answers>>

\* Run returns; an stderr that was given up is an error too, and so may be a
\* context that was done, whatever git's end.
RunFails == process = "failed" \/ stderr
RunReturns ==
    /\ pc = "git" /\ process # "running" /\ (~stderr \/ delayed)
    /\ error' \in {RunFails, RunFails \/ expired # "no"}
    /\ pc' = "waited"
    /\ UNCHANGED <<there, count, spec, dir, run, remote, answers>>

\* The deadline, not a shutdown, is looked at after the result.
CheckDeadline ==
    /\ pc = "waited"
    /\ error' = (error \/ expired = "deadline")
    /\ pc' = "answer"
    /\ UNCHANGED <<there, count, spec, dir, run, remote, answers>>

Answer ==
    /\ pc = "answer"
    /\ answers' = Append(answers, [ok |-> ~error, took |-> remote, spec |-> spec, dir |-> dir])
    /\ pc' = "idle" /\ process' = "none"
    /\ UNCHANGED <<there, count, spec, dir, stderr, expired, delayed, error, remote>>

---------------------------------------------------------------------------
(* The agent makes and removes checkouts; one that goes while git runs in it *)
(* makes git fail, as GitEnds may at any time.                               *)
Workspace ==
    /\ pc = "idle"
    /\ \E d \in ToSet(Clones) : there' = (there \cup {d}) \ (there \cap {d})
    /\ UNCHANGED <<count, pc, spec, dir, run, error, remote, answers>>

Init ==
    /\ there \in SUBSET ToSet(Clones) /\ count = 0 /\ pc = "idle"
    /\ spec \in Specs /\ dir = None
    /\ process = "none" /\ stderr = FALSE /\ expired = "no" /\ delayed = FALSE
    /\ error = FALSE /\ remote = None /\ answers = <<>>

Finishing == RunReturns \/ CheckDeadline \/ Answer
Next ==
    \/ \E s \in Specs : HandlePush(s)
    \/ RemoteTakes \/ GitEnds \/ StderrCloses \/ Deadline \/ WaitDelay \/ Finishing \/ Workspace

Spec == Init /\ [][Next]_vars

---------------------------------------------------------------------------
(* Properties. *)

\* A command that started git has a checkout, and each command before it one
\* answer, "the single push_error emitter" (git.go:254).
TypeOK ==
    /\ pc \in {"git", "waited"} => dir \in there
    /\ Len(answers) = count - (IF pc = "idle" THEN 0 ELSE 1)

\* push_complete is sent only when the remote has the branch.
CompleteMeansPushed == \A i \in DOMAIN answers : answers[i].ok => answers[i].took # None

\* A spec that names a repository is pushed from the checkout of that member or
\* not at all, whatever else is in the workspace, and an invalid one not at all
\* (git.go:313-316).
OnlyTheNamed ==
    \A i \in DOMAIN answers :
        LET s == answers[i].spec
        IN answers[i].took # None =>
             /\ s.present /\ (s.owner = Absent <=> s.name = Absent)
             /\ s.owner # Absent =>
                  \E j \in DOMAIN Manifest : /\ Manifest[j].path = answers[i].took
                                             /\ Key[Manifest[j].name] = Key[s.name]
                                             /\ Key[Manifest[j].owner] = Key[s.owner]

\* What the control plane is told of a push is so, and no other repository was
\* pushed than the one it asked for.
PushedAsAsked == TypeOK /\ CompleteMeansPushed /\ OnlyTheNamed
=============================================================================
