-------------------------- MODULE PromptLifecycle --------------------------
(***************************************************************************)
(* A prompt from its command to its execution_complete event, with what    *)
(* may end it early: internal/bridge/command.go, prompt.go, session.go,    *)
(* the session calls of opencode.go, and the cancel function and Run's     *)
(* frame in bridge.go.                                                     *)
(*                                                                         *)
(* Actors: the read loop (startPrompt, stop, shutdown, the end of Run) is  *)
(* one goroutine; every prompt has one of its own, whose place is pc[p].   *)
(* The bridge process may die and be started again.                        *)
(*                                                                         *)
(* A session is the number OpenCode gave it, 0 for none.  Git identity,    *)
(* attachments and the event stream are modules of their own: here each is *)
(* a stage that takes the time it takes and has an outcome.                *)
(***************************************************************************)
EXTENDS Naturals, Sequences, FiniteSets

CONSTANTS
    Prompts,      \* the prompts of a run, each sent once
    NoPrompt,     \* a nil cancel function
    MaxFaults,    \* bound: stop commands and deaths of the bridge process, together
    MaxSessions   \* bound: sessions OpenCode creates

ASSUME PromptsAssumption == NoPrompt \notin Prompts
ASSUME BoundsAssumption == MaxFaults \in Nat /\ MaxSessions \in Nat

VARIABLES
    run,        \* Run: "loop", "closing" (after the loop) or "exited"
    rootDone,   \* rootCtx is cancelled
    cancelF,    \* cancelPromptF: the prompt it cancels
    gen,        \* promptGen
    genOf,      \* the generation each prompt's goroutine holds
    cancelled,  \* prompts whose own context was cancelled
    pc, local,  \* each prompt's goroutine, and the id saveSessionID has read
    output, failed, \* the streaming prompts that emitted output, and an error event
    done,       \* each prompt's execution_complete events
    sid, file,  \* opencodeSessionID and the session id file
    alive, created, \* the sessions OpenCode has, and how many it ever created
    \* history
    unsaved,    \* saving the current session id failed
    overlapped, \* a prompt was started before the one before it was completed
    stops, restarts

runVars == <<run, rootDone, cancelF, gen, stops, restarts>>
sessionVars == <<sid, file, alive, created, unsaved>>
emitVars == <<output, failed, done>>
startVars == <<genOf, overlapped>>
vars == <<runVars, sessionVars, emitVars, startVars, cancelled, pc, local>>

CtxDone(p) == rootDone \/ p \in cancelled
Started(p) == pc[p] \notin {"new", "lost"}
InFlight == {p \in Prompts : Started(p) /\ done[p] = <<>>}

---------------------------------------------------------------------------
(* Commands, on the read loop. *)

\* startPrompt: the cancel function is replaced, whoever it belonged to.
StartPrompt(p) ==
    /\ run = "loop"
    /\ pc[p] = "new"
    /\ overlapped' = (overlapped \/ InFlight # {})
    /\ gen' = gen + 1
    /\ genOf' = [genOf EXCEPT ![p] = gen + 1]
    /\ cancelF' = p
    /\ pc' = [pc EXCEPT ![p] = "identity"]
    /\ UNCHANGED <<run, rootDone, stops, restarts, sessionVars, emitVars, cancelled, local>>

CancelPrompt == cancelled' = cancelled \cup ({cancelF} \ {NoPrompt})

\* handleStop; the abort it sends to OpenCode changes nothing here.
HandleStop ==
    /\ run = "loop"
    /\ stops + restarts < MaxFaults
    /\ stops' = stops + 1
    /\ CancelPrompt
    /\ UNCHANGED <<run, rootDone, cancelF, gen, restarts, sessionVars, emitVars, startVars, pc, local>>

HandleShutdown ==
    /\ run = "loop"
    /\ CancelPrompt
    /\ rootDone' = TRUE
    /\ UNCHANGED <<run, cancelF, gen, stops, restarts, sessionVars, emitVars, startVars, pc, local>>

\* The control plane rejects the session for good, or the parent context ends.
Terminate ==
    /\ run = "loop" /\ ~rootDone
    /\ rootDone' = TRUE
    /\ UNCHANGED <<run, cancelF, gen, stops, restarts, sessionVars, emitVars, startVars, cancelled, pc, local>>

\* Run after its loop: cancelPrompt, then the wait for the diff worker, then
\* the process ends without waiting for any prompt.
LeaveLoop ==
    /\ run = "loop" /\ rootDone
    /\ CancelPrompt
    /\ run' = "closing"
    /\ UNCHANGED <<rootDone, cancelF, gen, stops, restarts, sessionVars, emitVars, startVars, pc, local>>

Exit ==
    /\ run = "closing"
    /\ run' = "exited"
    /\ UNCHANGED <<rootDone, cancelF, gen, stops, restarts, sessionVars, emitVars, startVars, cancelled, pc, local>>

---------------------------------------------------------------------------
(* The prompt's goroutine. *)

Complete(p, outcome) == done' = [done EXCEPT ![p] = Append(@, outcome)]

Step(p, from, to) ==
    /\ run # "exited"
    /\ pc[p] = from
    /\ pc' = [pc EXCEPT ![p] = to]

\* handlePrompt reports a failure itself and returns nil.
Fail(p, from) ==
    /\ Step(p, from, "ended")
    /\ Complete(p, "failed")

ConfigureIdentity(p) ==
    /\ \/ Step(p, "identity", "session") /\ UNCHANGED emitVars
       \/ Fail(p, "identity") /\ UNCHANGED <<output, failed>>
    /\ UNCHANGED <<runVars, sessionVars, startVars, cancelled, local>>

EnsureSession(p) ==
    /\ Step(p, "session", IF sid = 0 THEN "create" ELSE "attach")
    /\ UNCHANGED <<runVars, sessionVars, emitVars, startVars, cancelled, local>>

\* createOpencodeSession: an answer that names the session, one that does not
\* (its id is decoded as the empty one and kept), a failure, or a failure after
\* OpenCode had created it.
CreateSession(p) ==
    /\ \/ /\ created < MaxSessions
          /\ created' = created + 1
          /\ alive' = alive \cup {created + 1}
          /\ \/ Step(p, "create", "save") /\ sid' = created + 1 /\ UNCHANGED emitVars
             \/ Step(p, "create", "nameless") /\ sid' = 0 /\ UNCHANGED emitVars
             \/ Fail(p, "create") /\ UNCHANGED <<sid, output, failed>>
       \/ Fail(p, "create") /\ UNCHANGED <<created, alive, sid, output, failed>>
    /\ UNCHANGED <<runVars, file, unsaved, startVars, cancelled, local>>

\* A prompt to the session without a name is refused, as any that fails.
RefuseNameless(p) ==
    /\ \/ CtxDone(p) /\ Step(p, "nameless", "endedErr") /\ UNCHANGED done
       \/ ~CtxDone(p) /\ Fail(p, "nameless")
    /\ UNCHANGED <<runVars, sessionVars, output, failed, startVars, cancelled, local>>

\* saveSessionID reads the id again, under b.mu, and writes the file without it.
ReadIdToSave(p) ==
    /\ Step(p, "save", IF sid = 0 THEN "attach" ELSE "write")
    /\ local' = [local EXCEPT ![p] = sid]
    /\ UNCHANGED <<runVars, sessionVars, emitVars, startVars, cancelled>>

\* WriteFile truncates, then writes: a failure leaves the old id or none.
WriteId(p) ==
    /\ Step(p, "write", "attach")
    /\ \/ file' = local[p] /\ unsaved' = FALSE
       \/ file' \in {file, 0} /\ unsaved' = TRUE
    /\ local' = [local EXCEPT ![p] = 0]
    /\ UNCHANGED <<runVars, sid, alive, created, emitVars, startVars, cancelled>>

Attach(p) ==
    /\ Step(p, "attach", "stream")
    /\ UNCHANGED <<runVars, sessionVars, emitVars, startVars, cancelled, local>>

\* The emit closure of handlePrompt.
Emit(p) ==
    /\ Step(p, "stream", "stream")
    /\ \/ output' = output \cup {p} /\ UNCHANGED failed
       \/ failed' = failed \cup {p} /\ UNCHANGED output
    /\ <<output', failed'>> # <<output, failed>>
    /\ UNCHANGED <<runVars, sessionVars, done, startVars, cancelled, local>>

\* streamOpencodeResponse returned.  An error of a cancelled prompt is handed
\* to startPrompt; any other end is reported here.
StreamEndWith(p, ends, success) ==
    /\ ends
    /\ \/ CtxDone(p) /\ Step(p, "stream", "endedErr") /\ UNCHANGED done
       \/ ~CtxDone(p) /\ Fail(p, "stream")
       \/ Step(p, "stream", "ended") /\ Complete(p, IF success THEN "success" ELSE "failed")
    /\ output' = output \ {p} /\ failed' = failed \ {p} \* locals of handlePrompt
    /\ UNCHANGED <<runVars, sessionVars, startVars, cancelled, local>>

StreamEnd_SilentSuccess(p) == StreamEndWith(p, TRUE, p \notin failed)
StreamEnd_NoDeadline(p) == StreamEndWith(p, p \in output \cup failed, p \in output \ failed)
StreamEnd(p) == StreamEndWith(p, TRUE, p \in output \ failed)

\* clearPromptCancel(gen), back in startPrompt's goroutine.
ClearWith(p, current) ==
    /\ \E err \in {"", "Err"} :
          /\ pc[p] = (IF err = "" THEN "ended" ELSE "endedErr")
          /\ Step(p, pc[p], IF err = "" THEN "request" ELSE "complete")
    /\ cancelF' = IF current THEN NoPrompt ELSE cancelF
    /\ UNCHANGED <<run, rootDone, gen, stops, restarts, sessionVars, emitVars, startVars, cancelled, local>>

ClearPromptCancel_AnyGen(p) == ClearWith(p, TRUE)
ClearPromptCancel(p) == ClearWith(p, gen = genOf[p])

\* PromptFinished has opened the idle gate; the cancelled completion comes now.
CompleteCancelled(p) ==
    /\ Step(p, "complete", "request")
    /\ Complete(p, IF CtxDone(p) THEN "cancelled" ELSE "failed")
    /\ UNCHANGED <<runVars, sessionVars, output, failed, startVars, cancelled, local>>

\* The deferred Request, then the deferred cancel.
RequestRefresh(p) ==
    /\ Step(p, "request", "over")
    /\ cancelled' = cancelled \cup {p}
    /\ UNCHANGED <<runVars, sessionVars, emitVars, startVars, local>>

PromptStep(p) ==
    \/ ConfigureIdentity(p) \/ EnsureSession(p) \/ CreateSession(p) \/ ReadIdToSave(p) \/ WriteId(p)
    \/ RefuseNameless(p) \/ Attach(p) \/ StreamEnd(p) \/ ClearPromptCancel(p) \/ CompleteCancelled(p) \/ RequestRefresh(p)

---------------------------------------------------------------------------
(* The process dies, and the supervisor starts another, which begins with  *)
(* loadSessionID.  OpenCode may have been restarted with it.               *)

LoadWith(exists) == sid' = IF exists THEN file ELSE 0
Load_Unchecked == LoadWith(file # 0)
Load == \/ LoadWith(file \in alive')
        \/ LoadWith(FALSE) \* the request failed

Restart ==
    /\ stops + restarts < MaxFaults
    /\ restarts' = restarts + 1
    /\ alive' \in {alive, {}}
    /\ Load
    /\ run' = "loop" /\ rootDone' = FALSE /\ cancelF' = NoPrompt /\ gen' = 0
    /\ genOf' = [p \in Prompts |-> 0]
    /\ pc' = [p \in Prompts |-> IF pc[p] = "new" THEN "new" ELSE "lost"]
    /\ UNCHANGED <<stops, file, created, unsaved, emitVars, cancelled, local, overlapped>>

Init ==
    /\ run = "loop" /\ rootDone = FALSE /\ cancelF = NoPrompt /\ gen = 0
    /\ stops = 0 /\ restarts = 0
    /\ genOf = [p \in Prompts |-> 0] /\ local = [p \in Prompts |-> 0]
    /\ pc = [p \in Prompts |-> "new"]
    /\ done = [p \in Prompts |-> <<>>]
    /\ cancelled = {} /\ output = {} /\ failed = {}
    /\ sid = 0 /\ file = 0 /\ alive = {} /\ created = 0 /\ unsaved = FALSE /\ overlapped = FALSE

Next ==
    \/ \E p \in Prompts : StartPrompt(p) \/ PromptStep(p) \/ Emit(p)
    \/ HandleStop \/ HandleShutdown \/ Terminate \/ LeaveLoop \/ Exit \/ Restart

Spec == Init /\ [][Next]_vars

\* Every stage has a timeout (the stream's is promptMaxDuration), and Close is
\* bounded, so every goroutine that can take a step takes it.
FairSpec == Spec /\ WF_vars(LeaveLoop) /\ WF_vars(Exit) /\ \A p \in Prompts : WF_vars(PromptStep(p))

---------------------------------------------------------------------------
(* Properties. *)

Places == {"new", "identity", "session", "create", "nameless", "save", "write", "attach", "stream",
           "ended", "endedErr", "complete", "request", "over", "lost"}
Outcomes == {"success", "failed", "cancelled"}

\* Every variable keeps its type, and no prompt has two completions
\* (prompt.go:16: one path and one path only emits).
TypeOK ==
    /\ run \in {"loop", "closing", "exited"} /\ rootDone \in BOOLEAN
    /\ cancelF \in Prompts \cup {NoPrompt}
    /\ gen \in Nat /\ genOf \in [Prompts -> Nat]
    /\ pc \in [Prompts -> Places]
    /\ local \in [Prompts -> Nat]
    /\ cancelled \subseteq Prompts /\ output \subseteq Prompts /\ failed \subseteq Prompts
    /\ done \in [Prompts -> {<<>>} \cup {<<o>> : o \in Outcomes}]
    /\ sid \in Nat /\ file \in Nat /\ created \in Nat /\ alive \subseteq 1..created
    /\ stops \in Nat /\ restarts \in Nat
    /\ unsaved \in BOOLEAN /\ overlapped \in BOOLEAN

\* A prompt's goroutine has emitted its completion, exactly one, by the time it
\* asks for the diff refresh, and not before it left handlePrompt (command.go:47-64).
OneCompletion ==
    \A p \in Prompts :
        /\ pc[p] \in {"ended", "request", "over"} => Len(done[p]) = 1
        /\ pc[p] \in Places \ {"ended", "request", "over", "lost"} => done[p] = <<>>

\* A completion says success only of a prompt with output and no error event,
\* and "cancelled" only of one whose context is done (prompt.go:103-124).
HonestOutcome ==
    [][\A p \in Prompts :
         /\ done'[p] = Append(done[p], "success") => p \in output \ failed
         /\ done'[p] = Append(done[p], "cancelled") => CtxDone(p)]_vars

\* On whichever of its paths a prompt ends, it is completed once and the
\* completion says what happened (prompt.go:9-16, command.go:47-64).
HonestCompletion == [](TypeOK /\ OneCompletion) /\ HonestOutcome

\* A stop reaches whatever runs: a prompt without a completion, in a bridge that
\* is not shutting down, is cancelled or is the one cancelPrompt would cancel.
\* The generation is what keeps the previous prompt's late clear from undoing
\* this (bridge.go:375-382).
Cancellable == (run = "loop" /\ ~overlapped) => \A p \in InFlight : CtxDone(p) \/ cancelF = p

\* What a restart will load is the session in use, once nobody is between
\* creating a session and writing its id, and unless the write failed (session.go:30).
FileIsCurrent ==
    (sid # 0 /\ ~unsaved /\ ~overlapped /\ \A p \in Prompts : pc[p] \notin {"save", "write"}) => file = sid

\* No prompt streams on a session that OpenCode does not have (session.go:24);
\* an overlapping prompt may take it away (opencode.go:69).
SessionExists ==
    /\ sid # 0 => sid \in alive
    /\ ~overlapped => \A p \in Prompts : pc[p] \in {"attach", "stream"} => sid # 0

\* While one process lives the session of the conversation never changes:
\* nobody replaces a session that was created or loaded (prompt.go:57).
SessionStable == [][sid # 0 /\ restarts' = restarts /\ ~overlapped => sid' = sid]_vars

\* The conversation's session: it exists, it stays, and a restart finds it.
SessionKept == [](FileIsCurrent /\ SessionExists) /\ SessionStable

\* A started prompt's goroutine comes to its end, unless the process does.
PromptsEnd == \A p \in Prompts : (pc[p] = "identity") ~> (pc[p] \in {"over", "lost"} \/ run = "exited")

---------------------------------------------------------------------------
(* Statements of the comments that do not hold (README, section 5). *)

\* command.go:68: a stop "cancels the in-flight prompt": where one prompt is in
\* flight it is cancelled or the one a stop would cancel.
LonePromptCancellable ==
    run = "loop" => \A p \in Prompts : InFlight = {p} => CtxDone(p) \/ cancelF = p

\* As prompt.go:9-16 has it, every prompt gets a terminal completion: none is
\* left without one when the process exits.
CompletedByExit == run = "exited" => \A p \in Prompts : Started(p) => done[p] # <<>>
=============================================================================
