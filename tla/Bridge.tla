------------------------------- MODULE Bridge -------------------------------
(***************************************************************************)
(* Prompts and the events that answer them, in one bridge: PromptLifecycle *)
(* (Run, the commands, each prompt's goroutine) over AtLeastOnce, which    *)
(* EventDelivery implements.  They share rootCtx; what a prompt's          *)
(* goroutine emits is handed to sendEvent in the same step; the death of   *)
(* the process takes the buffer and the pending acks with it.              *)
(*                                                                         *)
(* The control plane is the one the code speaks of when it says "the       *)
(* in-flight prompt" (command.go:68): it sends a prompt once it has read   *)
(* the completion of the one before, or knows that the bridge has died.    *)
(***************************************************************************)
EXTENDS PromptLifecycle

VARIABLES accepted, delivered, dropped \* of AtLeastOnce

Completion(p, o) == [type |-> "execution_complete", prompt |-> p, outcome |-> o]
CompletionsOf(p) == {Completion(p, o) : o \in {"success", "failed", "cancelled"}}
ErrorEvent(p) == [type |-> "error", prompt |-> p, outcome |-> ""]

Events == INSTANCE AtLeastOnce WITH
    Event   <- UNION {CompletionsOf(p) \cup {ErrorEvent(p)} : p \in Prompts},
    stopped <- rootDone

eventVars == <<accepted, delivered, dropped>>
bridgeVars == <<vars, eventVars>>

---------------------------------------------------------------------------
(* The prompt's goroutine sends what it emits. *)

\* The critical events of a step of p.
Emitted(p) ==
    {c \in CompletionsOf(p) : done'[p] = Append(done[p], c.outcome)}
      \cup {ErrorEvent(q) : q \in failed' \ failed}

Send(p) ==
    IF Emitted(p) = {} THEN UNCHANGED eventVars
                       ELSE Events!Offer /\ accepted' = accepted \cup Emitted(p)

PromptSends(p) == (PromptStep(p) \/ Emit(p)) /\ Send(p)

\* Any other event may cost a critical one its place in a full buffer.
Displace == Events!Offer /\ accepted' = accepted /\ dropped' # dropped /\ UNCHANGED vars

Deliver == (\E e \in accepted : Events!Deliver(e) /\ e \notin delivered) /\ UNCHANGED vars

---------------------------------------------------------------------------
(* The control plane, and Run. *)

Answered(p) == CompletionsOf(p) \cap delivered # {}

\* It waits for the answer; one that was displaced never comes.
SendPrompt(p) ==
    /\ \A q \in Prompts : pc[q] \in {"new", "lost"} \/ Answered(q)
    /\ StartPrompt(p)
    /\ UNCHANGED eventVars

RunStep ==
    /\ HandleStop \/ HandleShutdown \/ Terminate \/ LeaveLoop \/ Exit
    /\ UNCHANGED eventVars

\* What was only in memory may be lost, what was on the wire arrives.
RestartBridge ==
    /\ Restart
    /\ \E lost \in SUBSET (accepted \ (delivered \cup dropped)) : dropped' = dropped \cup lost
    /\ UNCHANGED <<accepted, delivered>>

BridgeInit == Init /\ accepted = {} /\ delivered = {} /\ dropped = {}

BridgeNext ==
    \/ \E p \in Prompts : SendPrompt(p) \/ PromptSends(p)
    \/ RunStep \/ RestartBridge
    \/ Displace \/ Deliver

\* The fairness of the two parts.
BridgeSpec ==
    /\ BridgeInit /\ [][BridgeNext]_bridgeVars
    /\ WF_bridgeVars(LeaveLoop /\ UNCHANGED eventVars) /\ WF_bridgeVars(Exit /\ UNCHANGED eventVars)
    /\ \A p \in Prompts : WF_bridgeVars(PromptStep(p) /\ Send(p))
    /\ WF_bridgeVars(~rootDone /\ Deliver)

---------------------------------------------------------------------------
(* Properties. *)

\* To a control plane that waits a stop always reaches the one prompt that is
\* in flight, although the previous one's goroutine may still be at its end,
\* since the completion is sent before the cancel function is cleared
\* (command.go:47-64).
StopReachesIt == LonePromptCancellable /\ \A p, q \in InFlight : p = q

\* What the control plane reads of a prompt is one answer, and what happened;
\* never a success next to an error (prompt.go:77-124).
AnswersAreTrue ==
    \A p \in Prompts :
        /\ \A c \in CompletionsOf(p) \cap delivered : done[p] = <<c.outcome>>
        /\ ErrorEvent(p) \in delivered => Completion(p, "success") \notin accepted

\* And every prompt is answered, whatever happens to its stream and to the
\* connections, unless the answer is evicted or the bridge is shut down or dies
\* (prompt.go:9-16).
AnswersArrive ==
    \A p \in Prompts :
        (pc[p] = "identity") ~> \/ Answered(p)
                                \/ CompletionsOf(p) \cap dropped # {}
                                \/ rootDone \/ pc[p] = "lost"

\* Both: the bridge keeps its word to such a control plane.
PromptsAreAnswered == [](StopReachesIt /\ AnswersAreTrue) /\ AnswersArrive
=============================================================================
