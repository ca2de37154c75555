----------------------------- MODULE StreamParts -----------------------------
(***************************************************************************)
(* What a prompt's stream is made of: the stream itself (PromptStream),    *)
(* the output of child sessions in it (ChildActivity) and the ids of its   *)
(* messages (Identifiers).  The three share no state; here they stand side *)
(* by side, with what each promises.                                       *)
(***************************************************************************)
EXTENDS PromptStream

CONSTANTS
    \* of ChildActivity
    Children, Tasks, ChildMessages, None, Workloads, MaxParts, MaxPending, MaxChildHeld,
    \* of Identifiers
    Callers, CounterSize, Range48, StepsBack, StartTimes, MaxTicks, MaxIds

VARIABLES
    children, childEnded, work, current, finished, childSent, truth, accepted, arrived, errors,
    clock, ticks, lastTimestamp, counter, taken, minted

C == INSTANCE ChildActivity WITH
        Messages <- ChildMessages, MaxHeld <- MaxChildHeld,
        s <- children, ended <- childEnded, sent <- childSent
I == INSTANCE Identifiers WITH held <- taken

childVars == <<children, childEnded, work, current, finished, childSent, truth, accepted, arrived, errors>>
idVars == <<clock, ticks, lastTimestamp, counter, taken, minted>>

\* What a child session says comes out whole, once and in order; and under the
\* Task call it belongs to: see ChildActivity (childactivity.go).
ChildrenWhole == C!ChildrenWhole
ChildrenOwned == C!ChildrenOwned

\* Ids increase within a rollover window: see Identifiers (identifier.go:35-37).
IncreasingInWindow == I!IncreasingInWindow
=============================================================================
