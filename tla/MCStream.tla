------------------------------ MODULE MCStream ------------------------------
(***************************************************************************)
(* An instance of StreamParts for TLC.  Its three parts share no state, so *)
(* a behaviour here is one of one of them, chosen first.                   *)
(***************************************************************************)
EXTENDS StreamParts

CONSTANTS
    reply, summary, old,     \* messages of the parent session
    c1, c2, t1, t2, m1, m2   \* child sessions, Task calls, messages of children

VARIABLE part

---------------------------------------------------------------------------
(* The parent session. *)

\* The reply answers the id OpenCode made for the prompt; an earlier turn's
\* message, of the very millisecond the prompt began, is the session's history.
Session == reply :> "regenerated" @@ summary :> "regenerated" @@ old :> "prior"
Whole == {{reply, summary, old}}
Times == reply :> 2 @@ summary :> 2 @@ old :> 1
Chunks == reply :> 2 @@ summary :> 1 @@ old :> 1

---------------------------------------------------------------------------
(* Child sessions. *)

\* Two Task calls, each with a child session and a message of its own; or the
\* second resumes the child session of the first, which sends both messages.
Own == [task |-> t1 :> c1 @@ t2 :> c2, message |-> m1 :> c1 @@ m2 :> c2]
Resumed == [task |-> t1 :> c1 @@ t2 :> c1, message |-> m1 :> c1 @@ m2 :> c1]
ChildWork == {Own, Resumed}

---------------------------------------------------------------------------
(* Ids: three bits of counter and two of time, so that both run out. *)

Clocks == 1..3

---------------------------------------------------------------------------
ASSUME ChildConstants == C!ConstantsOK
ASSUME IdConstants == I!ConstantsOK

PartsInit ==
    /\ Init /\ C!Init /\ I!Init
    /\ part \in {"stream", "children", "ids"}
    /\ part # "children" => work = Own
    /\ part # "ids" => clock = 1

PartsNext ==
    /\ UNCHANGED part
    /\ \/ part = "stream" /\ Next /\ UNCHANGED <<childVars, idVars>>
       \/ part = "children" /\ C!Next /\ UNCHANGED <<vars, idVars>>
       \/ part = "ids" /\ I!Next /\ UNCHANGED <<vars, childVars>>

\* The fairness of the stream, for its own behaviours.
Fairness ==
    /\ WF_vars(part = "stream" /\ Deadline)
    /\ WF_vars(part = "stream" /\ (Open \/ Post \/ FinishIdle \/ Cleanup))
    /\ WF_vars(part = "stream" /\ StreamDone /\ ReadEnds(TRUE))

PartsSpec == PartsInit /\ [][PartsNext]_<<part, vars, childVars, idVars>> /\ Fairness

---------------------------------------------------------------------------
(* Properties: those of StreamParts, and *)

\* The stream ends, whatever OpenCode does (stream.go:111-116).
StreamEnds == part = "stream" ~> pc = "done"
=============================================================================
