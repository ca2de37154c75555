---------------------------- MODULE AtLeastOnce ----------------------------
(***************************************************************************)
(* What the event path promises its callers about critical events, with    *)
(* no connection, buffer or ack in sight: an accepted event is delivered,  *)
(* perhaps more than once, unless it is dropped before it was ever         *)
(* delivered; each new event costs at most one old one its place.          *)
(* Delivery is promised until the process is told to stop.                 *)
(***************************************************************************)
CONSTANT Event

VARIABLES
    accepted,  \* events the callers handed over
    delivered, \* events the other side has
    dropped,   \* events given up
    stopped    \* the process is shutting down

vars == <<accepted, delivered, dropped, stopped>>

Init ==
    /\ accepted = {} /\ delivered = {} /\ dropped = {}
    /\ stopped = FALSE

\* A caller hands over an event, and an undelivered one may lose its place.
\* A caller whose event is of no interest here may still displace one that is.
Offer ==
    /\ \/ accepted' = accepted
       \/ \E e \in Event \ accepted : accepted' = accepted \cup {e}
    /\ \/ dropped' = dropped
       \/ \E d \in accepted \ (delivered \cup dropped) : dropped' = dropped \cup {d}
    /\ UNCHANGED <<delivered, stopped>>

Deliver(e) ==
    /\ e \in accepted \ dropped
    /\ delivered' = delivered \cup {e}
    /\ UNCHANGED <<accepted, dropped, stopped>>

Stop ==
    /\ stopped' = TRUE
    /\ UNCHANGED <<accepted, delivered, dropped>>

Next == Offer \/ (\E e \in Event : Deliver(e)) \/ Stop

Safety == Init /\ [][Next]_vars

Spec == Safety /\ \A e \in Event : WF_vars(~stopped /\ Deliver(e))
=============================================================================
