-------------------------- MODULE MCEventDelivery --------------------------
(* Instances of EventDelivery for TLC. *)
EXTENDS EventDelivery

Token(m, k)    == [type |-> "token", messageId |-> m, n |-> k]
Complete(m)    == [type |-> "execution_complete", messageId |-> m, n |-> 0]
ErrorOf(m, k)  == [type |-> "error", messageId |-> m, n |-> k]
Snapshot(k)    == [type |-> "snapshot_ready", messageId |-> NoMessage, n |-> k]
Warning(k)     == [type |-> "warning", messageId |-> NoMessage, n |-> k]

OneWarning == <<Warning(1)>>
NoWarnings == <<>>

\* Three critical events with distinct ids, one of them of a command handled in
\* the read loop, for a buffer of two; the ready event of a connection that broke
\* at once is the non-critical entry.
CriticalLoad == {Complete("m1"), ErrorOf("m2", 1), Snapshot(1)}

\* One prompt that streams a token and completes.
OnePrompt == {Token("m1", 1), Complete("m1")}

\* Two error events of one prompt: makeAckID gives both "error:m1".
TwoErrors == {ErrorOf("m1", 1), ErrorOf("m1", 2)}
=============================================================================
