-------------------------- MODULE ReconnectProofs --------------------------
(***************************************************************************)
(* Proofs about the reconnect loop, for every bound on connections and     *)
(* attempts, every maximum delay and every width of a Duration.            *)
(***************************************************************************)
EXTENDS Reconnect, TLAPS

---------------------------------------------------------------------------
(* The invariant the properties rest on. *)

\* Where a connection's start is recorded, by the place of the loop.
LifeInv ==
    /\ pc \in {"open", "reading", "command"} => connectedAt = connectionCount
    /\ pc \in {"hbCancel", "closeNow", "clear", "log"} => connectedAt \in {0, connectionCount}
    /\ pc \notin Connected => connectedAt = 0
    /\ pc \in Connected => connectionCount \in Conns
    /\ \A n \in Conns : logged[n] = 1 <=> n <= connectionCount /\ connectedAt # n

\* Only the newest socket is open, and not after the deferred close.
SockInv ==
    /\ \A n \in Conns : sock[n] \in {"up", "dead"} =>
            n = connectionCount /\ pc \in {"open", "reading", "command", "hbCancel", "closeNow"}
    /\ conn # 0 => conn = connectionCount

\* Between two connections lies an attempt.
BackoffInv ==
    /\ attempts = reconnectAttemptCount
    /\ connectionCount <= attempts + 1
    /\ pc \in {"top", "wait"} => connectionCount <= attempts

\* A terminal outcome is only found on the way out.
OutcomeInv ==
    /\ outcome \in Transient => failedAt = dials
    /\ outcome \in Terminal =>
         rootDone /\ pc \in {"hbCancel", "closeNow", "clear", "log", "count", "ended"}

IInv == TypeOK /\ LifeInv /\ SockInv /\ BackoffInv /\ OutcomeInv

USE DEF countVars, hbVars, connVars, loopVars, Conns

---------------------------------------------------------------------------
\* A delay is at most the maximum.
LEMMA DelayTyped ==
    ASSUME NEW k, NEW d \in Delays(k) PROVE d \in 0..MaxDelay
BY BoundsAssumption DEF Delays, Documented

\* The types are inductive together with where connections end.
LEMMA TypeStep ==
    ASSUME TypeOK, LifeInv, [Next]_vars PROVE TypeOK'
<1> USE DEF TypeOK, Connected, Transient, Terminal, LifeInv
<1>1. CASE Loop
  <2>1. CASE rootDone
    BY <1>1, <2>1 DEF Loop
  <2>2. CASE ~rootDone /\ pc' = "open"
    BY <1>1, <2>2, BoundsAssumption DEF Loop
  <2>3. CASE ~rootDone /\ pc' = "count"
    <3>1. PICK o \in Terminal \cup {"connection_error"} : Settle(o)
      BY <1>1, <2>3 DEF Loop
    <3>2. dials' \in Nat /\ pc = "top" /\ UNCHANGED <<countVars, hbVars, connVars>>
      BY <1>1, <2>3 DEF Loop
    <3>3. /\ outcome' \in Transient \cup Terminal \cup {"shutdown"}
          /\ failedAt' \in Nat /\ rootDone' \in BOOLEAN
      BY <3>1, <3>2 DEF Settle, SettleWith
    <3>. QED
      BY <2>3, <3>2, <3>3
  <2>. QED
    BY <1>1, <2>1, <2>2, <2>3 DEF Loop
<1>2. CASE Announce
  BY <1>2 DEF Announce
<1>3. CASE Command
  BY <1>3 DEF Command
<1>4. CASE ReadError
  <2>1. logged' \in [Conns -> 0..1] /\ connectedAt' \in 0..MaxConns
    <3>1. connectionCount \in Conns /\ logged[connectionCount] # 1 /\ connectedAt = connectionCount
      BY <1>4 DEF ReadError
    <3>2. CASE Finalize(connectionCount)
      <4>1. logged[connectionCount] = 0
        BY <3>1
      <4>2. logged' = [logged EXCEPT ![connectionCount] = logged[connectionCount] + 1]
        BY <3>1, <3>2 DEF Finalize
      <4>3. connectedAt' = 0
        BY <3>2 DEF Finalize
      <4>. QED
        BY <3>1, <4>1, <4>2, <4>3, BoundsAssumption
    <3>3. CASE UNCHANGED <<connectedAt, logged>>
      BY <3>3
    <3>. QED
      BY <1>4, <3>2, <3>3 DEF ReadError
  <2>2. /\ outcome' \in Transient \cup Terminal \cup {"shutdown"}
        /\ dials' \in Nat /\ failedAt' \in Nat /\ rootDone' \in BOOLEAN
    BY <1>4 DEF ReadError, SettleRead, Settle, SettleWith
  <2>. QED
    BY <1>4, <2>1, <2>2 DEF ReadError
<1>5. CASE DeferHbCancel
  BY <1>5 DEF DeferHbCancel
<1>6. CASE DeferCloseNow
  BY <1>6 DEF DeferCloseNow, CloseWith
<1>7. CASE ClearConn
  BY <1>7, BoundsAssumption DEF ClearConn
<1>8. CASE DeferLog
  <2>1. logged' \in [Conns -> 0..1] /\ connectedAt' \in 0..MaxConns
    <3>1. connectionCount \in Conns /\ (connectedAt # 0 => logged[connectionCount] # 1)
      BY <1>8 DEF DeferLog, DeferLogWith
    <3>. QED
      BY <1>8, <3>1, BoundsAssumption DEF DeferLog, DeferLogWith, Finalize
  <2>. QED
    BY <1>8, <2>1 DEF DeferLog, DeferLogWith
<1>9. CASE Count
  BY <1>9, DelayTyped DEF Count
<1>10. CASE WaitOver
  BY <1>10 DEF WaitOver
<1>11. CASE Cancel
  BY <1>11 DEF Cancel
<1>12. ASSUME NEW n \in Conns, Tick(n) PROVE TypeOK'
  BY <1>12 DEF Tick
<1>13. ASSUME NEW n \in Conns, PingOk(n) PROVE TypeOK'
  BY <1>13 DEF PingOk
<1>14. ASSUME NEW n \in Conns, PingFails(n) PROVE TypeOK'
  BY <1>14 DEF PingFails, PingFailsWith
<1>15. ASSUME NEW n \in Conns, HeartbeatStops(n) PROVE TypeOK'
  BY <1>15 DEF HeartbeatStops
<1>16. ASSUME NEW n \in Conns, SockBreaks(n) PROVE TypeOK'
  BY <1>16 DEF SockBreaks
<1>17. CASE UNCHANGED vars
  BY <1>17 DEF vars
<1>. QED
  BY <1>1, <1>2, <1>3, <1>4, <1>5, <1>6, <1>7, <1>8, <1>9, <1>10, <1>11, <1>12, <1>13, <1>14, <1>15, <1>16, <1>17 DEF Next, RunStep, Close

\* Every step keeps the records of connections' ends.
LEMMA LifeStep ==
    ASSUME TypeOK, LifeInv, [Next]_vars PROVE LifeInv'
<1> USE DEF TypeOK, Connected, LifeInv
<1>1. CASE Loop
  BY <1>1, BoundsAssumption DEF Loop, Settle, SettleWith
<1>2. CASE Announce
  BY <1>2 DEF Announce
<1>3. CASE Command
  BY <1>3 DEF Command
<1>4. CASE ReadError
  <2>1. /\ pc = "reading" /\ pc' = "hbCancel" /\ connectionCount' = connectionCount
        /\ connectionCount \in Conns /\ connectedAt = connectionCount
        /\ \A n \in Conns : logged[n] = 1 <=> n < connectionCount
    BY <1>4 DEF ReadError
  <2>2. CASE Finalize(connectionCount)
    <3>1. connectedAt' = 0 /\ logged' = [logged EXCEPT ![connectionCount] = logged[connectionCount] + 1]
      BY <2>1, <2>2 DEF Finalize
    <3>2. logged[connectionCount] = 0
      BY <2>1
    <3>3. \A n \in Conns : logged'[n] = 1 <=> n <= connectionCount
      BY <2>1, <3>1, <3>2
    <3>. QED
      BY <2>1, <3>1, <3>3
  <2>3. CASE UNCHANGED <<connectedAt, logged>>
    BY <2>1, <2>3
  <2>. QED
    BY <1>4, <2>2, <2>3 DEF ReadError
<1>5. CASE DeferHbCancel
  BY <1>5 DEF DeferHbCancel
<1>6. CASE DeferCloseNow
  BY <1>6 DEF DeferCloseNow, CloseWith
<1>7. CASE ClearConn
  BY <1>7 DEF ClearConn
<1>8. CASE DeferLog
  <2>1. connectionCount \in Conns /\ connectedAt \in {0, connectionCount} /\ pc' = "count" /\ connectedAt' = 0
        /\ connectionCount' = connectionCount
    BY <1>8 DEF DeferLog, DeferLogWith, Finalize
  <2>2. ASSUME NEW n \in Conns PROVE logged'[n] = 1 <=> n <= connectionCount
    <3>1. CASE connectedAt = 0
      BY <1>8, <3>1 DEF DeferLog, DeferLogWith, Finalize
    <3>2. CASE connectedAt = connectionCount /\ connectedAt # 0
      <4>1. logged' = [logged EXCEPT ![connectionCount] = @ + 1] /\ logged[connectionCount] = 0
        BY <1>8, <2>1, <3>2 DEF DeferLog, DeferLogWith, Finalize
      <4>. QED
        BY <2>1, <3>2, <4>1
    <3>. QED
      BY <2>1, <3>1, <3>2
  <2>. QED
    BY <2>1, <2>2
<1>9. CASE Count
  BY <1>9 DEF Count
<1>10. CASE WaitOver
  BY <1>10 DEF WaitOver
<1>11. CASE Cancel
  BY <1>11 DEF Cancel
<1>12. ASSUME NEW n \in Conns, Tick(n) PROVE LifeInv'
  BY <1>12 DEF Tick
<1>13. ASSUME NEW n \in Conns, PingOk(n) PROVE LifeInv'
  BY <1>13 DEF PingOk
<1>14. ASSUME NEW n \in Conns, PingFails(n) PROVE LifeInv'
  BY <1>14 DEF PingFails, PingFailsWith
<1>15. ASSUME NEW n \in Conns, HeartbeatStops(n) PROVE LifeInv'
  BY <1>15 DEF HeartbeatStops
<1>16. ASSUME NEW n \in Conns, SockBreaks(n) PROVE LifeInv'
  BY <1>16 DEF SockBreaks
<1>17. CASE UNCHANGED vars
  BY <1>17 DEF vars
<1>. QED
  BY <1>1, <1>2, <1>3, <1>4, <1>5, <1>6, <1>7, <1>8, <1>9, <1>10, <1>11, <1>12, <1>13, <1>14, <1>15, <1>16, <1>17 DEF Next, RunStep, Close

\* Every step keeps at most the newest socket open.
LEMMA SockStep ==
    ASSUME TypeOK, LifeInv, SockInv, [Next]_vars PROVE SockInv'
<1> USE DEF TypeOK, Connected, LifeInv, SockInv
<1>1. CASE Loop
  BY <1>1, BoundsAssumption DEF Loop, Settle, SettleWith
<1>2. CASE Announce
  BY <1>2 DEF Announce
<1>3. CASE Command
  BY <1>3 DEF Command
<1>4. CASE ReadError
  BY <1>4 DEF ReadError, Finalize, SettleRead, Settle, SettleWith
<1>5. CASE DeferHbCancel
  BY <1>5 DEF DeferHbCancel
<1>6. CASE DeferCloseNow
  BY <1>6 DEF DeferCloseNow, CloseWith
<1>7. CASE ClearConn
  BY <1>7 DEF ClearConn
<1>8. CASE DeferLog
  BY <1>8 DEF DeferLog, DeferLogWith, Finalize
<1>9. CASE Count
  BY <1>9 DEF Count
<1>10. CASE WaitOver
  BY <1>10 DEF WaitOver
<1>11. CASE Cancel
  BY <1>11 DEF Cancel
<1>12. ASSUME NEW n \in Conns, Tick(n) PROVE SockInv'
  BY <1>12 DEF Tick
<1>13. ASSUME NEW n \in Conns, PingOk(n) PROVE SockInv'
  BY <1>13 DEF PingOk
<1>14. ASSUME NEW n \in Conns, PingFails(n) PROVE SockInv'
  BY <1>14 DEF PingFails, PingFailsWith
<1>15. ASSUME NEW n \in Conns, HeartbeatStops(n) PROVE SockInv'
  BY <1>15 DEF HeartbeatStops
<1>16. ASSUME NEW n \in Conns, SockBreaks(n) PROVE SockInv'
  BY <1>16 DEF SockBreaks
<1>17. CASE UNCHANGED vars
  BY <1>17 DEF vars
<1>. QED
  BY <1>1, <1>2, <1>3, <1>4, <1>5, <1>6, <1>7, <1>8, <1>9, <1>10, <1>11, <1>12, <1>13, <1>14, <1>15, <1>16, <1>17 DEF Next, RunStep, Close

\* Every step keeps the attempts ahead of the connections.
LEMMA BackoffStep ==
    ASSUME TypeOK, BackoffInv, [Next]_vars PROVE BackoffInv'
<1> USE DEF TypeOK, Connected, BackoffInv
<1>1. CASE Loop
  BY <1>1, BoundsAssumption DEF Loop, Settle, SettleWith
<1>2. CASE Announce
  BY <1>2 DEF Announce
<1>3. CASE Command
  BY <1>3 DEF Command
<1>4. CASE ReadError
  BY <1>4 DEF ReadError, Finalize, SettleRead, Settle, SettleWith
<1>5. CASE DeferHbCancel
  BY <1>5 DEF DeferHbCancel
<1>6. CASE DeferCloseNow
  BY <1>6 DEF DeferCloseNow, CloseWith
<1>7. CASE ClearConn
  BY <1>7 DEF ClearConn
<1>8. CASE DeferLog
  BY <1>8 DEF DeferLog, DeferLogWith, Finalize
<1>9. CASE Count
  BY <1>9 DEF Count
<1>10. CASE WaitOver
  BY <1>10 DEF WaitOver
<1>11. CASE Cancel
  BY <1>11 DEF Cancel
<1>12. ASSUME NEW n \in Conns, Tick(n) PROVE BackoffInv'
  BY <1>12 DEF Tick
<1>13. ASSUME NEW n \in Conns, PingOk(n) PROVE BackoffInv'
  BY <1>13 DEF PingOk
<1>14. ASSUME NEW n \in Conns, PingFails(n) PROVE BackoffInv'
  BY <1>14 DEF PingFails, PingFailsWith
<1>15. ASSUME NEW n \in Conns, HeartbeatStops(n) PROVE BackoffInv'
  BY <1>15 DEF HeartbeatStops
<1>16. ASSUME NEW n \in Conns, SockBreaks(n) PROVE BackoffInv'
  BY <1>16 DEF SockBreaks
<1>17. CASE UNCHANGED vars
  BY <1>17 DEF vars
<1>. QED
  BY <1>1, <1>2, <1>3, <1>4, <1>5, <1>6, <1>7, <1>8, <1>9, <1>10, <1>11, <1>12, <1>13, <1>14, <1>15, <1>16, <1>17 DEF Next, RunStep, Close

\* Every step keeps the outcome that of the present iteration.
LEMMA OutcomeStep ==
    ASSUME TypeOK, OutcomeInv, [Next]_vars PROVE OutcomeInv'
<1> USE DEF TypeOK, Connected, Transient, Terminal, OutcomeInv
<1>1. CASE Loop
  BY <1>1 DEF Loop, Settle, SettleWith
<1>2. CASE Announce
  BY <1>2 DEF Announce
<1>3. CASE Command
  BY <1>3 DEF Command
<1>4. CASE ReadError
  BY <1>4 DEF ReadError, Finalize, SettleRead, Settle, SettleWith
<1>5. CASE DeferHbCancel
  BY <1>5 DEF DeferHbCancel
<1>6. CASE DeferCloseNow
  BY <1>6 DEF DeferCloseNow, CloseWith
<1>7. CASE ClearConn
  BY <1>7 DEF ClearConn
<1>8. CASE DeferLog
  BY <1>8 DEF DeferLog, DeferLogWith, Finalize
<1>9. CASE Count
  BY <1>9 DEF Count
<1>10. CASE WaitOver
  BY <1>10 DEF WaitOver
<1>11. CASE Cancel
  BY <1>11 DEF Cancel
<1>12. ASSUME NEW n \in Conns, Tick(n) PROVE OutcomeInv'
  BY <1>12 DEF Tick
<1>13. ASSUME NEW n \in Conns, PingOk(n) PROVE OutcomeInv'
  BY <1>13 DEF PingOk
<1>14. ASSUME NEW n \in Conns, PingFails(n) PROVE OutcomeInv'
  BY <1>14 DEF PingFails, PingFailsWith
<1>15. ASSUME NEW n \in Conns, HeartbeatStops(n) PROVE OutcomeInv'
  BY <1>15 DEF HeartbeatStops
<1>16. ASSUME NEW n \in Conns, SockBreaks(n) PROVE OutcomeInv'
  BY <1>16 DEF SockBreaks
<1>17. CASE UNCHANGED vars
  BY <1>17 DEF vars
<1>. QED
  BY <1>1, <1>2, <1>3, <1>4, <1>5, <1>6, <1>7, <1>8, <1>9, <1>10, <1>11, <1>12, <1>13, <1>14, <1>15, <1>16, <1>17 DEF Next, RunStep, Close

\* It holds at the start.
LEMMA InvInit == Init => IInv
<1> SUFFICES ASSUME Init PROVE IInv
  OBVIOUS
<1> USE BoundsAssumption DEF Init, Connected, Transient, Terminal
<1>1. TypeOK
  <2>1. /\ pc \in Connected \cup {"top", "count", "wait", "ended"} /\ rootDone \in BOOLEAN
        /\ outcome \in Transient \cup Terminal \cup {"shutdown"} /\ hbDone \subseteq Conns
    OBVIOUS
  <2>2. /\ conn \in 0..MaxConns /\ connectedAt \in 0..MaxConns /\ connectionCount \in 0..MaxConns
        /\ attempts \in Nat /\ reconnectAttemptCount \in Nat /\ dials \in Nat /\ failedAt \in Nat
        /\ delay \in 0..MaxDelay
    OBVIOUS
  <2>3. /\ sock \in [Conns -> {"none", "up", "dead", "closed"}] /\ logged \in [Conns -> 0..1]
        /\ hb \in [Conns -> {"none", "idle", "ping", "ended"}]
    OBVIOUS
  <2>4. target \in [Conns -> 0..MaxConns]
    OBVIOUS
  <2>. QED
    BY <2>1, <2>2, <2>3, <2>4 DEF TypeOK
<1>2. LifeInv /\ SockInv
  BY DEF LifeInv, SockInv
<1>3. BackoffInv /\ OutcomeInv
  BY DEF BackoffInv, OutcomeInv
<1>. QED
  BY <1>1, <1>2, <1>3 DEF IInv

---------------------------------------------------------------------------
(* What follows. *)

\* The invariant holds throughout.
THEOREM InvCorrect == Spec => []IInv
<1>1. IInv /\ [Next]_vars => IInv'
  BY TypeStep, LifeStep, SockStep, BackoffStep, OutcomeStep DEF IInv
<1>. QED
  BY InvInit, <1>1, PTL DEF Spec

\* Every variable keeps its type: in particular no connection's end is logged
\* twice (bridge.go:295-325).
THEOREM TypeCorrect == Spec => []TypeOK
<1>1. IInv => TypeOK
  BY DEF IInv
<1>. QED
  BY InvCorrect, <1>1, PTL

\* Each connection's end is logged exactly once, by the read loop or by the
\* deferred backstop, whatever ended it (bridge.go:295-325, conn.go:41-50).
THEOREM EachConnectionFinalizedOnce == Spec => []FinalizedOnce
<1>1. IInv => FinalizedOnce
  BY DEF IInv, LifeInv, FinalizedOnce
<1>. QED
  BY InvCorrect, <1>1, PTL

\* A reconnect never leaves an older socket open, and b.conn never names one
\* (conn.go:39-52).
THEOREM AtMostOneSocket == Spec => []OneSocket
<1>1. IInv => OneSocket
  BY DEF IInv, SockInv, OneSocket, Connected
<1>. QED
  BY InvCorrect, <1>1, PTL

\* A transient failure in the summary is that of the last iteration
\* (bridge.go:161-163).
THEOREM OutcomeCurrent == Spec => []OutcomeIsCurrent
<1>1. IInv => OutcomeIsCurrent
  BY DEF IInv, OutcomeInv, OutcomeIsCurrent
<1>. QED
  BY InvCorrect, <1>1, PTL

\* The backoff's attempt number counts every attempt of the run, however many
\* succeeded (bridge.go:179-183, 206).
THEOREM BackoffCumulative == Spec => []BackoffIsCumulative
<1>1. IInv => BackoffIsCumulative
  BY DEF IInv, BackoffInv, BackoffIsCumulative
<1>. QED
  BY InvCorrect, <1>1, PTL

\* After a terminal answer nothing is dialled and the outcome stands
\* (bridge.go:184-190).
THEOREM TerminalStands == Spec => TerminalIsFinal
<1>1. IInv /\ [Next]_vars => (outcome \in Terminal => (dials' = dials /\ outcome' = outcome))
  <2> SUFFICES ASSUME OutcomeInv, [Next]_vars, outcome \in Terminal
               PROVE  dials' = dials /\ outcome' = outcome
    BY DEF IInv
  <2> USE DEF OutcomeInv
  <2>1. ~Loop /\ ~ReadError
    BY DEF Loop, ReadError
  <2>2. CASE UNCHANGED vars
    BY <2>2 DEF vars
  <2>3. CASE Next
    BY <2>1, <2>3 DEF Next, RunStep, Close, Announce, Command, DeferHbCancel, DeferCloseNow,
       CloseWith, ClearConn, DeferLog, DeferLogWith, Count, WaitOver, Cancel, Tick, PingOk,
       PingFails, PingFailsWith, HeartbeatStops, SockBreaks
  <2>. QED
    BY <2>2, <2>3
<1>. QED
  BY InvCorrect, <1>1, PTL DEF Spec, TerminalIsFinal

\* What the summary of a run says of it is true (bridge.go:154-222).
THEOREM SummaryTrue == Spec => SummaryIsTrue
<1>1. Spec => [](FinalizedOnce /\ OutcomeIsCurrent /\ BackoffIsCumulative)
  BY EachConnectionFinalizedOnce, OutcomeCurrent, BackoffCumulative, PTL
<1>. QED
  BY <1>1, TerminalStands DEF SummaryIsTrue
=============================================================================
