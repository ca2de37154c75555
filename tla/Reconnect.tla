----------------------------- MODULE Reconnect -----------------------------
(***************************************************************************)
(* Run's reconnect loop (internal/bridge/bridge.go), the life of one       *)
(* connection as the loop sees it (conn.go) and the heartbeat goroutine of *)
(* each connection (heartbeat.go).                                         *)
(*                                                                         *)
(* Connections are numbered from 1.  pc is the place of the goroutine of   *)
(* Run, hb[n] that of connection n's heartbeat.  A socket is "up"; "dead"  *)
(* when the peer is gone without a word, so that a read blocks and a ping  *)
(* times out; or "closed".  Events and their buffers are EventDelivery's.  *)
(***************************************************************************)
EXTENDS Naturals, FiniteSets

CONSTANTS
    MaxConns,    \* bound: connections
    MaxAttempts, \* bound: reconnect attempts
    MaxDelay,    \* reconnectMaxDelay, in seconds
    OverflowAt   \* the first attempt whose 2^attempt seconds do not fit a Duration

ASSUME BoundsAssumption ==
    MaxConns \in Nat /\ MaxAttempts \in Nat /\ MaxDelay \in Nat /\ OverflowAt \in Nat

Conns == 1..MaxConns

VARIABLES
    pc,         \* Run: "top", "open" (connected, not yet reading), "reading",
                \* "command", the deferred steps, "count", "wait", "ended"
    rootDone,
    conn,       \* b.conn, 0 for nil
    sock,       \* each connection's socket
    connectedAt,\* the connection whose start is recorded, 0 for none
    connectionCount, reconnectAttemptCount, attempts, delay,
    outcome,    \* runOutcome
    hb, target, \* each heartbeat goroutine, and the connection it is pinging
    hbDone,     \* heartbeats whose context is cancelled
    \* history
    logged,     \* disconnect lines of each connection
    dials, failedAt, \* iterations of the loop, and the last one that failed
    kills       \* <<heartbeat, connection, state of its socket>> of every close by a heartbeat

countVars == <<reconnectAttemptCount, attempts, delay>>
hbVars == <<hb, target, hbDone, kills>>
connVars == <<conn, sock, connectedAt, connectionCount, logged>>
loopVars == <<outcome, dials, failedAt>>
vars == <<pc, rootDone, countVars, hbVars, connVars, loopVars>>

---------------------------------------------------------------------------
(* The loop. *)

Transient == {"connection_closed", "connection_error"}
Terminal == {"session_terminated", "fatal_error"}

\* The switch on connectAndRun's error; a terminal one cancels the context.
SettleWith(o, cancels) ==
    /\ outcome' = o
    /\ failedAt' = IF o \in Transient THEN dials' ELSE failedAt
    /\ rootDone' = (rootDone \/ cancels)

Settle_NoCancel(o) == SettleWith(o, FALSE)
Settle(o) == SettleWith(o, o \in Terminal)

\* Each iteration begins by forgetting the outcome of the one before; with the
\* context done the loop is left.
Loop ==
    /\ pc = "top"
    /\ dials' = IF rootDone THEN dials ELSE dials + 1
    /\ \/ rootDone /\ pc' = "ended" /\ UNCHANGED <<outcome, connVars, failedAt, rootDone>>
       \/ \* the dial is accepted: setConn, markConnected
          /\ ~rootDone /\ connectionCount < MaxConns
          /\ pc' = "open"
          /\ conn' = connectionCount + 1
          /\ sock' = [sock EXCEPT ![conn'] = "up"]
          /\ connectedAt' = conn'
          /\ connectionCount' = connectionCount + 1
          /\ outcome' = "shutdown"
          /\ UNCHANGED <<logged, failedAt, rootDone>>
       \/ \* it fails: 401, 403, 404 and 410 are terminal
          /\ ~rootDone
          /\ pc' = "count"
          /\ \E o \in Terminal \cup {"connection_error"} : Settle(o)
          /\ UNCHANGED connVars
    /\ UNCHANGED <<countVars, hbVars>>

\* ready, boot warnings and both flushes are done; the heartbeat starts.
Announce ==
    /\ pc = "open"
    /\ pc' = "reading"
    /\ hb' = [hb EXCEPT ![connectionCount] = "idle"]
    /\ UNCHANGED <<rootDone, countVars, target, hbDone, kills, connVars, loopVars>>

\* Commands but the prompt run inline: nothing is read meanwhile.
Command ==
    /\ \/ pc = "reading" /\ ~rootDone /\ sock[connectionCount] = "up"
       \/ pc = "command"
    /\ pc' = IF pc = "reading" THEN "command" ELSE "reading"
    /\ UNCHANGED <<rootDone, countVars, hbVars, connVars, loopVars>>

Finalize(n) ==
    /\ logged' = IF connectedAt = 0 THEN logged ELSE [logged EXCEPT ![n] = @ + 1]
    /\ connectedAt' = 0

\* An error of a connection, unless the bridge is shutting down.
SettleRead(o) == IF rootDone THEN UNCHANGED <<outcome, failedAt, rootDone>> ELSE Settle(o)

\* The read fails; a close frame is logged at once with its code, and its reason
\* may be one that isFatalConnectionError finds a status in.
ReadError ==
    /\ pc = "reading"
    /\ sock[connectionCount] = "closed" \/ rootDone
    /\ pc' = "hbCancel" /\ dials' = dials
    /\ \/ Finalize(connectionCount) /\ (SettleRead("connection_closed") \/ Settle("fatal_error"))
       \/ UNCHANGED <<connectedAt, logged>> /\ SettleRead("connection_error")
    /\ UNCHANGED <<conn, sock, connectionCount, countVars, hbVars>>

\* connectAndRun's deferred calls, last registered first.
DeferHbCancel ==
    /\ pc = "hbCancel"
    /\ pc' = "closeNow"
    /\ hbDone' = hbDone \cup {connectionCount}
    /\ UNCHANGED <<rootDone, countVars, hb, target, kills, connVars, loopVars>>

CloseWith(s) ==
    /\ pc = "closeNow"
    /\ pc' = "clear"
    /\ sock' = [sock EXCEPT ![connectionCount] = s]
    /\ UNCHANGED <<rootDone, countVars, hbVars, conn, connectedAt, connectionCount, logged, loopVars>>

DeferCloseNow_Leave == CloseWith(sock[connectionCount])
DeferCloseNow == CloseWith("closed")

ClearConn ==
    /\ pc = "clear"
    /\ pc' = "log"
    /\ conn' = 0
    /\ UNCHANGED <<rootDone, countVars, hbVars, sock, connectedAt, connectionCount, logged, loopVars>>

DeferLogWith(finalize) ==
    /\ pc = "log"
    /\ pc' = "count"
    /\ finalize
    /\ UNCHANGED <<rootDone, countVars, hbVars, conn, sock, connectionCount, loopVars>>

DeferLog_Unconditional ==
    DeferLogWith(logged' = [logged EXCEPT ![connectionCount] = @ + 1] /\ connectedAt' = 0)
DeferLog == DeferLogWith(Finalize(connectionCount))

\* min(base^attempt, max), within TLC's 32-bit integers; past OverflowAt the conversion to a Duration is up to
\* the platform: the largest value, or a negative one, for which the timer fires at once.
Documented(n) == IF n < 31 /\ 2 ^ n \in 0..MaxDelay THEN 2 ^ n ELSE MaxDelay
Delays(n) == IF n < OverflowAt THEN {Documented(n)} ELSE {MaxDelay, 0}

\* connectAndRun never returns nil, so nothing ever resets attempts.
Count ==
    /\ pc = "count"
    /\ IF rootDone
       THEN pc' = "ended" /\ UNCHANGED countVars
       ELSE /\ attempts < MaxAttempts
            /\ pc' = "wait"
            /\ attempts' = attempts + 1
            /\ reconnectAttemptCount' = reconnectAttemptCount + 1
            /\ delay' \in Delays(attempts')
    /\ UNCHANGED <<rootDone, hbVars, connVars, loopVars>>

WaitOver ==
    /\ pc = "wait"
    /\ pc' = "top"
    /\ UNCHANGED <<rootDone, countVars, hbVars, connVars, loopVars>>

Cancel ==
    /\ ~rootDone
    /\ rootDone' = TRUE
    /\ UNCHANGED <<pc, countVars, hbVars, connVars, loopVars>>

---------------------------------------------------------------------------
(* The heartbeat of connection n. *)

\* The select may take the ticker although the context is done; the socket it
\* pings is whatever b.conn is by then.
Tick(n) ==
    /\ hb[n] = "idle"
    /\ conn # 0
    /\ hb' = [hb EXCEPT ![n] = "ping"]
    /\ target' = [target EXCEPT ![n] = conn]
    /\ UNCHANGED <<pc, rootDone, countVars, hbDone, kills, connVars, loopVars>>

\* A pong is read by the read loop only, so a ping cannot succeed while a
\* command runs.
PingOk(n) ==
    /\ hb[n] = "ping"
    /\ n \notin hbDone /\ ~rootDone
    /\ sock[target[n]] = "up" /\ pc = "reading"
    /\ hb' = [hb EXCEPT ![n] = "idle"]
    /\ UNCHANGED <<pc, rootDone, countVars, target, hbDone, kills, connVars, loopVars>>

PingFailsWith(n, s) ==
    /\ hb[n] = "ping"
    /\ n \in hbDone \/ rootDone \/ sock[target[n]] # "up" \/ pc # "reading"
    /\ hb' = [hb EXCEPT ![n] = "ended"]
    /\ sock' = [sock EXCEPT ![target[n]] = s]
    /\ kills' = kills \cup {<<n, target[n], sock[target[n]]>>}
    /\ UNCHANGED <<pc, rootDone, countVars, target, hbDone, conn, connectedAt, connectionCount, logged, loopVars>>

PingFails_NoClose(n) == PingFailsWith(n, sock[target[n]])
PingFails(n) == PingFailsWith(n, "closed")

HeartbeatStops(n) ==
    /\ hb[n] = "idle"
    /\ n \in hbDone \/ rootDone
    /\ hb' = [hb EXCEPT ![n] = "ended"]
    /\ UNCHANGED <<pc, rootDone, countVars, target, hbDone, kills, connVars, loopVars>>

---------------------------------------------------------------------------
(* The network and the peer. *)

SockBreaks(n) ==
    /\ sock[n] = "up"
    /\ \E s \in {"dead", "closed"} : sock' = [sock EXCEPT ![n] = s]
    /\ UNCHANGED <<pc, rootDone, countVars, hbVars, conn, connectedAt, connectionCount, logged, loopVars>>

Init ==
    /\ pc = "top" /\ rootDone = FALSE /\ conn = 0 /\ connectedAt = 0
    /\ sock = [n \in Conns |-> "none"] /\ logged = [n \in Conns |-> 0]
    /\ connectionCount = 0 /\ reconnectAttemptCount = 0 /\ attempts = 0 /\ delay = 0
    /\ outcome = "shutdown" /\ dials = 0 /\ failedAt = 0
    /\ hb = [n \in Conns |-> "none"] /\ target = [n \in Conns |-> 0]
    /\ hbDone = {} /\ kills = {}

Close == ReadError \/ DeferHbCancel \/ DeferCloseNow \/ ClearConn \/ DeferLog
RunStep == Loop \/ Announce \/ Close \/ Count \/ WaitOver

Next ==
    \/ RunStep \/ Command \/ Cancel
    \/ \E n \in Conns : Tick(n) \/ PingOk(n) \/ PingFails(n) \/ HeartbeatStops(n) \/ SockBreaks(n)

Spec == Init /\ [][Next]_vars

\* Run's goroutine is scheduled, an inline command is bounded by its timeouts,
\* the ticker ticks and a ping is answered or times out.
FairSpec ==
    /\ Spec
    /\ WF_vars(RunStep) /\ WF_vars(pc = "command" /\ Command)
    /\ \A n \in Conns : WF_vars(Tick(n)) /\ WF_vars(PingOk(n) \/ PingFails(n)) /\ WF_vars(HeartbeatStops(n))

---------------------------------------------------------------------------
(* Properties. *)

Connected == {"open", "reading", "command", "hbCancel", "closeNow", "clear", "log"}

\* Every variable keeps its type; no connection is finalized twice.
TypeOK ==
    /\ pc \in Connected \cup {"top", "count", "wait", "ended"}
    /\ rootDone \in BOOLEAN
    /\ conn \in 0..MaxConns /\ connectedAt \in 0..MaxConns /\ connectionCount \in 0..MaxConns
    /\ sock \in [Conns -> {"none", "up", "dead", "closed"}]
    /\ logged \in [Conns -> 0..1]
    /\ hb \in [Conns -> {"none", "idle", "ping", "ended"}] /\ target \in [Conns -> 0..MaxConns]
    /\ outcome \in Transient \cup Terminal \cup {"shutdown"}
    /\ attempts \in Nat /\ reconnectAttemptCount \in Nat /\ dials \in Nat /\ failedAt \in Nat
    /\ delay \in 0..MaxDelay
    /\ hbDone \subseteq Conns

\* Each connection's end is logged, and its duration counted, exactly once,
\* by the read loop or by the backstop (bridge.go:295-325, conn.go:41-50).
FinalizedOnce ==
    /\ \A n \in Conns : logged[n] = 1 <=> n <= connectionCount /\ connectedAt # n
    /\ pc \notin Connected => connectedAt = 0

\* Only one socket is ever open, it is the newest, and b.conn never names an
\* older one (conn.go:39-52).
OneSocket ==
    /\ \A n \in Conns : sock[n] \in {"up", "dead"} => n = connectionCount /\ pc \in Connected
    /\ conn # 0 => conn = connectionCount

\* A terminal answer ends the run: nothing is dialled after it (bridge.go:184-190).
TerminalIsFinal == [][(outcome \in Terminal) => (dials' = dials /\ outcome' = outcome)]_vars

\* A failure that a later connection recovered from does not survive into the
\* summary (bridge.go:161-163).
OutcomeIsCurrent == outcome \in Transient => failedAt = dials

\* What a long session's backoff is made of: the attempt number never goes back,
\* however many connections succeeded (bridge.go:179-183, 206).
BackoffIsCumulative == attempts = reconnectAttemptCount /\ connectionCount <= attempts + 1

\* The run's summary is true of the run: its number of connections and their
\* durations, its outcome and its number of attempts (bridge.go:154-222), and a
\* terminal outcome is its last.
SummaryIsTrue == [](FinalizedOnce /\ OutcomeIsCurrent /\ BackoffIsCumulative) /\ TerminalIsFinal

\* A peer that is gone without a word is noticed: a dead socket is left.
DeadPeerNoticed == \A n \in Conns : (pc = "reading" /\ sock[n] = "dead") ~> (sock[n] = "closed")

\* No heartbeat outlives its connection for ever.
HeartbeatsEnd == \A n \in Conns : (n \in hbDone) ~> (hb[n] = "ended")

\* Every connection is watched by its heartbeat, and by it for its own time only.
PeersAreWatched == DeadPeerNoticed /\ HeartbeatsEnd

---------------------------------------------------------------------------
(* Statements of the comments that do not hold (README, section 5). *)

\* bridge.go:239-240: the delay is min(base^attempt, max).
DelayAsDocumented == pc = "wait" => delay = Documented(attempts)

\* heartbeat.go:8-10: a heartbeat serves a single connection.
ClosesOwnSocketOnly == \A k \in kills : k[1] = k[2]

\* heartbeat.go:8-10 and command.go:5-7: while nothing is being shut down a
\* ping fails, and closes the socket, only if the connection is not alive.
LiveSocketKept == [][\A n \in Conns : (kills' # kills /\ hb[n] # hb'[n] /\ n \notin hbDone /\ ~rootDone)
                                        => sock[target[n]] # "up"]_vars
=============================================================================
