--------------------------- MODULE EventDelivery ---------------------------
(***************************************************************************)
(* Delivery of sandbox events to the control plane: sendEvent, the event   *)
(* buffer, the pending-ack table and the replay that follows every         *)
(* reconnect (internal/bridge/send.go), driven by the connection goroutine *)
(* (connectAndRun and drainBootWarnings in internal/bridge/conn.go).       *)
(*                                                                         *)
(* Actors.  The connection goroutine walks through pc; any number of       *)
(* prompt, heartbeat and handler goroutines call sendEvent; the network    *)
(* breaks the socket; the control plane reads the frames in order and      *)
(* acknowledges the critical ones.  b.mu is held by sendEvent for one step *)
(* of the model, and by the two flush loops for a step per frame, so that  *)
(* a socket can break between two frames of a flush.                       *)
(***************************************************************************)
EXTENDS Naturals, Sequences, SequencesExt

CONSTANTS
    Events,         \* events that goroutines hand to sendEvent, each once
    BootWarnings,   \* the warnings queued in the boot warnings file
    MaxEventBuffer, \* maxEventBufferSize
    MaxConns        \* bound: connections of a run; the last one never breaks

NoMessage == ""
NoEvent == [type |-> "", messageId |-> NoMessage, n |-> 0]
CriticalTypes ==
    {"execution_complete", "error", "snapshot_ready", "push_complete", "push_error"}
InlineTypes == {"snapshot_ready", "push_complete", "push_error"}
EventTypes == CriticalTypes \cup {"token", "tool_call", "heartbeat"}

EventRecord(types) == [type : types, messageId : STRING, n : Nat]

ASSUME EventsAssumption ==
    /\ \A e \in Events : /\ e = [type |-> e.type, messageId |-> e.messageId, n |-> e.n]
                         /\ e.type \in EventTypes
    /\ \A i \in DOMAIN BootWarnings :
          BootWarnings[i] = [type |-> "warning", messageId |-> NoMessage, n |-> i]
    /\ BootWarnings \in Seq(Range(BootWarnings))
ASSUME BoundsAssumption ==
    /\ MaxEventBuffer \in Nat \ {0}
    /\ MaxConns \in Nat

ReadyEvent(c) == [type |-> "ready", messageId |-> NoMessage, n |-> c]
AllEvents ==
    Events \cup Range(BootWarnings) \cup {ReadyEvent(c) : c \in 1..MaxConns}

Critical(e) == e.type \in CriticalTypes
CriticalEvents == {e \in AllEvents : Critical(e)}

\* "{type}:{messageId}" when there is a message id; otherwise the random suffix,
\* which the model takes to be unique to the event (its n).
MakeAckID(e) ==
    IF e.messageId # NoMessage THEN <<e.type, e.messageId>> ELSE <<e.type, e.n>>
AckIds == {MakeAckID(e) : e \in CriticalEvents}

\* What the loss theorems need of the events of a run: no two critical events
\* share an ack id.
DistinctAckIds ==
    \A e, f \in CriticalEvents : MakeAckID(e) = MakeAckID(f) => e = f

VARIABLES
    pc,          \* where the connection goroutine is
    conn,        \* b.conn: the number of the current connection, 0 for nil
    conns,       \* connections dialled so far
    mu,          \* b.mu between steps: "free", or the flush loop holding it
    eventBuffer, \* b.eventBuffer
    pendingAcks, \* b.pendingAcks, NoEvent where the map has no entry
    justAdded,   \* ids the buffer flush of this connection put in pendingAcks
    toResend,    \* ids the pending-ack flush has still to visit
    bootFile,    \* whether the boot warnings file exists
    warnings,    \* warnings read from the file and not sent yet
    rootDone,    \* rootCtx is cancelled
    up,          \* the current socket still carries frames
    link,        \* frames written on the current connection
    rcvd,        \* how many of them the control plane has read
    acks,        \* ack commands on their way back
    emitted,     \* history: events handed to sendEvent
    received,    \* history: events the control plane has read
    duplicated,  \* history: events it has read more than once
    evicted,     \* history: critical events the full buffer pushed out
    acked        \* history: critical events whose ack the read loop has handled

connVars == <<conn, conns>>
flushVars == <<mu, justAdded, toResend>>
bootVars == <<bootFile, warnings>>
sendVars == <<eventBuffer, pendingAcks, link, emitted, evicted>>
netVars == <<up, rcvd, acks, received, duplicated, acked>>
bridgeVars == <<pc, connVars, flushVars, bootVars, rootDone>>
vars == <<bridgeVars, sendVars, netVars>>

---------------------------------------------------------------------------
(* The buffer. *)

\* The first non-critical event, or the first of all when every one is critical.
IsVictim(buf, i) ==
    IF \E j \in DOMAIN buf : ~Critical(buf[j])
    THEN ~Critical(buf[i]) /\ \A j \in 1..(i - 1) : Critical(buf[j])
    ELSE i = 1
Victim_Oldest(buf) == 1
Victim(buf) == CHOOSE i \in DOMAIN buf : IsVictim(buf, i)

Full(buf) == Len(buf) >= MaxEventBuffer

BufferEvent_Unbounded(buf, e) == Append(buf, e)

BufferEvent(buf, e) ==
    Append(IF Full(buf) THEN RemoveAt(buf, Victim(buf)) ELSE buf, e)

Evictions(buf) ==
    IF Full(buf) THEN {buf[Victim(buf)]} \cap CriticalEvents ELSE {}

---------------------------------------------------------------------------
(* Sending. *)

\* A frame can be written: the socket is alive and the write context, derived
\* from rootCtx, is not cancelled.
Writable == up /\ ~rootDone

Frame(e, via) == [ev |-> e, via |-> via]
Frames == [ev : AllEvents, via : {"direct", "flush", "resend"}]

Track(pending, e) ==
    IF Critical(e) THEN [pending EXCEPT ![MakeAckID(e)] = e] ELSE pending

SendEventWith(e, pending) ==
    /\ mu = "free"
    /\ emitted' = emitted \cup {e}
    /\ \/ /\ conn # 0 /\ Writable
          /\ link' = Append(link, Frame(e, "direct"))
          /\ pendingAcks' = pending
          /\ UNCHANGED <<eventBuffer, evicted>>
       \/ /\ conn = 0 \/ ~Writable
          /\ eventBuffer' = BufferEvent(eventBuffer, e)
          /\ evicted' = evicted \cup Evictions(eventBuffer)
          /\ UNCHANGED <<link, pendingAcks>>

SendEvent_Untracked(e) == SendEventWith(e, pendingAcks)
SendEvent(e) == SendEventWith(e, Track(pendingAcks, e))

\* A goroutine other than the read loop hands over an event.
PromptSend(e) ==
    /\ pc # "exited"
    /\ e \in Events \ emitted
    /\ e.type \notin InlineTypes
    /\ SendEvent(e)
    /\ UNCHANGED <<bridgeVars, netVars>>

\* A command handler that runs inline in the read loop hands over an event.
InlineSend(e) ==
    /\ pc = "reading"
    /\ e \in Events \ emitted
    /\ e.type \in InlineTypes
    /\ SendEvent(e)
    /\ UNCHANGED <<bridgeVars, netVars>>

---------------------------------------------------------------------------
(* The connection goroutine: dial, announce, drain, flush, resend, read.   *)

Dial ==
    /\ pc = "down" /\ ~rootDone
    /\ conns < MaxConns
    /\ pc' = "announce"
    /\ conns' = conns + 1 /\ conn' = conns + 1
    /\ up' = TRUE /\ link' = <<>> /\ rcvd' = 0 /\ acks' = {}
    /\ UNCHANGED <<flushVars, bootVars, rootDone, eventBuffer, pendingAcks, emitted,
                   evicted, received, duplicated, acked>>

Announce ==
    /\ pc = "announce"
    /\ pc' = "boot"
    /\ SendEvent(ReadyEvent(conn))
    /\ UNCHANGED <<connVars, flushVars, bootVars, rootDone, netVars>>

\* The file is read and removed before anything in it is sent; when either
\* step fails, drainBootWarnings returns and leaves the file for a later try.
DrainBootWarnings ==
    /\ pc = "boot"
    /\ \/ /\ bootFile
          /\ bootFile' = FALSE /\ warnings' = BootWarnings
          /\ pc' = "warn"
       \/ /\ pc' = "flush"
          /\ UNCHANGED bootVars
    /\ UNCHANGED <<connVars, flushVars, rootDone, sendVars, netVars>>

SendWarning ==
    /\ pc = "warn"
    /\ IF warnings = <<>>
       THEN pc' = "flush" /\ UNCHANGED <<warnings, sendVars>>
       ELSE SendEvent(Head(warnings)) /\ warnings' = Tail(warnings) /\ pc' = pc
    /\ UNCHANGED <<connVars, flushVars, bootFile, rootDone, netVars>>

FlushLock ==
    /\ pc = "flush" /\ mu = "free"
    /\ mu' = "flush"
    /\ justAdded' = {}
    /\ UNCHANGED <<pc, connVars, toResend, bootVars, rootDone, sendVars, netVars>>

\* One turn of flushEventBuffer's loop: the head is written, popped, tracked.
FlushOneWith(rest, added) ==
    /\ mu = "flush"
    /\ eventBuffer # <<>> /\ Writable
    /\ link' = Append(link, Frame(Head(eventBuffer), "flush"))
    /\ eventBuffer' = rest
    /\ pendingAcks' = Track(pendingAcks, Head(eventBuffer))
    /\ justAdded' = justAdded \cup added
    /\ UNCHANGED <<pc, connVars, mu, toResend, bootVars, rootDone, emitted, evicted, netVars>>

AckIdsOf(e) == IF Critical(e) THEN {MakeAckID(e)} ELSE {}
FlushOne_NotJustAdded == FlushOneWith(Tail(eventBuffer), {})
FlushOne_KeepHead == FlushOneWith(eventBuffer, AckIdsOf(Head(eventBuffer)))
FlushOne == FlushOneWith(Tail(eventBuffer), AckIdsOf(Head(eventBuffer)))

FlushDone == eventBuffer = <<>> \/ ~Writable

FlushEnd ==
    /\ mu = "flush" /\ FlushDone
    /\ mu' = "free"
    /\ pc' = "resend"
    /\ UNCHANGED <<connVars, justAdded, toResend, bootVars, rootDone, sendVars, netVars>>

Pending == {id \in AckIds : pendingAcks[id] # NoEvent}

ToResend_None == {}
ToResend == Pending \ justAdded

ResendLock ==
    /\ pc = "resend" /\ mu = "free"
    /\ mu' = "resend"
    /\ toResend' = ToResend
    /\ UNCHANGED <<pc, connVars, justAdded, bootVars, rootDone, sendVars, netVars>>

\* One turn of flushPendingAcks' loop, in Go's unspecified map order.
ResendOne(id) ==
    /\ mu = "resend"
    /\ id \in toResend /\ Writable
    /\ link' = Append(link, Frame(pendingAcks[id], "resend"))
    /\ toResend' = toResend \ {id}
    /\ UNCHANGED <<pc, connVars, mu, justAdded, bootVars, rootDone, eventBuffer, pendingAcks,
                   emitted, evicted, netVars>>

ResendEnd ==
    /\ mu = "resend"
    /\ toResend = {} \/ ~Writable
    /\ mu' = "free" /\ toResend' = {}
    /\ pc' = "reading"
    /\ UNCHANGED <<connVars, justAdded, bootVars, rootDone, sendVars, netVars>>

\* The read loop handles one "ack" command.
AckReceivedWith(id, pending) ==
    /\ pc = "reading" /\ mu = "free"
    /\ id \in acks
    /\ acks' = acks \ {id}
    /\ pendingAcks' = pending
    /\ acked' = acked \cup ({pendingAcks[id]} \ {NoEvent})
    /\ UNCHANGED <<bridgeVars, eventBuffer, link, emitted, evicted, up, rcvd, received, duplicated>>

AckReceived_Keep(id) == AckReceivedWith(id, pendingAcks)
AckReceived(id) == AckReceivedWith(id, [pendingAcks EXCEPT ![id] = NoEvent])

\* conn.Read fails, the socket being dead or the context cancelled; then come
\* the deferred calls of connectAndRun, CloseNow and clearConn.
ReadError ==
    /\ pc = "reading" /\ ~Writable
    /\ pc' = "closing"
    /\ UNCHANGED <<connVars, flushVars, bootVars, rootDone, sendVars, netVars>>

CloseNow ==
    /\ pc = "closing"
    /\ pc' = "clearing"
    /\ up' = FALSE
    /\ UNCHANGED <<connVars, flushVars, bootVars, rootDone, sendVars, rcvd, acks, received,
                   duplicated, acked>>

ClearConn ==
    /\ pc = "clearing" /\ mu = "free"
    /\ pc' = "down"
    /\ conn' = 0
    /\ UNCHANGED <<conns, flushVars, bootVars, rootDone, sendVars, netVars>>

\* A shutdown command or a signal cancels rootCtx; Run then returns.
Shutdown ==
    /\ ~rootDone
    /\ rootDone' = TRUE
    /\ UNCHANGED <<pc, connVars, flushVars, bootVars, sendVars, netVars>>

Exit ==
    /\ pc = "down" /\ rootDone
    /\ pc' = "exited"
    /\ UNCHANGED <<connVars, flushVars, bootVars, rootDone, sendVars, netVars>>

---------------------------------------------------------------------------
(* The network and the control plane. *)

\* The socket dies: a network failure, a close by the peer, a failed ping.
\* Frames not read yet may still arrive until the next connection replaces it.
Break ==
    /\ up /\ conns < MaxConns
    /\ up' = FALSE
    /\ UNCHANGED <<bridgeVars, sendVars, rcvd, acks, received, duplicated, acked>>

\* The control plane reads the next frame and acknowledges a critical one.
Receive ==
    /\ rcvd < Len(link)
    /\ rcvd' = rcvd + 1
    /\ LET e == link[rcvd + 1].ev IN
          /\ received' = received \cup {e}
          /\ duplicated' = duplicated \cup ({e} \cap received)
          /\ acks' = IF up THEN acks \cup AckIdsOf(e) ELSE acks
    /\ UNCHANGED <<bridgeVars, sendVars, up, acked>>

---------------------------------------------------------------------------
Init ==
    /\ pc = "down" /\ conn = 0 /\ conns = 0 /\ mu = "free"
    /\ eventBuffer = <<>>
    /\ pendingAcks = [id \in AckIds |-> NoEvent]
    /\ justAdded = {} /\ toResend = {}
    /\ bootFile \in BOOLEAN /\ warnings = <<>>
    /\ rootDone = FALSE
    /\ up = FALSE /\ link = <<>> /\ rcvd = 0 /\ acks = {}
    /\ emitted = {} /\ received = {} /\ duplicated = {} /\ acked = {}
    /\ evicted = {}

ConnectStep ==
    \/ Dial \/ Announce \/ DrainBootWarnings \/ SendWarning
    \/ FlushLock \/ FlushOne \/ FlushEnd
    \/ ResendLock \/ (\E id \in AckIds : ResendOne(id)) \/ ResendEnd
    \/ ReadError \/ CloseNow \/ ClearConn \/ Exit

Next ==
    \/ ConnectStep
    \/ \E id \in AckIds : AckReceived(id)
    \/ \E e \in Events : PromptSend(e) \/ InlineSend(e)
    \/ Shutdown
    \/ Break
    \/ Receive

Spec == Init /\ [][Next]_vars

\* The scheduler runs the connection goroutine, the network carries frames on
\* a socket that stays up, the control plane reads and acknowledges.  Nothing
\* obliges a prompt to emit, a socket to break or an operator to shut down.
FairSpec ==
    /\ Spec
    /\ WF_vars(ConnectStep)
    /\ WF_vars(Receive)
    /\ \A id \in AckIds : WF_vars(AckReceived(id))

---------------------------------------------------------------------------
(* Properties. *)

Sent == {link[i].ev : i \in DOMAIN link}
Held == {pendingAcks[id] : id \in Pending}

\* Every variable has its type; the buffer never exceeds its limit.
TypeOK ==
    /\ pc \in {"down", "announce", "boot", "warn", "flush", "resend", "reading",
               "closing", "clearing", "exited"}
    /\ conns \in 0..MaxConns
    /\ conn \in {0, conns}
    /\ mu \in {"free", "flush", "resend"}
    /\ eventBuffer \in Seq(AllEvents)
    /\ Len(eventBuffer) <= MaxEventBuffer
    /\ pendingAcks \in [AckIds -> CriticalEvents \cup {NoEvent}]
    /\ justAdded \in SUBSET AckIds
    /\ toResend \in SUBSET AckIds
    /\ bootFile \in BOOLEAN
    /\ warnings \in Seq(Range(BootWarnings))
    /\ rootDone \in BOOLEAN
    /\ up \in BOOLEAN
    /\ link \in Seq(Frames)
    /\ rcvd \in 0..Len(link)
    /\ acks \in SUBSET AckIds
    /\ emitted \in SUBSET AllEvents
    /\ received \in SUBSET AllEvents
    /\ duplicated \in SUBSET AllEvents
    /\ evicted \in SUBSET CriticalEvents
    /\ acked \in SUBSET CriticalEvents

\* No critical event is lost while the process lives: once handed to sendEvent
\* it has been read by the control plane, or is still held for (re)sending, or
\* was pushed out of a buffer full of critical events (config.go: critical
\* event types "are re-sent until acknowledged by the control plane").
CriticalRetained ==
    \A e \in emitted \cap CriticalEvents :
        \/ e \in received
        \/ e \in evicted
        \/ e \in Range(eventBuffer)
        \/ e \in Held

\* The same promise without the bridge's bookkeeping: an event that was neither
\* read nor evicted can still reach the control plane, because a copy is held or
\* is on the wire.
NoCriticalLost ==
    \A e \in emitted \cap CriticalEvents :
        \/ e \in received \cup evicted \cup Range(eventBuffer) \cup Held
        \/ \E i \in (rcvd + 1)..Len(link) : link[i].ev = e

\* The buffer and the pending-ack table never hold the same event, and what is
\* buffered has never reached the wire: an event waits for its first write or
\* for its ack, never for both.
BufferedIsUnsent ==
    /\ Range(eventBuffer) \cap (Sent \cup received \cup Held) = {}
    /\ \A i, j \in DOMAIN eventBuffer : eventBuffer[i] = eventBuffer[j] => i = j

\* Only critical events ever reach the control plane twice; boot warnings,
\* tokens and heartbeats do not, however often the bridge reconnects.
OnlyCriticalDuplicated == \A e \in duplicated : Critical(e)

\* When the read loop is running on a live socket nothing is left behind: the
\* buffer is empty and every unacknowledged event was written on this
\* connection, by whichever goroutine (connectAndRun's flush and resend).
NothingStranded ==
    pc = "reading" /\ Writable =>
        /\ eventBuffer = <<>>
        /\ Held \subseteq Sent

\* An acknowledged event is finished: the bridge keeps no copy it could send
\* again, on this connection or a later one (ackReceived).
AckIsFinal == acked \cap (Held \cup Range(eventBuffer)) = {}

\* At any moment an event is in one place at most: buffered and not yet written,
\* or written and waiting for its ack, or acknowledged and forgotten.
OneCopy == BufferedIsUnsent /\ AckIsFinal

\* What is replayed across the gap comes after the ready announcement of its
\* connection (connectAndRun: "Announce readiness, then replay anything
\* buffered/unacked across the gap").
ReadyPrecedesReplay ==
    \A j \in DOMAIN link : link[j].via # "direct" =>
        \E i \in 1..(j - 1) : link[i].ev = ReadyEvent(conns)

\* An event goes out twice on one connection in a single case: a goroutine
\* wrote it itself between setConn and flushPendingAcks, which then resends it.
\* In particular an event written by the buffer flush is never resent.
DoubleSendOnlyByRace ==
    \A i, j \in DOMAIN link : i < j /\ link[i].ev = link[j].ev =>
        link[i].via = "direct" /\ link[j].via = "resend" /\ Critical(link[i].ev)

\* What a reconnect writes again, and when: after ready, only critical events,
\* and nothing twice on one connection but by that race.
ReplayInOrder == ReadyPrecedesReplay /\ OnlyCriticalDuplicated /\ DoubleSendOnlyByRace

\* A critical event leaves the buffer unsent only when the buffer is full of
\* critical events, and then the oldest goes (bufferEventLocked).
CriticalEvictedLast ==
    [][\A e \in evicted' \ evicted :
          /\ Len(eventBuffer) = MaxEventBuffer
          /\ e = Head(eventBuffer)
          /\ \A i \in DOMAIN eventBuffer : Critical(eventBuffer[i])]_vars

\* Every critical event a goroutine hands over reaches the control plane,
\* unless it is evicted or the bridge shuts down.
EventuallyReceived ==
    \A e \in CriticalEvents :
        e \in emitted ~> (e \in received \/ e \in evicted \/ rootDone)

\* The pending-ack table drains: no entry stays for ever.
PendingDrains ==
    \A id \in AckIds : (id \in Pending) ~> (id \notin Pending \/ rootDone)

\* A buffered event of any kind eventually leaves the buffer.
BufferDrains ==
    \A e \in AllEvents :
        (e \in Range(eventBuffer)) ~> (e \notin Range(eventBuffer) \/ rootDone)

\* Whatever waits goes out: at once while the connection lives, and after a
\* reconnect otherwise, since nothing but a reconnect flushes (conn.go:59-64).
Drains == []NothingStranded /\ PendingDrains /\ BufferDrains

---------------------------------------------------------------------------
\* The promise, and what it reads in this module's state.
Promise == INSTANCE AtLeastOnce WITH
    Event     <- CriticalEvents,
    accepted  <- emitted \cap CriticalEvents,
    delivered <- received \cap CriticalEvents,
    dropped   <- evicted,
    stopped   <- rootDone

\* The event path implements the promise, its safety part and its liveness.
KeepsPromise == Promise!Spec
=============================================================================
