------------------------ MODULE EventDeliveryProofs ------------------------
(***************************************************************************)
(* Proofs about the delivery of events, for every set of events, every     *)
(* buffer size and every number of connections.                            *)
(***************************************************************************)
EXTENDS EventDelivery, SequenceTheorems, WellFoundedInduction, TLAPS

---------------------------------------------------------------------------
(* Sequences: what is appended, popped and evicted. *)

\* Distinct s: no element of the sequence occurs twice.
Distinct(s) == \A i, j \in DOMAIN s : s[i] = s[j] => i = j

\* Appending adds one element to those of a sequence.
LEMMA AppendElements ==
    ASSUME NEW S, NEW s \in Seq(S), NEW e \in S
    PROVE  /\ Append(s, e) \in Seq(S)
           /\ Len(Append(s, e)) = Len(s) + 1
           /\ Range(Append(s, e)) = Range(s) \cup {e}
           /\ Distinct(s) /\ e \notin Range(s) => Distinct(Append(s, e))
<1>1. /\ Append(s, e) \in Seq(S)
      /\ Len(Append(s, e)) = Len(s) + 1
      /\ DOMAIN s = 1..Len(s) /\ DOMAIN Append(s, e) = 1..(Len(s) + 1)
      /\ \A i \in 1..Len(s) : Append(s, e)[i] = s[i]
      /\ Append(s, e)[Len(s) + 1] = e
      /\ Len(s) \in Nat
  BY AppendProperties
<1>2. Range(Append(s, e)) = Range(s) \cup {e}
  <2>1. ASSUME NEW x \in Range(Append(s, e)) PROVE x \in Range(s) \cup {e}
    BY <1>1, <2>1 DEF Range
  <2>2. ASSUME NEW x \in Range(s) PROVE x \in Range(Append(s, e))
    BY <1>1, <2>2 DEF Range
  <2>3. e \in Range(Append(s, e))
    BY <1>1 DEF Range
  <2>. QED
    BY <2>1, <2>2, <2>3
<1>3. ASSUME Distinct(s), e \notin Range(s) PROVE Distinct(Append(s, e))
  BY <1>1, <1>3 DEF Distinct, Range
<1>. QED
  BY <1>1, <1>2, <1>3

\* Popping the head of a sequence leaves the others.
LEMMA TailElements ==
    ASSUME NEW S, NEW s \in Seq(S), s # <<>>
    PROVE  /\ Tail(s) \in Seq(S) /\ Head(s) \in S
           /\ Len(Tail(s)) = Len(s) - 1
           /\ Range(s) = Range(Tail(s)) \cup {Head(s)}
           /\ Distinct(s) => Distinct(Tail(s)) /\ Head(s) \notin Range(Tail(s))
<1>1. /\ Head(s) \in S /\ Tail(s) \in Seq(S) /\ Len(Tail(s)) = Len(s) - 1
      /\ \A i \in 1..Len(Tail(s)) : Tail(s)[i] = s[i + 1]
  BY HeadTailProperties
<1>2. /\ DOMAIN s = 1..Len(s) /\ DOMAIN Tail(s) = 1..(Len(s) - 1)
      /\ Len(s) \in Nat \ {0} /\ Head(s) = s[1]
  BY <1>1
<1>3. \A i \in 1..(Len(s) - 1) : Tail(s)[i] = s[i + 1]
  BY <1>1
<1>4. Range(s) \subseteq Range(Tail(s)) \cup {Head(s)}
  <2> SUFFICES ASSUME NEW i \in 1..Len(s) PROVE s[i] \in Range(Tail(s)) \cup {Head(s)}
    BY <1>2 DEF Range
  <2>1. CASE i = 1
    BY <1>2, <2>1
  <2>2. CASE i # 1
    <3>1. i - 1 \in 1..(Len(s) - 1) /\ s[i] = Tail(s)[i - 1]
      BY <1>2, <1>3, <2>2
    <3>. QED
      BY <1>2, <3>1 DEF Range
  <2>. QED
    BY <2>1, <2>2
<1>5. Range(Tail(s)) \cup {Head(s)} \subseteq Range(s)
  BY <1>2, <1>3 DEF Range
<1>6. ASSUME Distinct(s) PROVE Distinct(Tail(s)) /\ Head(s) \notin Range(Tail(s))
  BY <1>2, <1>3, <1>6 DEF Distinct, Range
<1>. QED
  BY <1>1, <1>4, <1>5, <1>6

\* Removing one element leaves the others in place.
LEMMA RemoveElements ==
    ASSUME NEW S, NEW s \in Seq(S), NEW k \in DOMAIN s
    PROVE  /\ RemoveAt(s, k) \in Seq(S)
           /\ Len(RemoveAt(s, k)) = Len(s) - 1
           /\ Range(s) = Range(RemoveAt(s, k)) \cup {s[k]}
           /\ Distinct(s) => Distinct(RemoveAt(s, k)) /\ s[k] \notin Range(RemoveAt(s, k))
<1> DEFINE r == RemoveAt(s, k)
           a == SubSeq(s, 1, k - 1)
           b == SubSeq(s, k + 1, Len(s))
<1>1. Len(s) \in Nat /\ k \in 1..Len(s) /\ DOMAIN s = 1..Len(s) /\ \A i \in 1..Len(s) : s[i] \in S
  OBVIOUS
<1>2. /\ a \in Seq(S) /\ Len(a) = k - 1
      /\ \A i \in 1..(k - 1) : a[i] = s[i]
  BY <1>1, SubSeqProperties
<1>3. /\ b \in Seq(S) /\ Len(b) = Len(s) - k
      /\ \A i \in 1..(Len(s) - k) : b[i] = s[k + i]
  <2>1. \A i \in (k + 1)..Len(s) : s[i] \in S
    BY <1>1
  <2>2. /\ b \in Seq(S)
        /\ Len(b) = IF k + 1 <= Len(s) THEN Len(s) - (k + 1) + 1 ELSE 0
        /\ \A i \in 1..(Len(s) - (k + 1) + 1) : b[i] = s[(k + 1) + i - 1]
    <3>1. k + 1 \in Int /\ Len(s) \in Int
      BY <1>1
    <3>. QED
      BY <2>1, <3>1, SubSeqProperties, SMTT(30)
  <2>3. /\ Len(s) - (k + 1) + 1 = Len(s) - k
        /\ ~(k + 1 <= Len(s)) => Len(s) - k = 0
        /\ \A i \in 1..(Len(s) - k) : (k + 1) + i - 1 = k + i
    BY <1>1
  <2> HIDE DEF b
  <2>4. Len(b) = Len(s) - k
    BY <2>2, <2>3
  <2>5. \A i \in 1..(Len(s) - k) : b[i] = s[k + i]
    BY <2>2, <2>3
  <2>. QED
    BY <2>2, <2>4, <2>5
<1>4. r = a \o b
  BY DEF RemoveAt
<1>5. /\ r \in Seq(S) /\ Len(r) = Len(s) - 1 /\ DOMAIN r = 1..(Len(s) - 1)
      /\ \A i \in 1..(Len(s) - 1) : r[i] = IF i < k THEN s[i] ELSE s[i + 1]
  <2>1. /\ r \in Seq(S) /\ Len(r) = Len(a) + Len(b)
        /\ \A i \in 1..(Len(a) + Len(b)) : r[i] = IF i <= Len(a) THEN a[i] ELSE b[i - Len(a)]
    BY <1>2, <1>3, <1>4, ConcatProperties
  <2>2. Len(a) + Len(b) = Len(s) - 1
    BY <1>1, <1>2, <1>3
  <2>3. r \in Seq(S) /\ Len(r) = Len(s) - 1 /\ DOMAIN r = 1..(Len(s) - 1)
    BY <2>1, <2>2
  <2>4. ASSUME NEW i \in 1..(Len(s) - 1) PROVE r[i] = IF i < k THEN s[i] ELSE s[i + 1]
    <3>1. r[i] = IF i <= k - 1 THEN a[i] ELSE b[i - (k - 1)]
      BY <1>2, <2>1, <2>2, <2>4
    <3>2. CASE i < k
      <4>1. i <= k - 1 /\ i \in 1..(k - 1)
        BY <1>1, <3>2
      <4>. QED
        BY <1>2, <3>1, <3>2, <4>1
    <3>3. CASE ~(i < k)
      <4>1. ~(i <= k - 1) /\ i - (k - 1) \in 1..(Len(s) - k) /\ k + (i - (k - 1)) = i + 1
        BY <1>1, <3>3
      <4>. QED
        BY <1>3, <3>1, <3>3, <4>1
    <3>. QED
      BY <3>2, <3>3
  <2>. QED
    BY <2>3, <2>4
<1> HIDE DEF r
<1>6. Range(s) \subseteq Range(r) \cup {s[k]}
  <2> SUFFICES ASSUME NEW i \in 1..Len(s), i # k PROVE s[i] \in Range(r)
    BY <1>1 DEF Range
  <2>1. CASE i < k
    <3>1. i \in 1..(Len(s) - 1) /\ r[i] = s[i]
      BY <1>1, <1>5, <2>1
    <3>. QED
      BY <1>5, <3>1 DEF Range
  <2>2. CASE i > k
    <3>1. i - 1 \in 1..(Len(s) - 1) /\ r[i - 1] = s[i]
      BY <1>1, <1>5, <2>2
    <3>. QED
      BY <1>5, <3>1 DEF Range
  <2>. QED
    BY <1>1, <2>1, <2>2
<1>7. Range(r) \cup {s[k]} \subseteq Range(s)
  <2>1. \A i \in 1..(Len(s) - 1) : i \in 1..Len(s) /\ i + 1 \in 1..Len(s)
    BY <1>1
  <2>2. \A i \in 1..(Len(s) - 1) : \E j \in 1..Len(s) : r[i] = s[j]
    BY <1>5, <2>1
  <2>. QED
    BY <1>1, <1>5, <2>2 DEF Range
<1>8. ASSUME Distinct(s) PROVE Distinct(r) /\ s[k] \notin Range(r)
  <2> DEFINE at(i) == IF i < k THEN i ELSE i + 1
  <2>1. \A i \in 1..(Len(s) - 1) : at(i) \in 1..Len(s) /\ at(i) # k /\ r[i] = s[at(i)]
    BY <1>1, <1>5
  <2>2. \A i, j \in 1..(Len(s) - 1) : at(i) = at(j) => i = j
    BY <1>1
  <2> HIDE DEF at
  <2>3. \A i, j \in 1..Len(s) : s[i] = s[j] => i = j
    BY <1>1, <1>8 DEF Distinct
  <2>4. Distinct(r)
    <3>1. \A i, j \in 1..(Len(s) - 1) : r[i] = r[j] => i = j
      BY <2>1, <2>2, <2>3
    <3>. QED
      BY <1>5, <3>1 DEF Distinct
  <2>5. \A i \in 1..(Len(s) - 1) : r[i] # s[k]
    BY <1>1, <2>1, <2>3
  <2>. QED
    BY <1>5, <2>4, <2>5 DEF Range
<1>. QED
  BY <1>5, <1>6, <1>7, <1>8 DEF r

---------------------------------------------------------------------------
(* Events, the buffer and the pending-ack table. *)

\* Boot warnings and ready announcements are neither critical nor among the
\* events goroutines hand over, and no two of them are the same.
LEMMA Kinds ==
    /\ \A e \in Events : e.type \in EventTypes
    /\ \A e \in Range(BootWarnings) : e.type = "warning"
    /\ \A c : ReadyEvent(c).type = "ready"
    /\ \A c, d : ReadyEvent(c) = ReadyEvent(d) => c = d
    /\ NoEvent.type = ""
    /\ Distinct(BootWarnings)
    /\ BootWarnings \in Seq(Range(BootWarnings))
<1>1. \A e \in Events : e.type \in EventTypes
  BY EventsAssumption
<1>2. \A e \in Range(BootWarnings) : e.type = "warning"
  BY EventsAssumption DEF Range
<1>3. \A c : ReadyEvent(c).type = "ready" /\ ReadyEvent(c).n = c
  BY DEF ReadyEvent
<1>4. NoEvent.type = ""
  BY DEF NoEvent
<1>5. Distinct(BootWarnings)
  <2> SUFFICES ASSUME NEW i \in DOMAIN BootWarnings, NEW j \in DOMAIN BootWarnings,
                      BootWarnings[i] = BootWarnings[j]
               PROVE  i = j
    BY DEF Distinct
  <2>1. BootWarnings[i].n = i /\ BootWarnings[j].n = j
    BY EventsAssumption
  <2>. QED
    BY <2>1
<1>6. ASSUME NEW c, NEW d, ReadyEvent(c) = ReadyEvent(d) PROVE c = d
  <2>1. ReadyEvent(c).n = c /\ ReadyEvent(d).n = d
    BY <1>3
  <2>. QED
    BY <1>6, <2>1
<1>7. BootWarnings \in Seq(Range(BootWarnings))
  BY EventsAssumption
<1>8. \A c, d : ReadyEvent(c) = ReadyEvent(d) => c = d
  BY <1>6
<1>9. \A c : ReadyEvent(c).type = "ready"
  BY <1>3
<1>. QED
  BY <1>1, <1>2, <1>4, <1>5, <1>7, <1>8, <1>9

\* Of all events only some of those goroutines hand over are critical.
LEMMA CriticalKinds ==
    /\ CriticalEvents \subseteq Events
    /\ NoEvent \notin CriticalEvents
    /\ \A e \in AllEvents : Critical(e) <=> e \in CriticalEvents
    /\ \A e \in CriticalEvents : MakeAckID(e) \in AckIds
    /\ Events \cap Range(BootWarnings) = {}
    /\ \A c : ReadyEvent(c) \notin Events \cup Range(BootWarnings)
<1>1. /\ "ready" \notin CriticalTypes /\ "warning" \notin CriticalTypes /\ "" \notin CriticalTypes
      /\ "ready" \notin EventTypes /\ "warning" \notin EventTypes
  BY DEF CriticalTypes, EventTypes
<1>2. \A e \in AllEvents :
        e \in Events \/ e \in Range(BootWarnings) \/ \E c \in 1..MaxConns : e = ReadyEvent(c)
  BY DEF AllEvents
<1>3. \A e \in CriticalEvents : e \in AllEvents /\ e.type \in CriticalTypes
  BY DEF CriticalEvents, Critical
<1>4. ASSUME NEW e \in CriticalEvents PROVE e \in Events
  <2>1. e \in AllEvents /\ e.type \in CriticalTypes
    BY <1>3
  <2>2. e \notin Range(BootWarnings)
    BY <1>1, <2>1, Kinds
  <2>3. \A c : e # ReadyEvent(c)
    BY <1>1, <2>1, Kinds
  <2>. QED
    BY <1>2, <2>1, <2>2, <2>3
<1>5. NoEvent \notin CriticalEvents
  BY <1>1, <1>3, Kinds
<1>6. Events \cap Range(BootWarnings) = {}
  BY <1>1, Kinds
<1>7. \A c : ReadyEvent(c) \notin Events \cup Range(BootWarnings)
  BY <1>1, Kinds
<1>. QED
  BY <1>4, <1>5, <1>6, <1>7 DEF CriticalEvents, AckIds

\* A buffer that is not empty has a victim.
LEMMA VictimExists ==
    ASSUME NEW buf \in Seq(AllEvents), buf # <<>>
    PROVE  Victim(buf) \in DOMAIN buf /\ IsVictim(buf, Victim(buf))
<1>1. Len(buf) \in Nat \ {0} /\ DOMAIN buf = 1..Len(buf)
  OBVIOUS
<1> SUFFICES \E i \in DOMAIN buf : IsVictim(buf, i)
  BY DEF Victim
<1>2. CASE \E j \in DOMAIN buf : ~Critical(buf[j])
  <2> DEFINE T == {j \in DOMAIN buf : ~Critical(buf[j])}
  <2>1. T \subseteq Nat /\ T # {}
    BY <1>1, <1>2
  <2>2. \E i \in T : \A j \in T : ~(<<j, i>> \in OpToRel(<, Nat))
    BY <2>1, NatLessThanWellFounded, WFMin
  <2>3. PICK i \in T : \A j \in T : ~(j < i)
    BY <2>1, <2>2 DEF OpToRel
  <2>4. \A j \in 1..(i - 1) : Critical(buf[j])
    BY <1>1, <2>3
  <2>. QED
    BY <1>2, <2>3, <2>4 DEF IsVictim
<1>3. CASE \A j \in DOMAIN buf : Critical(buf[j])
  BY <1>1, <1>3 DEF IsVictim
<1>. QED
  BY <1>2, <1>3

\* Buffering an event keeps the buffer within its limit, and what leaves it is at
\* most one event, which is counted among the evicted when it is critical.
LEMMA BufferStep ==
    ASSUME NEW buf \in Seq(AllEvents), Len(buf) <= MaxEventBuffer, NEW e \in AllEvents
    PROVE  /\ BufferEvent(buf, e) \in Seq(AllEvents)
           /\ Len(BufferEvent(buf, e)) <= MaxEventBuffer
           /\ Range(BufferEvent(buf, e)) \subseteq Range(buf) \cup {e}
           /\ e \in Range(BufferEvent(buf, e))
           /\ Range(buf) \cap CriticalEvents \subseteq Range(BufferEvent(buf, e)) \cup Evictions(buf)
           /\ Evictions(buf) \subseteq Range(buf) \cap CriticalEvents
           /\ \E d : Evictions(buf) \subseteq {d}
           /\ Distinct(buf) /\ e \notin Range(buf) =>
                /\ Distinct(BufferEvent(buf, e))
                /\ Evictions(buf) \cap Range(BufferEvent(buf, e)) = {}
<1>1. MaxEventBuffer \in Nat \ {0} /\ Len(buf) \in Nat
  BY BoundsAssumption
<1>2. CASE ~Full(buf)
  <2>1. BufferEvent(buf, e) = Append(buf, e) /\ Evictions(buf) = {} /\ Len(buf) < MaxEventBuffer
    BY <1>1, <1>2 DEF BufferEvent, Evictions, Full
  <2>2. /\ Append(buf, e) \in Seq(AllEvents)
        /\ Len(Append(buf, e)) = Len(buf) + 1
        /\ Range(Append(buf, e)) = Range(buf) \cup {e}
        /\ Distinct(buf) /\ e \notin Range(buf) => Distinct(Append(buf, e))
    BY AppendElements
  <2>3. Len(Append(buf, e)) <= MaxEventBuffer
    BY <1>1, <2>1, <2>2
  <2>. QED
    BY <2>1, <2>2, <2>3
<1>3. CASE Full(buf)
  <2> DEFINE v == Victim(buf)
             rest == RemoveAt(buf, v)
  <2>1. BufferEvent(buf, e) = Append(rest, e) /\ Evictions(buf) = {buf[v]} \cap CriticalEvents
    BY <1>3 DEF BufferEvent, Evictions
  <2>2. v \in DOMAIN buf
    BY <1>1, <1>3, VictimExists DEF Full
  <2> HIDE DEF v
  <2>3. /\ rest \in Seq(AllEvents)
        /\ Len(rest) = Len(buf) - 1
        /\ Range(buf) = Range(rest) \cup {buf[v]}
        /\ Distinct(buf) => Distinct(rest) /\ buf[v] \notin Range(rest)
    BY <2>2, RemoveElements
  <2> HIDE DEF rest
  <2>4. /\ Append(rest, e) \in Seq(AllEvents)
        /\ Len(Append(rest, e)) = Len(rest) + 1
        /\ Range(Append(rest, e)) = Range(rest) \cup {e}
        /\ Distinct(rest) /\ e \notin Range(rest) => Distinct(Append(rest, e))
    BY <2>3, AppendElements
  <2>5. Len(Append(rest, e)) <= MaxEventBuffer
    BY <1>1, <2>3, <2>4
  <2>. QED
    BY <2>1, <2>3, <2>4, <2>5
<1>. QED
  BY <1>2, <1>3

\* Tracking an event changes the entry of its own id, if it is critical.
PendingType == [AckIds -> CriticalEvents \cup {NoEvent}]
LEMMA TrackStep ==
    ASSUME NEW pending \in PendingType, NEW e \in AllEvents
    PROVE  /\ Track(pending, e) \in PendingType
           /\ ~Critical(e) => Track(pending, e) = pending
           /\ Critical(e) => Track(pending, e)[MakeAckID(e)] = e
           /\ \A id \in AckIds :
                \/ Track(pending, e)[id] = pending[id]
                \/ Critical(e) /\ id = MakeAckID(e) /\ Track(pending, e)[id] = e
<1>1. CASE ~Critical(e)
  BY <1>1 DEF Track
<1>2. CASE Critical(e)
  <2>1. e \in CriticalEvents /\ MakeAckID(e) \in AckIds
    BY <1>2, CriticalKinds
  <2>2. Track(pending, e) = [pending EXCEPT ![MakeAckID(e)] = e]
    BY <1>2 DEF Track
  <2>. QED
    BY <1>2, <2>1, <2>2 DEF PendingType
<1>. QED
  BY <1>1, <1>2

\* A frame carries its event.
LEMMA FrameTyped ==
    ASSUME NEW e \in AllEvents, NEW via \in {"direct", "flush", "resend"}
    PROVE  Frame(e, via) \in Frames /\ Frame(e, via).ev = e
BY DEF Frame, Frames

\* Writing a frame adds its event to what was written on the connection.
LEMMA WriteFrame ==
    ASSUME link \in Seq(Frames), NEW f \in Frames, link' = Append(link, f)
    PROVE  /\ link' \in Seq(Frames) /\ Len(link') = Len(link) + 1
           /\ Sent' = Sent \cup {f.ev}
<1>1. /\ DOMAIN link = 1..Len(link) /\ DOMAIN link' = 1..(Len(link) + 1)
      /\ link' \in Seq(Frames) /\ Len(link') = Len(link) + 1 /\ Len(link) \in Nat
      /\ \A i \in 1..Len(link) : link'[i] = link[i]
      /\ link'[Len(link) + 1] = f
  BY AppendProperties
<1>2. Sent' = {link'[i].ev : i \in DOMAIN link'}
  BY DEF Sent
<1>3. ASSUME NEW x \in Sent' PROVE x \in Sent \cup {f.ev}
  BY <1>1, <1>2, <1>3 DEF Sent
<1>4. ASSUME NEW x \in Sent PROVE x \in Sent'
  BY <1>1, <1>2, <1>4 DEF Sent
<1>5. f.ev \in Sent'
  BY <1>1, <1>2
<1>. QED
  BY <1>1, <1>3, <1>4, <1>5

---------------------------------------------------------------------------
(* Type correctness. *)

\* What the places of the connection goroutine say of its other variables: the
\* event it announces is that of the newest connection, a flush loop runs only
\* at its place, and what is left to resend is pending.
Placed ==
    /\ pc = "announce" => conn = conns /\ conns # 0
    /\ mu = "flush" => pc = "flush"
    /\ mu = "resend" => pc = "resend"
    /\ toResend \subseteq Pending
    /\ mu # "resend" => toResend = {}
TypeInv == TypeOK /\ Placed

SendTyped ==
    /\ eventBuffer \in Seq(AllEvents)
    /\ Len(eventBuffer) <= MaxEventBuffer
    /\ pendingAcks \in PendingType
    /\ link \in Seq(Frames)
    /\ emitted \in SUBSET AllEvents
    /\ evicted \in SUBSET CriticalEvents

\* sendEvent writes the event and tracks it, or buffers it.
LEMMA SendStep ==
    ASSUME TypeOK, NEW e \in AllEvents, SendEvent(e)
    PROVE  /\ SendTyped'
           /\ Len(link) <= Len(link')
           /\ emitted' = emitted \cup {e}
           /\ \/ /\ Sent' = Sent \cup {e}
                 /\ pendingAcks' = Track(pendingAcks, e)
                 /\ UNCHANGED <<eventBuffer, evicted>>
              \/ /\ UNCHANGED <<link, pendingAcks>>
                 /\ eventBuffer' = BufferEvent(eventBuffer, e)
                 /\ evicted' = evicted \cup Evictions(eventBuffer)
<1>1. /\ SendTyped /\ Len(link) \in Nat
      /\ emitted' = emitted \cup {e} /\ emitted' \in SUBSET AllEvents
  BY DEF TypeOK, SendTyped, PendingType, SendEvent, SendEventWith
<1>2. CASE /\ link' = Append(link, Frame(e, "direct"))
           /\ pendingAcks' = Track(pendingAcks, e)
           /\ UNCHANGED <<eventBuffer, evicted>>
  <2>1. link' \in Seq(Frames) /\ Len(link') = Len(link) + 1 /\ Sent' = Sent \cup {e}
    BY <1>1, <1>2, FrameTyped, WriteFrame DEF SendTyped
  <2>2. pendingAcks' \in PendingType
    BY <1>1, <1>2, TrackStep DEF SendTyped
  <2>3. SendTyped'
    BY <1>1, <1>2, <2>1, <2>2 DEF SendTyped
  <2>. QED
    BY <1>1, <1>2, <2>1, <2>3
<1>3. CASE /\ eventBuffer' = BufferEvent(eventBuffer, e)
           /\ evicted' = evicted \cup Evictions(eventBuffer)
           /\ UNCHANGED <<link, pendingAcks>>
  <2>1. /\ eventBuffer' \in Seq(AllEvents) /\ Len(eventBuffer') <= MaxEventBuffer
        /\ Evictions(eventBuffer) \subseteq CriticalEvents
    BY <1>1, <1>3, BufferStep DEF SendTyped
  <2>2. SendTyped'
    BY <1>1, <1>3, <2>1 DEF SendTyped
  <2>. QED
    BY <1>1, <1>3, <2>2
<1>. QED
  BY <1>2, <1>3 DEF SendEvent, SendEventWith

\* Tracking does not empty an entry.
LEMMA PendingGrows ==
    ASSUME pendingAcks \in PendingType, NEW e \in AllEvents,
           pendingAcks' = Track(pendingAcks, e)
    PROVE  Pending \subseteq Pending'
<1>1. NoEvent # e \/ ~Critical(e)
  BY CriticalKinds
<1>. QED
  BY <1>1, TrackStep DEF Pending

\* A send leaves the type invariant true, whatever else the step does with pc and
\* the warnings.
LEMMA SendKeepsTypes ==
    ASSUME TypeInv, NEW e \in AllEvents, SendEvent(e),
           UNCHANGED <<connVars, flushVars, bootFile, rootDone, netVars>>,
           pc' \in {"boot", pc},
           warnings' \in Seq(Range(BootWarnings))
    PROVE  TypeInv'
<1>1. /\ SendTyped' /\ Len(link) <= Len(link') /\ mu = "free"
      /\ pendingAcks' = Track(pendingAcks, e) \/ pendingAcks' = pendingAcks
  BY SendStep DEF TypeInv, SendEvent, SendEventWith
<1>2. TypeOK'
  <2>1. Len(link') \in Nat /\ rcvd' \in 0..Len(link')
    BY <1>1 DEF TypeInv, TypeOK, SendTyped, netVars
  <2>. QED
    BY <1>1, <2>1 DEF TypeInv, TypeOK, SendTyped, PendingType, connVars, flushVars, netVars
<1>3. Placed'
  BY <1>1 DEF TypeInv, TypeOK, Placed, connVars, flushVars
<1>. QED
  BY <1>2, <1>3 DEF TypeInv

\* TypeInv is inductive.
LEMMA TypeStep == TypeInv /\ [Next]_vars => TypeInv'
<1> SUFFICES ASSUME TypeInv, [Next]_vars PROVE TypeInv'
  OBVIOUS
<1> USE BoundsAssumption DEF TypeInv
<1>1. CASE Dial
  <2>1. TypeOK'
    <3>1. <<>> \in Seq(Frames) /\ Len(<<>>) = 0
      OBVIOUS
    <3>2. conns' \in 0..MaxConns /\ conn' \in {0, conns'}
      BY <1>1 DEF TypeOK, Dial
    <3>. QED
      BY <1>1, <3>1, <3>2 DEF TypeOK, Dial, flushVars, bootVars
  <2>2. Placed'
    BY <1>1 DEF TypeOK, Placed, Dial, flushVars, Pending
  <2>. QED
    BY <2>1, <2>2
<1>2. CASE Announce
  <2>1. ReadyEvent(conn) \in AllEvents
    BY <1>2 DEF Announce, Placed, TypeOK, AllEvents
  <2>2. warnings' \in Seq(Range(BootWarnings))
    BY <1>2 DEF Announce, TypeOK, bootVars
  <2>3. SendEvent(ReadyEvent(conn)) /\ pc' = "boot"
        /\ UNCHANGED <<connVars, flushVars, bootFile, rootDone, netVars>>
    BY <1>2 DEF Announce, bootVars
  <2>. QED
    BY <2>1, <2>2, <2>3, SendKeepsTypes
<1>3. CASE DrainBootWarnings
  <2>1. warnings' \in Seq(Range(BootWarnings)) /\ bootFile' \in BOOLEAN
    BY <1>3, Kinds DEF DrainBootWarnings, TypeOK, bootVars
  <2>2. TypeOK'
    BY <1>3, <2>1 DEF TypeOK, DrainBootWarnings, connVars, flushVars, sendVars, netVars
  <2>3. Placed'
    BY <1>3 DEF TypeOK, Placed, DrainBootWarnings, connVars, flushVars, sendVars, Pending
  <2>. QED
    BY <2>2, <2>3
<1>4. CASE SendWarning
  <2>1. CASE warnings = <<>>
    <3>1. pc' = "flush" /\ pc = "warn" /\ UNCHANGED <<warnings, sendVars, connVars, flushVars,
                                                      bootFile, rootDone, netVars>>
      BY <1>4, <2>1 DEF SendWarning
    <3>2. TypeOK'
      BY <3>1 DEF TypeOK, connVars, flushVars, sendVars, netVars
    <3>3. Placed'
      BY <3>1 DEF TypeOK, Placed, connVars, flushVars, sendVars, Pending
    <3>. QED
      BY <3>2, <3>3
  <2>2. CASE warnings # <<>>
    <3>1. Head(warnings) \in Range(BootWarnings) /\ Tail(warnings) \in Seq(Range(BootWarnings))
      BY <2>2, TailElements DEF TypeOK
    <3>2. Head(warnings) \in AllEvents
      BY <3>1 DEF AllEvents
    <3>3. SendEvent(Head(warnings)) /\ warnings' = Tail(warnings) /\ pc' = pc
          /\ UNCHANGED <<connVars, flushVars, bootFile, rootDone, netVars>>
      BY <1>4, <2>2 DEF SendWarning
    <3>. QED
      BY <3>1, <3>2, <3>3, SendKeepsTypes
  <2>. QED
    BY <2>1, <2>2
<1>5. CASE FlushLock
  BY <1>5 DEF FlushLock, TypeOK, Placed, connVars, bootVars, sendVars, netVars, Pending
<1>6. CASE FlushOne
  <2> DEFINE e == Head(eventBuffer)
  <2>1. /\ eventBuffer # <<>> /\ eventBuffer \in Seq(AllEvents)
        /\ mu = "flush"
        /\ eventBuffer' = Tail(eventBuffer)
        /\ link' = Append(link, Frame(e, "flush"))
        /\ pendingAcks' = Track(pendingAcks, e)
        /\ justAdded' = justAdded \cup AckIdsOf(e)
        /\ UNCHANGED <<pc, connVars, mu, toResend, bootVars, rootDone, emitted, evicted, netVars>>
    BY <1>6 DEF FlushOne, FlushOneWith, TypeOK
  <2>2. /\ e \in AllEvents /\ Tail(eventBuffer) \in Seq(AllEvents)
        /\ Len(Tail(eventBuffer)) = Len(eventBuffer) - 1 /\ Len(eventBuffer) \in Nat
    BY <2>1, TailElements
  <2> HIDE DEF e
  <2>3. link' \in Seq(Frames) /\ Len(link') = Len(link) + 1 /\ Len(link) \in Nat
    BY <2>1, <2>2, FrameTyped, WriteFrame DEF TypeOK
  <2>4. pendingAcks' \in PendingType /\ Pending \subseteq Pending'
    BY <2>1, <2>2, TrackStep, PendingGrows DEF TypeOK, PendingType
  <2>5. AckIdsOf(e) \in SUBSET AckIds
    BY <2>2, CriticalKinds DEF AckIdsOf
  <2>6. Len(eventBuffer') <= MaxEventBuffer /\ rcvd' \in 0..Len(link')
    BY <2>1, <2>2, <2>3 DEF TypeOK, netVars
  <2>7. TypeOK'
    BY <2>1, <2>2, <2>3, <2>4, <2>5, <2>6 DEF TypeOK, PendingType, connVars, bootVars, netVars
  <2>8. Placed'
    BY <2>1, <2>4 DEF TypeOK, Placed, connVars
  <2>. QED
    BY <2>7, <2>8
<1>7. CASE FlushEnd
  BY <1>7 DEF FlushEnd, TypeOK, Placed, connVars, bootVars, sendVars, netVars, Pending
<1>8. CASE ResendLock
  <2>1. ToResend \subseteq Pending /\ Pending \subseteq AckIds
    BY DEF ToResend, Pending
  <2>2. TypeOK'
    BY <1>8, <2>1 DEF ResendLock, TypeOK, connVars, bootVars, sendVars, netVars
  <2>3. Placed'
    BY <1>8, <2>1 DEF ResendLock, TypeOK, Placed, connVars, sendVars, Pending
  <2>. QED
    BY <2>2, <2>3
<1>9. ASSUME NEW id \in AckIds, ResendOne(id) PROVE TypeInv'
  <2>1. /\ link' = Append(link, Frame(pendingAcks[id], "resend"))
        /\ toResend' = toResend \ {id} /\ id \in toResend
        /\ UNCHANGED <<pc, connVars, mu, justAdded, bootVars, rootDone, eventBuffer, pendingAcks,
                       emitted, evicted, netVars>>
    BY <1>9 DEF ResendOne
  <2>2. pendingAcks[id] \in CriticalEvents
    BY <2>1 DEF Placed, Pending, TypeOK
  <2>3. pendingAcks[id] \in AllEvents
    BY <2>2 DEF CriticalEvents
  <2>4. link' \in Seq(Frames) /\ Len(link') = Len(link) + 1 /\ Len(link) \in Nat
    BY <2>1, <2>3, FrameTyped, WriteFrame DEF TypeOK
  <2>5. rcvd' \in 0..Len(link')
    BY <2>1, <2>4 DEF TypeOK, netVars
  <2>6. TypeOK'
    BY <2>1, <2>4, <2>5 DEF TypeOK, connVars, bootVars, netVars
  <2>7. Placed'
    BY <2>1 DEF TypeOK, Placed, connVars, Pending
  <2>. QED
    BY <2>6, <2>7
<1>10. CASE ResendEnd
  <2>1. TypeOK'
    BY <1>10 DEF ResendEnd, TypeOK, connVars, bootVars, sendVars, netVars
  <2>2. Placed'
    BY <1>10 DEF ResendEnd, TypeOK, Placed, connVars, sendVars
  <2>. QED
    BY <2>1, <2>2
<1>11. CASE ReadError \/ CloseNow \/ ClearConn \/ Exit \/ Shutdown \/ Break
  <2>1. TypeOK'
    <3>1. CASE ReadError
      BY <3>1 DEF ReadError, TypeOK, connVars, flushVars, bootVars, sendVars, netVars
    <3>2. CASE CloseNow
      BY <3>2 DEF CloseNow, TypeOK, connVars, flushVars, bootVars, sendVars
    <3>3. CASE ClearConn
      BY <3>3 DEF ClearConn, TypeOK, flushVars, bootVars, sendVars, netVars
    <3>4. CASE Exit
      BY <3>4 DEF Exit, TypeOK, connVars, flushVars, bootVars, sendVars, netVars
    <3>5. CASE Shutdown
      BY <3>5 DEF Shutdown, TypeOK, connVars, flushVars, bootVars, sendVars, netVars
    <3>6. CASE Break
      BY <3>6 DEF Break, TypeOK, bridgeVars, connVars, flushVars, bootVars, sendVars
    <3>. QED
      BY <1>11, <3>1, <3>2, <3>3, <3>4, <3>5, <3>6
  <2>2. Placed'
    BY <1>11 DEF ReadError, CloseNow, ClearConn, Exit, Shutdown, Break, TypeOK, Placed, bridgeVars,
                 connVars, flushVars, sendVars, Pending
  <2>. QED
    BY <2>1, <2>2
<1>12. ASSUME NEW id \in AckIds, AckReceived(id) PROVE TypeInv'
  <2>1. /\ pc = "reading" /\ mu = "free"
        /\ acks' = acks \ {id}
        /\ pendingAcks' = [pendingAcks EXCEPT ![id] = NoEvent]
        /\ acked' = acked \cup ({pendingAcks[id]} \ {NoEvent})
        /\ UNCHANGED <<bridgeVars, eventBuffer, link, emitted, evicted, up, rcvd, received,
                       duplicated>>
    BY <1>12 DEF AckReceived, AckReceivedWith
  <2>2. {pendingAcks[id]} \ {NoEvent} \subseteq CriticalEvents
    BY DEF TypeOK
  <2>3. pendingAcks' \in [AckIds -> CriticalEvents \cup {NoEvent}]
    BY <2>1 DEF TypeOK
  <2>4. TypeOK'
    BY <2>1, <2>2, <2>3 DEF TypeOK, bridgeVars, connVars, flushVars, bootVars
  <2>5. toResend = {} /\ UNCHANGED <<pc, conn, conns, mu, toResend>>
    BY <2>1 DEF Placed, bridgeVars, connVars, flushVars
  <2>6. Placed'
    BY <2>1, <2>5 DEF Placed
  <2>. QED
    BY <2>4, <2>6
<1>13. ASSUME NEW e \in Events, PromptSend(e) \/ InlineSend(e) PROVE TypeInv'
  <2>1. e \in AllEvents
    BY DEF AllEvents
  <2>2. SendEvent(e) /\ UNCHANGED <<pc, warnings, connVars, flushVars, bootFile, rootDone, netVars>>
    BY <1>13 DEF PromptSend, InlineSend, bridgeVars, bootVars
  <2>3. warnings' \in Seq(Range(BootWarnings))
    BY <2>2 DEF TypeOK
  <2>. QED
    BY <2>1, <2>2, <2>3, SendKeepsTypes
<1>14. CASE Receive
  <2>1. link[rcvd + 1] \in Frames
    BY <1>14 DEF Receive, TypeOK
  <2>2. link[rcvd + 1].ev \in AllEvents
    BY <2>1 DEF Frames
  <2>3. AckIdsOf(link[rcvd + 1].ev) \subseteq AckIds
    BY <2>2, CriticalKinds DEF AckIdsOf
  <2>4. rcvd' \in 0..Len(link') /\ acks' \in SUBSET AckIds
    BY <1>14, <2>3 DEF Receive, TypeOK, sendVars
  <2>5. received' \in SUBSET AllEvents /\ duplicated' \in SUBSET AllEvents
    BY <1>14, <2>2 DEF Receive, TypeOK
  <2>6. UNCHANGED <<bridgeVars, sendVars, up, acked>>
    BY <1>14 DEF Receive
  <2>7. TypeOK'
    BY <2>4, <2>5, <2>6 DEF TypeOK, bridgeVars, connVars, flushVars, bootVars, sendVars
  <2>8. Placed'
    BY <2>6 DEF Placed, bridgeVars, connVars, flushVars, sendVars, Pending
  <2>. QED
    BY <2>7, <2>8
<1>15. CASE UNCHANGED vars
  BY <1>15 DEF vars, TypeOK, Placed, bridgeVars, connVars, flushVars, bootVars, sendVars, netVars,
               Pending
<1>. QED
  BY <1>1, <1>2, <1>3, <1>4, <1>5, <1>6, <1>7, <1>8, <1>9, <1>10, <1>11, <1>12, <1>13, <1>14, <1>15
  DEF Next, ConnectStep

LEMMA TypeInit == Init => TypeInv
<1> SUFFICES ASSUME Init PROVE TypeInv
  OBVIOUS
<1>1. <<>> \in Seq(AllEvents) /\ <<>> \in Seq(Range(BootWarnings)) /\ <<>> \in Seq(Frames)
      /\ Len(<<>>) = 0
  OBVIOUS
<1>2. pendingAcks \in [AckIds -> CriticalEvents \cup {NoEvent}]
  BY DEF Init
<1>3. 0 \in 0..MaxConns /\ 0 <= MaxEventBuffer /\ 0 \in 0..0
  BY BoundsAssumption
<1>4. TypeOK
  BY <1>1, <1>2, <1>3 DEF Init, TypeOK
<1>5. Placed
  BY DEF Init, Placed
<1>. QED
  BY <1>4, <1>5 DEF TypeInv

\* The event path's variables keep their types and the buffer its limit.
THEOREM TypeCorrect == Spec => []TypeOK
<1>1. Spec => []TypeInv
  BY TypeInit, TypeStep, PTL DEF Spec
<1>2. TypeInv => TypeOK
  BY DEF TypeInv
<1>. QED
  BY <1>1, <1>2, PTL

---------------------------------------------------------------------------
(* The books: where an event may be. *)

\* A ready announcement is made once, that of the newest connection last.
Unannounced ==
    \A c \in 1..MaxConns : ReadyEvent(c) \in emitted =>
        c <= conns /\ (pc = "announce" => c # conns)

\* A boot warning is read from the file once and then sent once.
Unwarned ==
    /\ Distinct(warnings)
    /\ Range(warnings) \cap emitted = {}
    /\ bootFile => warnings = <<>> /\ Range(BootWarnings) \cap emitted = {}

\* Only what was handed to sendEvent is anywhere.
Known == Range(eventBuffer) \cup Sent \cup received \cup Held \cup acked \subseteq emitted

\* The entry of an id is an event with that id.
Keyed == \A id \in Pending : MakeAckID(pendingAcks[id]) = id

Books == Known /\ Keyed /\ BufferedIsUnsent /\ AckIsFinal
Ledger == TypeInv /\ Unannounced /\ Unwarned /\ Books

\* The elements of a typed sequence are typed.
LEMMA RangeTyped == ASSUME NEW S, NEW s \in Seq(S) PROVE Range(s) \subseteq S
BY DEF Range

\* Tracking adds at most the tracked event to those held.
LEMMA HeldTrack ==
    ASSUME pendingAcks \in PendingType, Keyed, NEW e \in AllEvents,
           pendingAcks' = Track(pendingAcks, e)
    PROVE  /\ Held' \subseteq Held \cup {e}
           /\ Critical(e) => e \in Held'
           /\ Keyed'
<1>1. /\ \A id \in AckIds :
            \/ pendingAcks'[id] = pendingAcks[id]
            \/ Critical(e) /\ id = MakeAckID(e) /\ pendingAcks'[id] = e
      /\ Critical(e) => pendingAcks'[MakeAckID(e)] = e
  BY TrackStep
<1>2. Held' \subseteq Held \cup {e}
  BY <1>1 DEF Held, Pending
<1>3. ASSUME Critical(e) PROVE e \in Held'
  <2>1. MakeAckID(e) \in AckIds /\ e # NoEvent
    BY <1>3, CriticalKinds
  <2>2. MakeAckID(e) \in Pending'
    BY <1>1, <1>3, <2>1 DEF Pending
  <2>. QED
    BY <1>1, <1>3, <2>2 DEF Held
<1>4. Keyed'
  BY <1>1 DEF Keyed, Pending
<1>. QED
  BY <1>2, <1>3, <1>4

\* The books survive a send of a new event.
LEMMA SendKeepsBooks ==
    ASSUME TypeInv, Books, NEW e \in AllEvents \ emitted, SendEvent(e),
           UNCHANGED <<received, acked>>
    PROVE  Books'
<1>1. emitted' = emitted \cup {e}
  BY SendStep DEF TypeInv
<1>2. e \notin Range(eventBuffer) \cup Sent \cup received \cup Held \cup acked
  BY DEF Books, Known
<1>3. /\ eventBuffer \in Seq(AllEvents) /\ Len(eventBuffer) <= MaxEventBuffer
      /\ pendingAcks \in PendingType
  BY DEF TypeInv, TypeOK, PendingType
<1>4. CASE /\ Sent' = Sent \cup {e}
           /\ pendingAcks' = Track(pendingAcks, e)
           /\ UNCHANGED <<eventBuffer, evicted>>
  <2>1. Held' \subseteq Held \cup {e} /\ Keyed'
    BY <1>3, <1>4, HeldTrack DEF Books
  <2>2. Range(eventBuffer') = Range(eventBuffer)
    BY <1>4
  <2>3. Known'
    BY <1>1, <1>4, <2>1, <2>2 DEF Books, Known
  <2>4. BufferedIsUnsent'
    BY <1>2, <1>4, <2>1, <2>2 DEF Books, BufferedIsUnsent
  <2>5. AckIsFinal'
    BY <1>2, <2>1, <2>2 DEF Books, AckIsFinal
  <2>. QED
    BY <2>1, <2>3, <2>4, <2>5 DEF Books
<1>5. CASE /\ UNCHANGED <<link, pendingAcks>>
           /\ eventBuffer' = BufferEvent(eventBuffer, e)
  <2>1. Sent' = Sent /\ Held' = Held /\ Keyed'
    BY <1>5 DEF Sent, Held, Pending, Books, Keyed
  <2>2. /\ Range(eventBuffer') \subseteq Range(eventBuffer) \cup {e}
        /\ Distinct(eventBuffer) /\ e \notin Range(eventBuffer) => Distinct(eventBuffer')
    BY <1>3, <1>5, BufferStep
  <2>3. Known'
    BY <1>1, <2>1, <2>2 DEF Books, Known
  <2>4. BufferedIsUnsent'
    <3>1. Distinct(eventBuffer')
      BY <1>2, <2>2 DEF Books, BufferedIsUnsent, Distinct
    <3>2. Range(eventBuffer') \cap (Sent' \cup received' \cup Held') = {}
      BY <1>2, <2>1, <2>2 DEF Books, BufferedIsUnsent
    <3>. QED
      BY <3>1, <3>2 DEF BufferedIsUnsent, Distinct
  <2>5. AckIsFinal'
    BY <1>2, <2>1, <2>2 DEF Books, AckIsFinal
  <2>. QED
    BY <2>1, <2>3, <2>4, <2>5 DEF Books
<1>. QED
  BY <1>4, <1>5, SendStep DEF TypeInv

\* They survive every step that moves no event.
LEMMA StillBooks ==
    ASSUME Books, UNCHANGED <<sendVars, received, acked>> PROVE Books'
BY DEF Books, Known, Keyed, BufferedIsUnsent, AckIsFinal, sendVars, Sent, Held, Pending

\* Ledger is inductive.
LEMMA LedgerStep == Ledger /\ [Next]_vars => Ledger'
<1> SUFFICES ASSUME Ledger, [Next]_vars PROVE Ledger'
  OBVIOUS
<1>0. TypeInv /\ TypeInv' /\ TypeOK /\ Placed
  BY TypeStep DEF Ledger, TypeInv
<1>1. CASE Dial
  <2>1. /\ pc' = "announce" /\ conns' = conns + 1 /\ conns \in Nat /\ link' = <<>>
        /\ UNCHANGED <<bootVars, eventBuffer, pendingAcks, emitted, received, acked>>
    BY <1>0, <1>1 DEF Dial, TypeOK
  <2>2. Sent' = {} /\ Held' = Held
    BY <2>1 DEF Sent, Held, Pending
  <2>3. Books'
    BY <2>1, <2>2 DEF Ledger, Books, Known, Keyed, BufferedIsUnsent, AckIsFinal, Pending
  <2>4. Unannounced'
    BY <2>1 DEF Ledger, Unannounced
  <2>5. Unwarned'
    BY <2>1 DEF Ledger, Unwarned, bootVars, Distinct
  <2>. QED
    BY <1>0, <2>3, <2>4, <2>5 DEF Ledger
<1>2. CASE Announce
  <2>1. /\ conn = conns /\ conns \in 1..MaxConns /\ pc = "announce"
        /\ ReadyEvent(conn) \in AllEvents
    BY <1>0, <1>2 DEF Announce, Placed, TypeOK, AllEvents
  <2>2. /\ SendEvent(ReadyEvent(conns)) /\ pc' = "boot"
        /\ UNCHANGED <<conns, bootVars, received, acked>>
    BY <1>2, <2>1 DEF Announce, connVars, netVars
  <2>3. ReadyEvent(conns) \notin emitted
    BY <2>1 DEF Ledger, Unannounced
  <2>4. Books'
    BY <1>0, <2>1, <2>2, <2>3, SendKeepsBooks DEF Ledger
  <2>5. emitted' = emitted \cup {ReadyEvent(conns)}
    BY <1>0, <2>1, <2>2, SendStep
  <2>6. Unannounced'
    <3> SUFFICES ASSUME NEW c \in 1..MaxConns, ReadyEvent(c) \in emitted' PROVE c <= conns
      BY <2>2 DEF Unannounced
    <3>1. CASE ReadyEvent(c) \in emitted
      BY <3>1 DEF Ledger, Unannounced
    <3>2. CASE ReadyEvent(c) = ReadyEvent(conns)
      <4>1. c = conns
        BY ONLY <3>2, Kinds
      <4>. QED
        BY <2>1, <4>1
    <3>. QED
      BY <2>5, <3>1, <3>2
  <2>7. Unwarned'
    <3>1. ReadyEvent(conns) \notin Range(BootWarnings)
      BY CriticalKinds
    <3>2. Range(warnings) \subseteq Range(BootWarnings)
      BY <1>0, RangeTyped DEF TypeOK
    <3>. QED
      BY <2>2, <2>5, <3>1, <3>2 DEF Ledger, Unwarned, bootVars, Distinct
  <2>. QED
    BY <1>0, <2>4, <2>6, <2>7 DEF Ledger
<1>3. CASE DrainBootWarnings
  <2>1. /\ pc' # "announce" /\ UNCHANGED <<conns, sendVars, received, acked, emitted>>
        /\ \/ bootFile /\ ~bootFile' /\ warnings' = BootWarnings
           \/ UNCHANGED bootVars
    BY <1>3 DEF DrainBootWarnings, connVars, sendVars, netVars
  <2>2. Books'
    BY <2>1, StillBooks DEF Ledger
  <2>3. Unannounced'
    BY <2>1 DEF Ledger, Unannounced
  <2>4. Unwarned'
    <3>1. CASE bootFile /\ ~bootFile' /\ warnings' = BootWarnings
      BY <2>1, <3>1, Kinds DEF Ledger, Unwarned
    <3>2. CASE UNCHANGED bootVars
      BY <2>1, <3>2 DEF Ledger, Unwarned, bootVars, Distinct
    <3>. QED
      BY <2>1, <3>1, <3>2
  <2>. QED
    BY <1>0, <2>2, <2>3, <2>4 DEF Ledger
<1>4. CASE SendWarning
  <2>1. CASE warnings = <<>>
    <3>1. /\ pc' = "flush"
          /\ UNCHANGED <<conns, bootVars, sendVars, received, acked, emitted>>
      BY <1>4, <2>1 DEF SendWarning, connVars, bootVars, sendVars, netVars
    <3>2. Books'
      BY <3>1, StillBooks DEF Ledger
    <3>3. Unannounced' /\ Unwarned'
      BY <3>1 DEF Ledger, Unannounced, Unwarned, bootVars, Distinct
    <3>. QED
      BY <1>0, <3>2, <3>3 DEF Ledger
  <2>2. CASE warnings # <<>>
    <3> DEFINE e == Head(warnings)
    <3>1. /\ SendEvent(e) /\ warnings' = Tail(warnings) /\ pc' = pc
          /\ UNCHANGED <<conns, bootFile, received, acked>>
      BY <1>4, <2>2 DEF SendWarning, connVars, netVars
    <3>2. /\ e \in Range(BootWarnings)
          /\ Range(warnings) = Range(Tail(warnings)) \cup {e}
          /\ Distinct(Tail(warnings)) /\ e \notin Range(Tail(warnings))
      BY <1>0, <2>2, TailElements DEF TypeOK, Ledger, Unwarned
    <3> HIDE DEF e
    <3>3. e \in AllEvents \ emitted
      BY <3>2 DEF AllEvents, Ledger, Unwarned
    <3>4. Books'
      BY <1>0, <3>1, <3>3, SendKeepsBooks DEF Ledger
    <3>5. emitted' = emitted \cup {e}
      BY <1>0, <3>1, <3>3, SendStep
    <3>6. Unannounced'
      <4>1. \A c : ReadyEvent(c) # e
        BY <3>2, CriticalKinds
      <4>. QED
        BY <3>1, <3>5, <4>1 DEF Ledger, Unannounced
    <3>7. Unwarned'
      BY <2>2, <3>1, <3>2, <3>5 DEF Ledger, Unwarned
    <3>. QED
      BY <1>0, <3>4, <3>6, <3>7 DEF Ledger
  <2>. QED
    BY <2>1, <2>2
<1>5. CASE FlushOne
  <2> DEFINE e == Head(eventBuffer)
  <2>1. /\ eventBuffer # <<>> /\ eventBuffer \in Seq(AllEvents) /\ pendingAcks \in PendingType
        /\ eventBuffer' = Tail(eventBuffer)
        /\ link' = Append(link, Frame(e, "flush")) /\ link \in Seq(Frames)
        /\ pendingAcks' = Track(pendingAcks, e)
        /\ UNCHANGED <<pc, conns, bootVars, emitted, received, acked>>
    BY <1>0, <1>5 DEF FlushOne, FlushOneWith, TypeOK, PendingType, connVars, netVars
  <2>2. /\ e \in AllEvents
        /\ Range(eventBuffer) = Range(eventBuffer') \cup {e}
        /\ Distinct(eventBuffer') /\ e \notin Range(eventBuffer')
    BY <2>1, TailElements DEF Ledger, Books, BufferedIsUnsent, Distinct
  <2> HIDE DEF e
  <2>3. Sent' = Sent \cup {e}
    BY <2>1, <2>2, FrameTyped, WriteFrame
  <2>4. Held' \subseteq Held \cup {e} /\ Keyed'
    BY <2>1, <2>2, HeldTrack DEF Ledger, Books
  <2>5. Known'
    BY <2>1, <2>2, <2>3, <2>4 DEF Ledger, Books, Known
  <2>6. BufferedIsUnsent'
    <3>1. Range(eventBuffer') \cap (Sent' \cup received' \cup Held') = {}
      BY <2>1, <2>2, <2>3, <2>4 DEF Ledger, Books, BufferedIsUnsent
    <3>. QED
      BY <2>2, <3>1 DEF BufferedIsUnsent, Distinct
  <2>7. AckIsFinal'
    BY <2>1, <2>2, <2>4 DEF Ledger, Books, AckIsFinal
  <2>8. Unannounced' /\ Unwarned'
    BY <2>1 DEF Ledger, Unannounced, Unwarned, bootVars, Distinct
  <2>. QED
    BY <1>0, <2>4, <2>5, <2>6, <2>7, <2>8 DEF Ledger, Books
<1>6. ASSUME NEW id \in AckIds, ResendOne(id) PROVE Ledger'
  <2> DEFINE e == pendingAcks[id]
  <2>1. /\ id \in Pending /\ e \in AllEvents
        /\ link' = Append(link, Frame(e, "resend")) /\ link \in Seq(Frames)
        /\ UNCHANGED <<pc, conns, bootVars, eventBuffer, pendingAcks, emitted, received, acked>>
    BY <1>0, <1>6 DEF ResendOne, TypeOK, Placed, Pending, CriticalEvents, connVars, netVars
  <2>2. e \in Held
    BY <2>1 DEF Held
  <2> HIDE DEF e
  <2>3. Sent' = Sent \cup {e}
    BY <2>1, FrameTyped, WriteFrame
  <2>4. Held' = Held /\ Keyed'
    BY <2>1 DEF Ledger, Books, Keyed, Held, Pending
  <2>5. Known' /\ BufferedIsUnsent' /\ AckIsFinal'
    BY <2>1, <2>2, <2>3, <2>4 DEF Ledger, Books, Known, BufferedIsUnsent, AckIsFinal
  <2>6. Unannounced' /\ Unwarned'
    BY <2>1 DEF Ledger, Unannounced, Unwarned, bootVars, Distinct
  <2>. QED
    BY <1>0, <2>4, <2>5, <2>6 DEF Ledger, Books
<1>7. ASSUME NEW id \in AckIds, AckReceived(id) PROVE Ledger'
  <2>1. /\ pendingAcks' = [pendingAcks EXCEPT ![id] = NoEvent]
        /\ acked' = acked \cup ({pendingAcks[id]} \ {NoEvent})
        /\ UNCHANGED <<pc, conns, bootVars, eventBuffer, link, emitted, received>>
        /\ pendingAcks \in PendingType
    BY <1>0, <1>7 DEF AckReceived, AckReceivedWith, bridgeVars, connVars, bootVars, TypeOK, PendingType
  <2>2. /\ Pending' = Pending \ {id} /\ Sent' = Sent
        /\ \A i \in Pending' : pendingAcks'[i] = pendingAcks[i]
    BY <2>1 DEF Pending, Sent, PendingType
  <2>3. Held' \subseteq Held /\ Keyed'
    BY <2>2 DEF Ledger, Books, Keyed, Held
  <2>4. \A x \in acked' \ acked : x \in Held /\ x \notin Held'
    <3> SUFFICES ASSUME pendingAcks[id] # NoEvent
                 PROVE  pendingAcks[id] \in Held /\ pendingAcks[id] \notin Held'
      BY <2>1
    <3>1. id \in Pending
      BY DEF Pending
    <3>2. pendingAcks[id] \in Held
      BY <3>1 DEF Held
    <3>3. \A i \in Pending' : pendingAcks'[i] # pendingAcks[id]
      BY <2>2, <3>1 DEF Ledger, Books, Keyed
    <3>4. pendingAcks[id] \notin Held'
      BY <3>3 DEF Held
    <3>. QED
      BY <3>2, <3>4
  <2>5. Known'
    BY <2>1, <2>2, <2>3, <2>4 DEF Ledger, Books, Known
  <2>6. BufferedIsUnsent'
    BY <2>1, <2>2, <2>3 DEF Ledger, Books, BufferedIsUnsent
  <2>7. AckIsFinal'
    BY <2>1, <2>3, <2>4 DEF Ledger, Books, BufferedIsUnsent, AckIsFinal
  <2>8. Unannounced' /\ Unwarned'
    BY <2>1 DEF Ledger, Unannounced, Unwarned, bootVars, Distinct
  <2>. QED
    BY <1>0, <2>3, <2>5, <2>6, <2>7, <2>8 DEF Ledger, Books
<1>8. ASSUME NEW e \in Events, PromptSend(e) \/ InlineSend(e) PROVE Ledger'
  <2>1. e \in AllEvents \ emitted
    BY <1>8 DEF PromptSend, InlineSend, AllEvents
  <2>2. SendEvent(e) /\ UNCHANGED <<pc, conns, bootVars, received, acked>>
    BY <1>8 DEF PromptSend, InlineSend, bridgeVars, connVars, netVars
  <2>3. Books'
    BY <1>0, <2>1, <2>2, SendKeepsBooks DEF Ledger
  <2>4. emitted' = emitted \cup {e}
    BY <1>0, <2>1, <2>2, SendStep
  <2>5. e \notin Range(BootWarnings) /\ \A c : e # ReadyEvent(c)
    BY CriticalKinds
  <2>6. Unannounced'
    BY <2>2, <2>4, <2>5 DEF Ledger, Unannounced
  <2>7. Unwarned'
    <3>1. Range(warnings) \subseteq Range(BootWarnings)
      BY <1>0, RangeTyped DEF TypeOK
    <3>. QED
      BY <2>2, <2>4, <2>5, <3>1 DEF Ledger, Unwarned, bootVars, Distinct
  <2>. QED
    BY <1>0, <2>3, <2>6, <2>7 DEF Ledger
<1>9. CASE Receive
  <2>1. /\ rcvd + 1 \in DOMAIN link
        /\ received' = received \cup {link[rcvd + 1].ev}
        /\ UNCHANGED <<bridgeVars, sendVars, acked>>
    BY <1>0, <1>9 DEF Receive, TypeOK
  <2>2. link[rcvd + 1].ev \in Sent
    BY <2>1 DEF Sent
  <2>3. Sent' = Sent /\ Held' = Held /\ Keyed' /\ UNCHANGED <<eventBuffer, emitted>>
    BY <2>1 DEF sendVars, Sent, Held, Pending, Ledger, Books, Keyed
  <2>4. Known' /\ BufferedIsUnsent' /\ AckIsFinal'
    BY <2>1, <2>2, <2>3 DEF Ledger, Books, Known, BufferedIsUnsent, AckIsFinal
  <2>5. Unannounced' /\ Unwarned'
    BY <2>1, <2>3 DEF Ledger, Unannounced, Unwarned, bridgeVars, connVars, bootVars, Distinct
  <2>. QED
    BY <1>0, <2>3, <2>4, <2>5 DEF Ledger, Books
<1>10. CASE \/ FlushLock \/ FlushEnd \/ ResendLock \/ ResendEnd \/ ReadError \/ CloseNow
            \/ ClearConn \/ Exit \/ Shutdown \/ Break \/ UNCHANGED vars
  <2>1. /\ pc' = "announce" => pc = "announce"
        /\ UNCHANGED <<conns, bootVars, sendVars, received, acked>>
    BY <1>10 DEF FlushLock, FlushEnd, ResendLock, ResendEnd, ReadError, CloseNow, ClearConn, Exit,
                 Shutdown, Break, vars, bridgeVars, connVars, netVars
  <2>2. Books'
    BY <2>1, StillBooks DEF Ledger
  <2>3. Unannounced' /\ Unwarned'
    BY <2>1 DEF Ledger, Unannounced, Unwarned, bootVars, sendVars, Distinct
  <2>. QED
    BY <1>0, <2>2, <2>3 DEF Ledger
<1>. QED
  BY <1>1, <1>2, <1>3, <1>4, <1>5, <1>6, <1>7, <1>8, <1>9, <1>10 DEF Next, ConnectStep

LEMMA LedgerInit == Init => Ledger
<1> SUFFICES ASSUME Init PROVE Ledger
  OBVIOUS
<1>1. Range(<<>>) = {} /\ DOMAIN <<>> = {}
  BY DEF Range
<1>2. Sent = {}
  BY <1>1 DEF Init, Sent
<1>3. Pending = {} /\ Held = {}
  BY DEF Init, Pending, Held
<1>4. Books
  BY <1>1, <1>2, <1>3 DEF Init, Books, Known, Keyed, BufferedIsUnsent, AckIsFinal
<1>5. Unannounced /\ Unwarned
  BY <1>1 DEF Init, Unannounced, Unwarned, Distinct
<1>. QED
  BY <1>4, <1>5, TypeInit DEF Ledger

\* The events are always where Ledger says.
THEOREM LedgerCorrect == Spec => []Ledger
BY LedgerInit, LedgerStep, PTL DEF Spec

\* An event is buffered for its first write, or pending for its ack, or neither:
\* never in both places, and in none once its ack was handled.
THEOREM PlacesExclusive == Spec => []OneCopy
<1>1. Ledger => BufferedIsUnsent
  BY DEF Ledger, Books
<1>2. Ledger => AckIsFinal
  BY DEF Ledger, Books
<1>. QED
  BY <1>1, <1>2, LedgerCorrect, PTL DEF OneCopy

---------------------------------------------------------------------------
(* No critical event is lost. *)

\* An ack on its way back is for an event the control plane has read.
Confirmed == \A id \in acks : \E e \in received \cap CriticalEvents : MakeAckID(e) = id
Retained == Ledger /\ Confirmed /\ CriticalRetained

\* Where ids tell events apart, a new event displaces no other from the table.
LEMMA HeldKept ==
    ASSUME DistinctAckIds, TypeInv, Keyed, NEW e \in AllEvents,
           pendingAcks' = Track(pendingAcks, e)
    PROVE  Held \subseteq Held'
<1> SUFFICES ASSUME NEW id \in Pending PROVE pendingAcks[id] \in Held'
  BY DEF Held
<1>1. id \in AckIds /\ pendingAcks \in PendingType /\ pendingAcks[id] \in CriticalEvents
  BY DEF Pending, TypeInv, TypeOK, PendingType
<1>2. CASE pendingAcks'[id] = pendingAcks[id]
  <2>1. id \in Pending'
    BY <1>1, <1>2 DEF Pending
  <2>. QED
    BY <1>2, <2>1 DEF Held
<1>3. CASE Critical(e) /\ id = MakeAckID(e)
  <2>1. pendingAcks[id] = e
    BY <1>1, <1>3, CriticalKinds DEF Keyed, DistinctAckIds
  <2>2. e \in Held'
    BY <1>1, <1>3, HeldTrack
  <2>. QED
    BY <2>1, <2>2
<1>. QED
  BY <1>1, <1>2, <1>3, TrackStep

\* A send keeps every critical event, the new one included.
LEMMA SendRetains ==
    ASSUME DistinctAckIds, Ledger, CriticalRetained, NEW e \in AllEvents, SendEvent(e),
           UNCHANGED received
    PROVE  CriticalRetained'
<1>1. TypeInv /\ TypeOK /\ Keyed /\ emitted' = emitted \cup {e}
      /\ pendingAcks \in PendingType
  BY SendStep DEF Ledger, TypeInv, Books, TypeOK, PendingType
<1>2. CASE /\ pendingAcks' = Track(pendingAcks, e)
           /\ UNCHANGED <<eventBuffer, evicted>>
  <2>1. Held \subseteq Held' /\ (Critical(e) => e \in Held')
    BY <1>1, <1>2, HeldKept, HeldTrack
  <2>2. Critical(e) <=> e \in CriticalEvents
    BY CriticalKinds
  <2>. QED
    BY <1>1, <1>2, <2>1, <2>2 DEF CriticalRetained
<1>3. CASE /\ UNCHANGED <<link, pendingAcks>>
           /\ eventBuffer' = BufferEvent(eventBuffer, e)
           /\ evicted' = evicted \cup Evictions(eventBuffer)
  <2>1. /\ e \in Range(eventBuffer')
        /\ Range(eventBuffer) \cap CriticalEvents \subseteq Range(eventBuffer') \cup Evictions(eventBuffer)
    BY <1>1, <1>3, BufferStep DEF TypeOK
  <2>2. Held' = Held
    BY <1>3 DEF Held, Pending
  <2>. QED
    BY <1>1, <1>3, <2>1, <2>2 DEF CriticalRetained
<1>. QED
  BY <1>1, <1>2, <1>3, SendStep

\* Retained is inductive where ids tell events apart.
LEMMA RetainStep == DistinctAckIds /\ Retained /\ [Next]_vars => Retained'
<1> SUFFICES ASSUME DistinctAckIds, Retained, [Next]_vars PROVE Retained'
  OBVIOUS
<1>0. /\ Ledger /\ Ledger' /\ CriticalRetained /\ Confirmed
      /\ TypeInv /\ TypeOK /\ Placed /\ Keyed /\ pendingAcks \in PendingType
  BY LedgerStep DEF Retained, Ledger, TypeInv, TypeOK, PendingType, Books
<1>1. ASSUME NEW e \in AllEvents, SendEvent(e), UNCHANGED netVars PROVE Retained'
  <2>1. CriticalRetained'
    BY <1>0, <1>1, SendRetains DEF netVars
  <2>2. Confirmed'
    BY <1>0, <1>1 DEF Confirmed, netVars
  <2>. QED
    BY <1>0, <2>1, <2>2 DEF Retained
<1>2. ASSUME UNCHANGED <<eventBuffer, pendingAcks, emitted, evicted, received>>, acks' \subseteq acks
      PROVE  Retained'
  <2>1. Held' = Held
    BY <1>2 DEF Held, Pending
  <2>2. CriticalRetained' /\ Confirmed'
    BY <1>0, <1>2, <2>1 DEF CriticalRetained, Confirmed
  <2>. QED
    BY <1>0, <2>2 DEF Retained
<1>3. CASE Announce
  <2>1. ReadyEvent(conn) \in AllEvents
    BY <1>0, <1>3 DEF Announce, Placed, TypeOK, AllEvents
  <2>. QED
    BY <1>1, <1>3, <2>1 DEF Announce
<1>4. CASE SendWarning
  <2>1. CASE warnings = <<>>
    BY <1>2, <1>4, <2>1 DEF SendWarning, sendVars, netVars
  <2>2. CASE warnings # <<>>
    <3>1. Head(warnings) \in AllEvents
      BY <1>0, <2>2, TailElements DEF TypeOK, AllEvents
    <3>. QED
      BY <1>1, <1>4, <2>2, <3>1 DEF SendWarning
  <2>. QED
    BY <2>1, <2>2
<1>5. ASSUME NEW e \in Events, PromptSend(e) \/ InlineSend(e) PROVE Retained'
  BY <1>1, <1>5 DEF PromptSend, InlineSend, AllEvents
<1>6. CASE FlushOne
  <2> DEFINE e == Head(eventBuffer)
  <2>1. /\ eventBuffer # <<>> /\ eventBuffer \in Seq(AllEvents)
        /\ eventBuffer' = Tail(eventBuffer)
        /\ pendingAcks' = Track(pendingAcks, e)
        /\ UNCHANGED <<emitted, evicted, received, acks>>
    BY <1>0, <1>6 DEF FlushOne, FlushOneWith, TypeOK, netVars
  <2>2. /\ e \in AllEvents
        /\ Range(eventBuffer) = Range(eventBuffer') \cup {e}
    BY <2>1, TailElements
  <2> HIDE DEF e
  <2>3. Held \subseteq Held' /\ (Critical(e) => e \in Held') /\ (Critical(e) <=> e \in CriticalEvents)
    BY <1>0, <2>1, <2>2, HeldKept, HeldTrack, CriticalKinds
  <2>4. CriticalRetained' /\ Confirmed'
    BY <1>0, <2>1, <2>2, <2>3 DEF CriticalRetained, Confirmed
  <2>. QED
    BY <1>0, <2>4 DEF Retained
<1>7. ASSUME NEW id \in AckIds, AckReceived(id) PROVE Retained'
  <2>1. /\ id \in acks /\ acks' = acks \ {id}
        /\ pendingAcks' = [pendingAcks EXCEPT ![id] = NoEvent]
        /\ UNCHANGED <<eventBuffer, emitted, evicted, received>>
    BY <1>7 DEF AckReceived, AckReceivedWith
  <2>2. \A x \in Held : x \in Held' \/ x \in received
    <3> SUFFICES ASSUME NEW i \in Pending PROVE pendingAcks[i] \in Held' \/ pendingAcks[i] \in received
      BY DEF Held
    <3>1. CASE i # id
      <4>1. i \in Pending' /\ pendingAcks'[i] = pendingAcks[i]
        BY <1>0, <2>1, <3>1 DEF Pending, PendingType
      <4>. QED
        BY <4>1 DEF Held
    <3>2. CASE i = id
      <4>1. PICK e \in received \cap CriticalEvents : MakeAckID(e) = id
        BY <1>0, <2>1 DEF Confirmed
      <4>2. pendingAcks[i] \in CriticalEvents /\ MakeAckID(pendingAcks[i]) = id
        BY <1>0, <3>2 DEF Keyed, Pending, PendingType
      <4>. QED
        BY <4>1, <4>2 DEF DistinctAckIds
    <3>. QED
      BY <3>1, <3>2
  <2>3. CriticalRetained' /\ Confirmed'
    BY <1>0, <2>1, <2>2 DEF CriticalRetained, Confirmed
  <2>. QED
    BY <1>0, <2>3 DEF Retained
<1>8. CASE Receive
  <2> DEFINE e == link[rcvd + 1].ev
  <2>1. /\ received' = received \cup {e} /\ acks' \subseteq acks \cup AckIdsOf(e)
        /\ rcvd + 1 \in DOMAIN link
        /\ UNCHANGED <<eventBuffer, pendingAcks, emitted, evicted>>
    BY <1>0, <1>8 DEF Receive, TypeOK, sendVars
  <2>2. e \in AllEvents
    <3>1. link[rcvd + 1] \in Frames
      BY <1>0, <2>1 DEF TypeOK
    <3>. QED
      BY <3>1 DEF Frames
  <2> HIDE DEF e
  <2>3. AckIdsOf(e) = IF e \in CriticalEvents THEN {MakeAckID(e)} ELSE {}
    BY <2>2, CriticalKinds DEF AckIdsOf
  <2>4. Confirmed'
    BY <1>0, <2>1, <2>3 DEF Confirmed
  <2>5. Held' = Held
    BY <2>1 DEF Held, Pending
  <2>6. CriticalRetained'
    BY <1>0, <2>1, <2>5 DEF CriticalRetained
  <2>. QED
    BY <1>0, <2>4, <2>6 DEF Retained
<1>9. ASSUME NEW id \in AckIds, ResendOne(id) PROVE Retained'
  BY <1>2, <1>9 DEF ResendOne, netVars
<1>10. CASE \/ Dial \/ DrainBootWarnings \/ FlushLock \/ FlushEnd \/ ResendLock \/ ResendEnd
            \/ ReadError \/ CloseNow \/ ClearConn \/ Exit \/ Shutdown \/ Break \/ UNCHANGED vars
  <2>1. UNCHANGED <<eventBuffer, pendingAcks, emitted, evicted, received>> /\ acks' \subseteq acks
    BY <1>10 DEF Dial, DrainBootWarnings, FlushLock, FlushEnd, ResendLock, ResendEnd,
                 ReadError, CloseNow, ClearConn, Exit, Shutdown, Break, vars, sendVars, netVars
  <2>. QED
    BY <1>2, <2>1
<1>. QED
  BY <1>3, <1>4, <1>5, <1>6, <1>7, <1>8, <1>9, <1>10 DEF Next, ConnectStep

LEMMA RetainInit == Init => Retained
BY LedgerInit DEF Init, Retained, Confirmed, CriticalRetained

\* Where no two critical events of a run share an ack id, none is ever lost: it has
\* been read, or it is buffered or awaits its ack, or a full buffer gave it up.
THEOREM NothingCriticalLost == DistinctAckIds => (Spec => []CriticalRetained)
<1> SUFFICES ASSUME DistinctAckIds PROVE Spec => []CriticalRetained
  OBVIOUS
<1>1. Retained /\ [Next]_vars => Retained'
  BY RetainStep
<1>2. Retained => CriticalRetained
  BY DEF Retained
<1>. QED
  BY <1>1, <1>2, RetainInit, PTL DEF Spec

---------------------------------------------------------------------------
(* The event path implements the safety part of its promise. *)

\* What a full buffer gave up is nowhere any more.
EvictedGone ==
    /\ evicted \subseteq emitted
    /\ evicted \cap (Range(eventBuffer) \cup Sent \cup received \cup Held) = {}

\* A send offers the promise its event, at the cost of at most one undelivered one.
LEMMA SendOffers ==
    ASSUME Ledger, EvictedGone, NEW e \in AllEvents \ emitted, SendEvent(e),
           UNCHANGED <<received, acked, rootDone>>
    PROVE  EvictedGone' /\ Promise!Offer
<1>1. /\ TypeOK /\ TypeInv /\ Keyed /\ emitted' = emitted \cup {e}
      /\ eventBuffer \in Seq(AllEvents) /\ Len(eventBuffer) <= MaxEventBuffer
      /\ pendingAcks \in PendingType
  BY SendStep DEF Ledger, TypeInv, Books, TypeOK, PendingType
<1>2. e \notin evicted /\ e \notin Range(eventBuffer) \cup Sent \cup received \cup Held
  BY DEF EvictedGone, Ledger, Books, Known
<1>3. CASE /\ Sent' = Sent \cup {e}
           /\ pendingAcks' = Track(pendingAcks, e)
           /\ UNCHANGED <<eventBuffer, evicted>>
  <2>1. Held' \subseteq Held \cup {e}
    BY <1>1, <1>3, HeldTrack
  <2>2. Range(eventBuffer') = Range(eventBuffer)
    BY <1>3
  <2>3. EvictedGone'
    BY <1>1, <1>2, <1>3, <2>1, <2>2 DEF EvictedGone
  <2>4. Promise!Offer
    BY <1>1, <1>3 DEF Promise!Offer
  <2>. QED
    BY <2>3, <2>4
<1>4. CASE /\ UNCHANGED <<link, pendingAcks>>
           /\ eventBuffer' = BufferEvent(eventBuffer, e)
           /\ evicted' = evicted \cup Evictions(eventBuffer)
  <2>1. Sent' = Sent /\ Held' = Held
    BY <1>4 DEF Sent, Held, Pending
  <2>2. Distinct(eventBuffer)
    BY DEF Ledger, Books, BufferedIsUnsent, Distinct
  <2>3. /\ Range(eventBuffer') \subseteq Range(eventBuffer) \cup {e}
        /\ Evictions(eventBuffer) \subseteq Range(eventBuffer) \cap CriticalEvents
        /\ Evictions(eventBuffer) \cap Range(eventBuffer') = {}
        /\ \E d : Evictions(eventBuffer) \subseteq {d}
    BY <1>1, <1>2, <1>4, <2>2, BufferStep
  <2>4. Range(eventBuffer) \subseteq emitted /\ Range(eventBuffer) \cap (Sent \cup received \cup Held) = {}
    BY DEF Ledger, Books, Known, BufferedIsUnsent
  <2>5. EvictedGone'
    BY <1>1, <1>2, <1>4, <2>1, <2>3, <2>4 DEF EvictedGone
  <2>6. PICK d : Evictions(eventBuffer) \subseteq {d}
    BY <2>3
  <2>7. \/ evicted' = evicted
        \/ /\ evicted' = evicted \cup {d}
           /\ d \in (emitted \cap CriticalEvents) \ ((received \cap CriticalEvents) \cup evicted)
    BY <1>4, <2>3, <2>4, <2>6 DEF EvictedGone
  <2>8. \/ emitted' \cap CriticalEvents = emitted \cap CriticalEvents
        \/ /\ e \in CriticalEvents \ (emitted \cap CriticalEvents)
           /\ emitted' \cap CriticalEvents = (emitted \cap CriticalEvents) \cup {e}
    BY <1>1
  <2>9. Promise!Offer
    BY <2>7, <2>8 DEF Promise!Offer
  <2>. QED
    BY <2>5, <2>9
<1>. QED
  BY <1>1, <1>3, <1>4, SendStep

\* Every step is a step of the promise, or none.
LEMMA PromiseStep ==
    Ledger /\ EvictedGone /\ [Next]_vars => EvictedGone' /\ [Promise!Next]_(Promise!vars)
<1> SUFFICES ASSUME Ledger, EvictedGone, [Next]_vars
             PROVE  EvictedGone' /\ [Promise!Next]_(Promise!vars)
  OBVIOUS
<1>0. TypeOK /\ Placed /\ pendingAcks \in PendingType /\ Keyed
  BY DEF Ledger, TypeInv, TypeOK, PendingType, Books
<1>1. ASSUME NEW e \in AllEvents \ emitted, SendEvent(e), UNCHANGED <<rootDone, netVars>>
      PROVE  EvictedGone' /\ [Promise!Next]_(Promise!vars)
  BY <1>1, SendOffers DEF netVars, Promise!Next
<1>2. ASSUME UNCHANGED <<emitted, evicted, received, rootDone>>
      PROVE  [Promise!Next]_(Promise!vars)
  BY <1>2 DEF Promise!vars
<1>3. CASE Announce
  <2>1. conn = conns /\ conns \in 1..MaxConns /\ pc = "announce"
    BY <1>0, <1>3 DEF Announce, Placed, TypeOK
  <2>2. ReadyEvent(conn) \in AllEvents \ emitted
    BY <2>1 DEF AllEvents, Ledger, Unannounced
  <2>. QED
    BY <1>1, <1>3, <2>2 DEF Announce
<1>4. CASE SendWarning
  <2>1. CASE warnings = <<>>
    <3>1. UNCHANGED <<sendVars, netVars, rootDone>>
      BY <1>4, <2>1 DEF SendWarning
    <3>2. EvictedGone'
      BY <3>1 DEF EvictedGone, sendVars, netVars, Sent, Held, Pending
    <3>. QED
      BY <1>2, <3>1, <3>2 DEF sendVars, netVars
  <2>2. CASE warnings # <<>>
    <3>1. Head(warnings) \in Range(BootWarnings) /\ Head(warnings) \in Range(warnings)
      BY <1>0, <2>2, TailElements DEF TypeOK
    <3>2. Head(warnings) \in AllEvents \ emitted
      BY <3>1 DEF AllEvents, Ledger, Unwarned
    <3>. QED
      BY <1>1, <1>4, <2>2, <3>2 DEF SendWarning
  <2>. QED
    BY <2>1, <2>2
<1>5. ASSUME NEW e \in Events, PromptSend(e) \/ InlineSend(e)
      PROVE  EvictedGone' /\ [Promise!Next]_(Promise!vars)
  BY <1>1, <1>5 DEF PromptSend, InlineSend, AllEvents, bridgeVars
<1>6. CASE FlushOne
  <2> DEFINE e == Head(eventBuffer)
  <2>1. /\ eventBuffer # <<>> /\ eventBuffer \in Seq(AllEvents) /\ link \in Seq(Frames)
        /\ eventBuffer' = Tail(eventBuffer)
        /\ link' = Append(link, Frame(e, "flush"))
        /\ pendingAcks' = Track(pendingAcks, e)
        /\ UNCHANGED <<emitted, evicted, received, rootDone>>
    BY <1>0, <1>6 DEF FlushOne, FlushOneWith, TypeOK, netVars
  <2>2. /\ e \in AllEvents
        /\ Range(eventBuffer) = Range(eventBuffer') \cup {e}
    BY <2>1, TailElements
  <2> HIDE DEF e
  <2>3. Sent' = Sent \cup {e} /\ Held' \subseteq Held \cup {e}
    BY <1>0, <2>1, <2>2, FrameTyped, WriteFrame, HeldTrack
  <2>4. EvictedGone'
    BY <2>1, <2>2, <2>3 DEF EvictedGone
  <2>. QED
    BY <1>2, <2>1, <2>4
<1>7. ASSUME NEW id \in AckIds, ResendOne(id)
      PROVE  EvictedGone' /\ [Promise!Next]_(Promise!vars)
  <2>1. /\ pendingAcks[id] \in Held /\ pendingAcks[id] \in AllEvents
        /\ link' = Append(link, Frame(pendingAcks[id], "resend")) /\ link \in Seq(Frames)
        /\ UNCHANGED <<eventBuffer, pendingAcks, emitted, evicted, received, rootDone>>
    BY <1>0, <1>7 DEF ResendOne, TypeOK, Placed, Pending, Held, CriticalEvents, netVars
  <2>2. Sent' = Sent \cup {pendingAcks[id]} /\ Held' = Held
    BY <2>1, FrameTyped, WriteFrame DEF Held, Pending
  <2>3. EvictedGone'
    BY <2>1, <2>2 DEF EvictedGone
  <2>. QED
    BY <1>2, <2>1, <2>3
<1>8. ASSUME NEW id \in AckIds, AckReceived(id)
      PROVE  EvictedGone' /\ [Promise!Next]_(Promise!vars)
  <2>1. /\ pendingAcks' = [pendingAcks EXCEPT ![id] = NoEvent]
        /\ UNCHANGED <<eventBuffer, link, emitted, evicted, received, rootDone>>
    BY <1>8 DEF AckReceived, AckReceivedWith, bridgeVars
  <2>2. Sent' = Sent /\ Held' \subseteq Held
    BY <1>0, <2>1 DEF Sent, Held, Pending, PendingType
  <2>3. EvictedGone'
    BY <2>1, <2>2 DEF EvictedGone
  <2>. QED
    BY <1>2, <2>1, <2>3
<1>9. CASE Receive
  <2> DEFINE e == link[rcvd + 1].ev
  <2>1. /\ received' = received \cup {e} /\ rcvd + 1 \in DOMAIN link
        /\ UNCHANGED <<eventBuffer, pendingAcks, link, emitted, evicted, rootDone>>
    BY <1>0, <1>9 DEF Receive, TypeOK, sendVars, bridgeVars
  <2>2. e \in Sent
    BY <2>1 DEF Sent
  <2> HIDE DEF e
  <2>3. Sent' = Sent /\ Held' = Held
    BY <2>1 DEF Sent, Held, Pending
  <2>4. EvictedGone'
    BY <2>1, <2>2, <2>3 DEF EvictedGone
  <2>5. e \in emitted /\ e \notin evicted
    BY <2>2 DEF EvictedGone, Ledger, Books, Known
  <2>6. CASE e \in CriticalEvents
    <3>1. received' \cap CriticalEvents = (received \cap CriticalEvents) \cup {e}
      BY <2>1, <2>6
    <3>2. Promise!Deliver(e)
      BY <2>1, <2>5, <2>6, <3>1 DEF Promise!Deliver
    <3>. QED
      BY <2>4, <2>6, <3>2 DEF Promise!Next
  <2>7. CASE e \notin CriticalEvents
    <3>1. received' \cap CriticalEvents = received \cap CriticalEvents
      BY <2>1, <2>7
    <3>. QED
      BY <2>1, <2>4, <3>1 DEF Promise!vars
  <2>. QED
    BY <2>6, <2>7
<1>10. CASE Shutdown
  <2>1. rootDone' = TRUE /\ UNCHANGED <<sendVars, netVars>>
    BY <1>10 DEF Shutdown
  <2>2. EvictedGone'
    BY <2>1 DEF EvictedGone, sendVars, netVars, Sent, Held, Pending
  <2>3. Promise!Stop
    BY <2>1 DEF Promise!Stop, sendVars, netVars
  <2>. QED
    BY <2>2, <2>3 DEF Promise!Next
<1>11. CASE Dial
  <2>1. link' = <<>> /\ UNCHANGED <<eventBuffer, pendingAcks, emitted, evicted, received, rootDone>>
    BY <1>11 DEF Dial
  <2>2. Sent' = {} /\ Held' = Held
    BY <2>1 DEF Sent, Held, Pending
  <2>3. EvictedGone'
    BY <2>1, <2>2 DEF EvictedGone
  <2>. QED
    BY <1>2, <2>1, <2>3
<1>12. CASE \/ DrainBootWarnings \/ FlushLock \/ FlushEnd \/ ResendLock \/ ResendEnd
            \/ ReadError \/ CloseNow \/ ClearConn \/ Exit \/ Break \/ UNCHANGED vars
  <2>1. UNCHANGED <<eventBuffer, pendingAcks, link, emitted, evicted, received, rootDone>>
    BY <1>12 DEF DrainBootWarnings, FlushLock, FlushEnd, ResendLock, ResendEnd,
                 ReadError, CloseNow, ClearConn, Exit, Break, vars, bridgeVars, sendVars, netVars
  <2>2. EvictedGone'
    BY <2>1 DEF EvictedGone, Sent, Held, Pending
  <2>. QED
    BY <1>2, <2>1, <2>2
<1>. QED
  BY <1>3, <1>4, <1>5, <1>6, <1>7, <1>8, <1>9, <1>10, <1>11, <1>12 DEF Next, ConnectStep

LEMMA PromiseInit == Init => EvictedGone /\ Promise!Init
BY DEF Init, EvictedGone, Promise!Init

\* Seen through the history, the event path does only what AtLeastOnce allows: it
\* delivers what was accepted and not dropped, and an event handed over costs at
\* most one undelivered event its place.
THEOREM PromiseKept == Spec => Promise!Safety
<1>1. Init => Ledger /\ EvictedGone /\ Promise!Init
  BY LedgerInit, PromiseInit
<1>2. Ledger /\ EvictedGone /\ [Next]_vars =>
        Ledger' /\ EvictedGone' /\ [Promise!Next]_(Promise!vars)
  BY LedgerStep, PromiseStep
<1>. QED
  BY <1>1, <1>2, PTL DEF Spec, Promise!Safety

---------------------------------------------------------------------------
(* Replay: in which order, and what goes out twice. *)

\* While the goroutine is anywhere between its dial and clearConn, b.conn is the
\* newest connection.
Live == {"announce", "boot", "warn", "flush", "resend", "reading", "closing", "clearing"}
Attached == pc \in Live => conn = conns /\ conn # 0

\* On a live socket everything but the announcement itself follows it.
Announced ==
    pc \in {"boot", "warn", "flush", "resend", "reading"} /\ Writable => ReadyEvent(conns) \in Sent

\* The two loops run in turn, once each: before one took the lock none of the
\* frames is its own.
InTurn ==
    /\ pc \in {"announce", "boot", "warn"} \/ (pc = "flush" /\ mu = "free") =>
          \A i \in DOMAIN link : link[i].via # "flush"
    /\ pc \in {"announce", "boot", "warn", "flush"} \/ (pc = "resend" /\ mu = "free") =>
          \A i \in DOMAIN link : link[i].via # "resend"

\* Until the resend ends, justAdded has the id of every critical event that was flushed.
FlushedSkipped ==
    pc \in {"flush", "resend"} =>
        \A i \in DOMAIN link : link[i].via = "flush" => AckIdsOf(link[i].ev) \subseteq justAdded

\* What is still to be resent went out on this connection by a goroutine of its own,
\* or not at all.
StillToResend ==
    \A id \in toResend : \A i \in DOMAIN link :
        link[i].ev = pendingAcks[id] => link[i].via = "direct"

\* A non-critical event on the wire has not been read before.
UnreadIsNew ==
    \A i \in (rcvd + 1)..Len(link) : ~Critical(link[i].ev) => link[i].ev \notin received

Wire == Announced /\ InTurn /\ FlushedSkipped /\ StillToResend /\ UnreadIsNew
Replay == Ledger /\ Attached /\ Wire /\ ReplayInOrder

\* A frame goes to the end of those written.
LEMMA FrameLast ==
    ASSUME link \in Seq(Frames), NEW f \in Frames, link' = Append(link, f)
    PROVE  /\ Len(link) \in Nat /\ Len(link') = Len(link) + 1
           /\ DOMAIN link = 1..Len(link) /\ DOMAIN link' = 1..(Len(link) + 1)
           /\ \A i \in 1..Len(link) : link'[i] = link[i]
           /\ link'[Len(link) + 1] = f
BY AppendProperties

LEMMA AttachedStep == TypeInv /\ Attached /\ [Next]_vars => Attached'
<1> SUFFICES ASSUME TypeInv, Attached, [Next]_vars PROVE Attached'
  OBVIOUS
<1>1. CASE Dial
  BY <1>1, BoundsAssumption DEF Dial, Attached, TypeInv, TypeOK
<1>2. CASE ClearConn \/ Exit
  BY <1>2 DEF ClearConn, Exit, Attached, Live
<1>3. ASSUME pc \in Live \/ pc' = pc, UNCHANGED connVars PROVE Attached'
  BY <1>3 DEF Attached, connVars
<1>4. CASE Announce \/ DrainBootWarnings \/ SendWarning
  BY <1>3, <1>4 DEF Announce, DrainBootWarnings, SendWarning, Live
<1>5. CASE FlushLock \/ FlushOne \/ FlushEnd
  <2>1. pc \in Live \/ pc' = pc
    BY <1>5 DEF FlushLock, FlushOne, FlushOneWith, FlushEnd, Live, TypeInv, Placed
  <2>. QED
    BY <1>3, <1>5, <2>1 DEF FlushLock, FlushOne, FlushOneWith, FlushEnd
<1>6. CASE ResendLock \/ ResendEnd \/ ReadError \/ CloseNow
  <2>1. pc \in Live
    BY <1>6 DEF ResendLock, ResendEnd, ReadError, CloseNow, Live, TypeInv, Placed
  <2>. QED
    BY <1>3, <1>6, <2>1 DEF ResendLock, ResendEnd, ReadError, CloseNow
<1>7. ASSUME NEW id \in AckIds, ResendOne(id) \/ AckReceived(id) PROVE Attached'
  BY <1>3, <1>7 DEF ResendOne, AckReceived, AckReceivedWith, bridgeVars
<1>8. ASSUME NEW e \in Events, PromptSend(e) \/ InlineSend(e) PROVE Attached'
  BY <1>3, <1>8 DEF PromptSend, InlineSend, bridgeVars
<1>9. CASE Shutdown \/ Break \/ Receive \/ UNCHANGED vars
  BY <1>3, <1>9 DEF Shutdown, Break, Receive, vars, bridgeVars
<1>. QED
  BY <1>1, <1>2, <1>4, <1>5, <1>6, <1>7, <1>8, <1>9 DEF Next, ConnectStep

\* An event that a goroutine sends itself disturbs no order.
LEMMA SendKeepsReplay ==
    ASSUME Ledger, Attached, Wire, ReplayInOrder, NEW e \in AllEvents \ emitted, SendEvent(e),
           UNCHANGED <<connVars, flushVars, rootDone, netVars>>,
           \/ pc' = pc
           \/ pc = "announce" /\ pc' = "boot" /\ e = ReadyEvent(conns)
    PROVE  Wire' /\ ReplayInOrder'
<1>1. /\ mu = "free" /\ mu' = "free" /\ toResend = {} /\ toResend' = {} /\ justAdded' = justAdded
      /\ conns' = conns /\ rcvd' = rcvd /\ received' = received /\ duplicated' = duplicated
      /\ Writable' = Writable
  BY DEF SendEvent, SendEventWith, connVars, flushVars, netVars, Writable, Ledger, TypeInv, Placed
<1>2. CASE link' = Append(link, Frame(e, "direct"))
  <2> DEFINE f == Frame(e, "direct")
  <2>1. link \in Seq(Frames) /\ f \in Frames /\ f.ev = e /\ f.via = "direct" /\ rcvd \in 0..Len(link)
    BY FrameTyped DEF Frame, Ledger, TypeInv, TypeOK
  <2>2. e \notin Sent /\ e \notin received
    BY DEF Ledger, Books, Known
  <2> HIDE DEF f
  <2>3. /\ Len(link) \in Nat /\ Len(link') = Len(link) + 1
        /\ DOMAIN link = 1..Len(link) /\ DOMAIN link' = 1..(Len(link) + 1)
        /\ \A i \in 1..Len(link) : link'[i] = link[i]
        /\ link'[Len(link) + 1] = f
    BY <1>2, <2>1, FrameLast DEF f
  <2>4. Sent' = Sent \cup {e}
    BY <1>2, <2>1, WriteFrame DEF f
  <2>5. Announced'
    BY <1>1, <2>4 DEF Wire, Announced
  <2>6. InTurn'
    BY <1>1, <2>1, <2>3 DEF Wire, InTurn
  <2>7. FlushedSkipped'
    BY <1>1, <2>1, <2>3 DEF Wire, FlushedSkipped
  <2>8. StillToResend'
    BY <1>1 DEF StillToResend
  <2>9. UnreadIsNew'
    BY <1>1, <2>1, <2>2, <2>3 DEF Wire, UnreadIsNew
  <2>10. ReadyPrecedesReplay'
    BY <1>1, <2>1, <2>3 DEF ReplayInOrder, ReadyPrecedesReplay
  <2>11. DoubleSendOnlyByRace'
    <3>1. \A i \in 1..Len(link) : link[i].ev # e
      BY <2>2, <2>3 DEF Sent
    <3>. QED
      BY <2>1, <2>3, <3>1 DEF ReplayInOrder, DoubleSendOnlyByRace
  <2>12. OnlyCriticalDuplicated'
    BY <1>1 DEF ReplayInOrder, OnlyCriticalDuplicated
  <2>. QED
    BY <2>5, <2>6, <2>7, <2>8, <2>9, <2>10, <2>11, <2>12 DEF Wire, ReplayInOrder
<1>3. CASE link' = link /\ (conn = 0 \/ ~Writable)
  <2>1. Announced'
    BY <1>1, <1>3 DEF Wire, Announced, Attached, Live, Sent
  <2>2. InTurn' /\ FlushedSkipped' /\ StillToResend' /\ UnreadIsNew'
    BY <1>1, <1>3 DEF Wire, InTurn, FlushedSkipped, StillToResend, UnreadIsNew
  <2>3. ReplayInOrder'
    BY <1>1, <1>3 DEF ReplayInOrder, ReadyPrecedesReplay, OnlyCriticalDuplicated, DoubleSendOnlyByRace
  <2>. QED
    BY <2>1, <2>2, <2>3 DEF Wire
<1>. QED
  BY <1>2, <1>3 DEF SendEvent, SendEventWith

\* Replay is inductive.
LEMMA ReplayStep == Replay /\ [Next]_vars => Replay'
<1> SUFFICES ASSUME Replay, [Next]_vars PROVE Replay'
  OBVIOUS
<1>0. /\ Ledger /\ Ledger' /\ Attached /\ Attached' /\ Wire /\ ReplayInOrder
      /\ TypeOK /\ Placed /\ Keyed /\ link \in Seq(Frames) /\ rcvd \in 0..Len(link)
  BY LedgerStep, AttachedStep DEF Replay, Ledger, TypeInv, TypeOK, Books
<1> SUFFICES Wire' /\ ReplayInOrder'
  BY <1>0 DEF Replay
<1>1. CASE Dial
  <2>1. /\ link' = <<>> /\ pc' = "announce" /\ UNCHANGED <<mu, toResend, duplicated>> /\ mu = "free"
        /\ toResend = {}
    BY <1>0, <1>1 DEF Dial, flushVars, Placed, TypeOK
  <2>2. DOMAIN link' = {} /\ Len(link') = 0 /\ rcvd' = 0
    BY <1>1, <2>1 DEF Dial
  <2>3. Wire'
    BY <2>1, <2>2 DEF Wire, Announced, InTurn, FlushedSkipped, StillToResend, UnreadIsNew
  <2>4. ReplayInOrder'
    BY <1>0, <2>1, <2>2 DEF ReplayInOrder, ReadyPrecedesReplay, OnlyCriticalDuplicated, DoubleSendOnlyByRace
  <2>. QED
    BY <2>3, <2>4
<1>2. CASE Announce
  <2>1. conn = conns /\ conns \in 1..MaxConns /\ pc = "announce" /\ pc' = "boot"
    BY <1>0, <1>2 DEF Announce, Placed, TypeOK
  <2>2. ReadyEvent(conns) \in AllEvents \ emitted
    BY <1>0, <2>1 DEF AllEvents, Ledger, Unannounced
  <2>3. SendEvent(ReadyEvent(conns)) /\ UNCHANGED <<connVars, flushVars, rootDone, netVars>>
    BY <1>2, <2>1 DEF Announce
  <2>. QED
    BY <1>0, <2>1, <2>2, <2>3, SendKeepsReplay
<1>3. CASE SendWarning /\ warnings # <<>>
  <2>1. Head(warnings) \in Range(BootWarnings) /\ Head(warnings) \in Range(warnings)
    BY <1>0, <1>3, TailElements DEF TypeOK
  <2>2. Head(warnings) \in AllEvents \ emitted
    BY <1>0, <2>1 DEF AllEvents, Ledger, Unwarned
  <2>3. SendEvent(Head(warnings)) /\ pc' = pc /\ UNCHANGED <<connVars, flushVars, rootDone, netVars>>
    BY <1>3 DEF SendWarning
  <2>. QED
    BY <1>0, <2>2, <2>3, SendKeepsReplay
<1>4. ASSUME NEW e \in Events, PromptSend(e) \/ InlineSend(e) PROVE Wire' /\ ReplayInOrder'
  <2>1. e \in AllEvents \ emitted
    BY <1>4 DEF PromptSend, InlineSend, AllEvents
  <2>2. SendEvent(e) /\ pc' = pc /\ UNCHANGED <<connVars, flushVars, rootDone, netVars>>
    BY <1>4 DEF PromptSend, InlineSend, bridgeVars
  <2>. QED
    BY <1>0, <2>1, <2>2, SendKeepsReplay
<1>5. CASE FlushOne
  <2> DEFINE e == Head(eventBuffer)
             f == Frame(e, "flush")
  <2>1. /\ eventBuffer # <<>> /\ eventBuffer \in Seq(AllEvents) /\ mu = "flush" /\ pc = "flush"
        /\ Writable /\ Writable' = Writable /\ toResend = {}
        /\ link' = Append(link, f) /\ justAdded' = justAdded \cup AckIdsOf(e)
        /\ UNCHANGED <<pc, mu, toResend, conns, rcvd, received, duplicated>>
    BY <1>0, <1>5 DEF FlushOne, FlushOneWith, TypeOK, Placed, connVars, netVars, Writable
  <2>2. e \in AllEvents /\ e \in Range(eventBuffer)
    BY <2>1, TailElements
  <2>3. f \in Frames /\ f.ev = e /\ f.via = "flush"
    BY <2>2, FrameTyped DEF Frame
  <2>4. e \notin Sent /\ e \notin received
    BY <1>0, <2>2 DEF Ledger, Books, BufferedIsUnsent
  <2> HIDE DEF e, f
  <2>5. /\ Len(link) \in Nat /\ Len(link') = Len(link) + 1
        /\ DOMAIN link = 1..Len(link) /\ DOMAIN link' = 1..(Len(link) + 1)
        /\ \A i \in 1..Len(link) : link'[i] = link[i]
        /\ link'[Len(link) + 1] = f
    BY <1>0, <2>1, <2>3, FrameLast
  <2>6. Sent' = Sent \cup {e}
    BY <1>0, <2>1, <2>3, WriteFrame
  <2>7. Announced'
    BY <1>0, <2>1, <2>6 DEF Wire, Announced
  <2>8. InTurn'
    BY <1>0, <2>1, <2>3, <2>5 DEF Wire, InTurn
  <2>9. FlushedSkipped'
    BY <1>0, <2>1, <2>3, <2>5 DEF Wire, FlushedSkipped
  <2>10. StillToResend'
    BY <2>1 DEF StillToResend
  <2>11. UnreadIsNew'
    BY <1>0, <2>1, <2>3, <2>4, <2>5 DEF Wire, UnreadIsNew
  <2>12. ReadyPrecedesReplay'
    <3>1. PICK k \in 1..Len(link) : link[k].ev = ReadyEvent(conns)
      BY <1>0, <2>1, <2>5 DEF Wire, Announced, Sent
    <3>. QED
      BY <1>0, <2>1, <2>5, <3>1 DEF ReplayInOrder, ReadyPrecedesReplay
  <2>13. DoubleSendOnlyByRace'
    <3>1. \A i \in 1..Len(link) : link[i].ev # e
      BY <2>4, <2>5 DEF Sent
    <3>. QED
      BY <1>0, <2>3, <2>5, <3>1 DEF ReplayInOrder, DoubleSendOnlyByRace
  <2>14. OnlyCriticalDuplicated'
    BY <1>0, <2>1 DEF ReplayInOrder, OnlyCriticalDuplicated
  <2>. QED
    BY <2>7, <2>8, <2>9, <2>10, <2>11, <2>12, <2>13, <2>14 DEF Wire, ReplayInOrder
<1>6. ASSUME NEW id \in AckIds, ResendOne(id) PROVE Wire' /\ ReplayInOrder'
  <2> DEFINE e == pendingAcks[id]
             f == Frame(e, "resend")
  <2>1. /\ id \in toResend /\ id \in Pending /\ mu = "resend" /\ pc = "resend"
        /\ Writable /\ Writable' = Writable /\ toResend' = toResend \ {id}
        /\ link' = Append(link, f)
        /\ UNCHANGED <<pc, mu, justAdded, pendingAcks, conns, rcvd, received, duplicated>>
    BY <1>0, <1>6 DEF ResendOne, Placed, connVars, netVars, Writable
  <2>2. e \in CriticalEvents /\ e \in AllEvents
    BY <1>0, <2>1 DEF TypeOK, Pending, CriticalEvents
  <2>3. f \in Frames /\ f.ev = e /\ f.via = "resend" /\ Critical(e)
    BY <2>2, FrameTyped, CriticalKinds DEF Frame
  <2>4. \A i \in DOMAIN link : link[i].ev = e => link[i].via = "direct"
    BY <1>0, <2>1 DEF Wire, StillToResend
  <2>5. \A other \in toResend' : pendingAcks[other] # e
    BY <1>0, <2>1 DEF Keyed, Placed
  <2> HIDE DEF e, f
  <2>6. /\ Len(link) \in Nat /\ Len(link') = Len(link) + 1
        /\ DOMAIN link = 1..Len(link) /\ DOMAIN link' = 1..(Len(link) + 1)
        /\ \A i \in 1..Len(link) : link'[i] = link[i]
        /\ link'[Len(link) + 1] = f
    BY <1>0, <2>1, <2>3, FrameLast
  <2>7. Sent' = Sent \cup {e}
    BY <1>0, <2>1, <2>3, WriteFrame
  <2>8. Announced'
    BY <1>0, <2>1, <2>7 DEF Wire, Announced
  <2>9. InTurn'
    BY <2>1 DEF InTurn
  <2>10. FlushedSkipped'
    BY <1>0, <2>1, <2>3, <2>6 DEF Wire, FlushedSkipped
  <2>11. StillToResend'
    BY <1>0, <2>1, <2>3, <2>5, <2>6 DEF Wire, StillToResend
  <2>12. UnreadIsNew'
    BY <1>0, <2>1, <2>3, <2>6 DEF Wire, UnreadIsNew
  <2>13. ReadyPrecedesReplay'
    <3>1. PICK k \in 1..Len(link) : link[k].ev = ReadyEvent(conns)
      BY <1>0, <2>1, <2>6 DEF Wire, Announced, Sent
    <3>. QED
      BY <1>0, <2>1, <2>6, <3>1 DEF ReplayInOrder, ReadyPrecedesReplay
  <2>14. DoubleSendOnlyByRace'
    BY <1>0, <2>3, <2>4, <2>6 DEF ReplayInOrder, DoubleSendOnlyByRace
  <2>15. OnlyCriticalDuplicated'
    BY <1>0, <2>1 DEF ReplayInOrder, OnlyCriticalDuplicated
  <2>. QED
    BY <2>8, <2>9, <2>10, <2>11, <2>12, <2>13, <2>14, <2>15 DEF Wire, ReplayInOrder
<1>7. CASE Receive
  <2> DEFINE e == link[rcvd + 1].ev
  <2>1. /\ rcvd + 1 \in DOMAIN link /\ rcvd' = rcvd + 1
        /\ received' = received \cup {e} /\ duplicated' = duplicated \cup ({e} \cap received)
        /\ UNCHANGED <<pc, conns, mu, justAdded, toResend, link, pendingAcks>>
        /\ Writable' = Writable
    BY <1>0, <1>7 DEF Receive, TypeOK, bridgeVars, connVars, flushVars, sendVars, Writable
  <2>2. Announced' /\ InTurn' /\ FlushedSkipped' /\ StillToResend'
    BY <1>0, <2>1 DEF Wire, Announced, InTurn, FlushedSkipped, StillToResend, Sent
  <2>3. ReadyPrecedesReplay' /\ DoubleSendOnlyByRace'
    BY <1>0, <2>1 DEF ReplayInOrder, ReadyPrecedesReplay, DoubleSendOnlyByRace
  <2>4. OnlyCriticalDuplicated'
    <3>1. e \in received => Critical(e)
      BY <1>0, <2>1 DEF Wire, UnreadIsNew
    <3>. QED
      BY <1>0, <2>1, <3>1 DEF ReplayInOrder, OnlyCriticalDuplicated
  <2>5. UnreadIsNew'
    <3> SUFFICES ASSUME NEW i \in (rcvd + 2)..Len(link), ~Critical(link[i].ev)
                 PROVE  link[i].ev \notin received \cup {e}
      BY <1>0, <2>1 DEF UnreadIsNew
    <3>1. rcvd + 1 < i /\ i \in DOMAIN link /\ i \in (rcvd + 1)..Len(link)
      BY <1>0
    <3>2. link[i].ev # e
      BY <1>0, <2>1, <3>1 DEF ReplayInOrder, DoubleSendOnlyByRace
    <3>3. link[i].ev \notin received
      BY <1>0, <3>1 DEF Wire, UnreadIsNew
    <3>. QED
      BY <3>2, <3>3
  <2>. QED
    BY <2>2, <2>3, <2>4, <2>5 DEF Wire, ReplayInOrder
<1>8. ASSUME UNCHANGED <<link, conns, rcvd, received, duplicated>>, Writable' => Writable,
             Announced', InTurn', FlushedSkipped', StillToResend'
      PROVE  Wire' /\ ReplayInOrder'
  BY <1>0, <1>8 DEF Wire, UnreadIsNew, ReplayInOrder, ReadyPrecedesReplay, OnlyCriticalDuplicated,
                    DoubleSendOnlyByRace
<1>9. CASE ResendLock
  <2>1. /\ pc = "resend" /\ mu = "free" /\ mu' = "resend" /\ toResend' = ToResend
        /\ UNCHANGED <<pc, conns, justAdded, link, pendingAcks, rcvd, received, duplicated>>
        /\ Writable' = Writable
    BY <1>9 DEF ResendLock, connVars, sendVars, netVars, Writable
  <2>2. StillToResend'
    <3> SUFFICES ASSUME NEW id \in Pending \ justAdded, NEW i \in DOMAIN link,
                        link[i].ev = pendingAcks[id]
                 PROVE  link[i].via = "direct"
      BY <2>1 DEF StillToResend, ToResend
    <3>1. link[i].via # "resend"
      BY <1>0, <2>1 DEF Wire, InTurn
    <3>2. link[i].via # "flush"
      <4>1. MakeAckID(link[i].ev) = id
        BY <1>0 DEF Keyed
      <4>2. Critical(link[i].ev)
        BY <1>0 DEF TypeOK, Pending, CriticalEvents
      <4>. QED
        BY <1>0, <2>1, <4>1, <4>2 DEF Wire, FlushedSkipped, AckIdsOf
    <3>3. link[i] \in Frames
      BY <1>0
    <3>. QED
      BY <3>1, <3>2, <3>3 DEF Frames
  <2>3. Announced' /\ InTurn' /\ FlushedSkipped'
    BY <1>0, <2>1 DEF Wire, Announced, InTurn, FlushedSkipped, Sent
  <2>. QED
    BY <1>8, <2>1, <2>2, <2>3
<1>10. ASSUME NEW id \in AckIds, AckReceived(id) PROVE Wire' /\ ReplayInOrder'
  <2>1. /\ toResend = {} /\ UNCHANGED <<pc, mu, conns, justAdded, toResend, link, rcvd, received, duplicated>>
        /\ Writable' = Writable
    BY <1>0, <1>10 DEF AckReceived, AckReceivedWith, bridgeVars, connVars, flushVars, Placed, Writable
  <2>2. Announced' /\ InTurn' /\ FlushedSkipped' /\ StillToResend'
    BY <1>0, <2>1 DEF Wire, Announced, InTurn, FlushedSkipped, StillToResend, Sent
  <2>. QED
    BY <1>8, <2>1, <2>2
<1>11. CASE DrainBootWarnings \/ (SendWarning /\ warnings = <<>>) \/ FlushLock \/ FlushEnd \/ ResendEnd
  <2>1. /\ UNCHANGED <<conns, link, pendingAcks, rcvd, received, duplicated>>
        /\ Writable' = Writable
    BY <1>11 DEF DrainBootWarnings, SendWarning, FlushLock, FlushEnd, ResendEnd, connVars, sendVars,
                 netVars, Writable
  <2>2. Announced'
    BY <1>0, <1>11, <2>1 DEF DrainBootWarnings, SendWarning, FlushLock, FlushEnd, ResendEnd, Wire,
                             Announced, Sent, Placed
  <2>5. StillToResend'
    BY <1>0, <1>11, <2>1 DEF DrainBootWarnings, SendWarning, FlushLock, FlushEnd, ResendEnd, Wire,
                             StillToResend, flushVars
  <2>3. InTurn'
    BY <1>0, <1>11, <2>1 DEF DrainBootWarnings, SendWarning, FlushLock, FlushEnd, ResendEnd, Wire,
                             InTurn, flushVars, Placed
  <2>4. FlushedSkipped'
    BY <1>0, <1>11, <2>1 DEF DrainBootWarnings, SendWarning, FlushLock, FlushEnd, ResendEnd, Wire,
                             InTurn, FlushedSkipped, flushVars, Placed, TypeOK
  <2>. QED
    BY <1>8, <2>1, <2>2, <2>3, <2>4, <2>5
<1>12. CASE ReadError \/ CloseNow \/ ClearConn \/ Exit \/ Shutdown \/ Break \/ UNCHANGED vars
  <2>1. /\ UNCHANGED <<conns, mu, justAdded, toResend, link, pendingAcks, rcvd, received, duplicated>>
        /\ Writable' => Writable
        /\ pc' \in {pc, "closing", "clearing", "down", "exited"}
    BY <1>12 DEF ReadError, CloseNow, ClearConn, Exit, Shutdown, Break, vars, bridgeVars, connVars,
                 flushVars, sendVars, netVars, Writable
  <2>2. Announced' /\ InTurn' /\ FlushedSkipped' /\ StillToResend'
    BY <1>0, <2>1 DEF Wire, Announced, InTurn, FlushedSkipped, StillToResend, Sent
  <2>. QED
    BY <1>8, <2>1, <2>2
<1>. QED
  BY <1>1, <1>2, <1>3, <1>4, <1>5, <1>6, <1>7, <1>9, <1>10, <1>11, <1>12 DEF Next, ConnectStep

LEMMA ReplayInit == Init => Replay
<1> SUFFICES ASSUME Init PROVE Replay
  OBVIOUS
<1>1. DOMAIN link = {} /\ Len(link) = 0 /\ rcvd = 0 /\ pc = "down" /\ toResend = {} /\ duplicated = {}
  BY DEF Init
<1>2. Wire /\ Attached
  BY <1>1 DEF Wire, Attached, Live, Announced, InTurn, FlushedSkipped, StillToResend, UnreadIsNew
<1>3. ReplayInOrder
  BY <1>1 DEF ReplayInOrder, ReadyPrecedesReplay, OnlyCriticalDuplicated, DoubleSendOnlyByRace
<1>. QED
  BY <1>2, <1>3, LedgerInit DEF Replay

\* However often the bridge reconnects, the ready announcement comes before the
\* replay, only critical events reach the control plane twice, and an event goes out
\* twice on one connection only when a goroutine wrote it before the resend did.
\* Needs no assumption on the ack ids.
THEOREM ReplayedInOrder == Spec => []ReplayInOrder
<1>1. Replay => ReplayInOrder
  BY DEF Replay
<1>. QED
  BY <1>1, ReplayInit, ReplayStep, PTL DEF Spec

---------------------------------------------------------------------------
(* A live connection leaves nothing behind. *)

\* After the flush the buffer stays empty while the socket lives.
Emptied == pc \in {"resend", "reading"} /\ Writable => eventBuffer = <<>>

\* What the resend skips went out on this connection: an id in justAdded stands for
\* an event the flush wrote, or for a later one with the same id, written directly.
SkippedIsSent ==
    mu = "flush" \/ pc = "resend" => \A id \in justAdded \cap Pending : pendingAcks[id] \in Sent

\* Of the others, those not visited any more were written.
VisitedIsSent ==
    (mu = "resend" \/ pc = "reading") /\ Writable =>
        \A id \in Pending \ toResend : pendingAcks[id] \in Sent

Stock == Ledger /\ Attached /\ Emptied /\ SkippedIsSent /\ VisitedIsSent

\* A pending event that was written stays so when another is written and tracked.
LEMMA TrackedIsSent ==
    ASSUME pendingAcks \in PendingType, NEW e \in AllEvents,
           pendingAcks' = Track(pendingAcks, e), Sent' = Sent \cup {e},
           NEW id \in Pending', id \in Pending => pendingAcks[id] \in Sent
    PROVE  pendingAcks'[id] \in Sent'
<1>1. id \in AckIds
  BY DEF Pending
<1>2. CASE pendingAcks'[id] = pendingAcks[id]
  BY <1>1, <1>2 DEF Pending
<1>3. CASE pendingAcks'[id] = e
  BY <1>3
<1>. QED
  BY <1>1, <1>2, <1>3, TrackStep

LEMMA SendKeepsStock ==
    ASSUME Ledger, Attached, Emptied, SkippedIsSent, VisitedIsSent, NEW e \in AllEvents,
           SendEvent(e), UNCHANGED <<connVars, flushVars, rootDone, netVars>>,
           pc' \in {pc, "boot"}
    PROVE  Emptied' /\ SkippedIsSent' /\ VisitedIsSent'
<1>1. /\ mu = "free" /\ UNCHANGED <<mu, justAdded, toResend>> /\ Writable' = Writable
      /\ TypeOK /\ pendingAcks \in PendingType
  BY DEF SendEvent, SendEventWith, connVars, flushVars, netVars, Writable, Ledger, TypeInv, TypeOK,
         PendingType
<1>2. CASE /\ Sent' = Sent \cup {e}
           /\ pendingAcks' = Track(pendingAcks, e)
           /\ UNCHANGED eventBuffer
  <2>1. Emptied'
    BY <1>1, <1>2 DEF Emptied
  <2>2. SkippedIsSent'
    BY <1>1, <1>2, TrackedIsSent DEF SkippedIsSent
  <2>3. VisitedIsSent'
    BY <1>1, <1>2, TrackedIsSent DEF VisitedIsSent
  <2>. QED
    BY <2>1, <2>2, <2>3
<1>3. CASE UNCHANGED <<link, pendingAcks>> /\ (conn = 0 \/ ~Writable)
  <2>1. Emptied'
    BY <1>1, <1>3 DEF Emptied, Attached, Live
  <2>2. Sent' = Sent /\ Pending' = Pending
    BY <1>3 DEF Sent, Pending
  <2>3. SkippedIsSent' /\ VisitedIsSent'
    BY <1>1, <1>3, <2>2 DEF SkippedIsSent, VisitedIsSent
  <2>. QED
    BY <2>1, <2>3
<1>4. \/ /\ Sent' = Sent \cup {e}
         /\ pendingAcks' = Track(pendingAcks, e)
         /\ UNCHANGED eventBuffer
      \/ UNCHANGED <<link, pendingAcks>> /\ (conn = 0 \/ ~Writable)
  BY <1>1, FrameTyped, WriteFrame DEF SendEvent, SendEventWith, TypeOK
<1>. QED
  BY <1>2, <1>3, <1>4

\* Stock is inductive.
LEMMA StockStep == Stock /\ [Next]_vars => Stock'
<1> SUFFICES ASSUME Stock, [Next]_vars PROVE Stock'
  OBVIOUS
<1>0. /\ Ledger /\ Ledger' /\ Attached /\ Attached' /\ Emptied /\ SkippedIsSent /\ VisitedIsSent
      /\ TypeOK /\ Placed /\ Placed' /\ Keyed /\ link \in Seq(Frames) /\ pendingAcks \in PendingType
  BY LedgerStep, AttachedStep DEF Stock, Ledger, TypeInv, TypeOK, Books, PendingType
<1> SUFFICES Emptied' /\ SkippedIsSent' /\ VisitedIsSent'
  BY <1>0 DEF Stock
<1>1. CASE Announce
  <2>1. ReadyEvent(conn) \in AllEvents
    BY <1>0, <1>1 DEF Announce, Placed, TypeOK, AllEvents
  <2>2. /\ SendEvent(ReadyEvent(conn)) /\ pc' \in {pc, "boot"}
        /\ UNCHANGED <<connVars, flushVars, rootDone, netVars>>
    BY <1>1 DEF Announce
  <2>. QED
    BY <1>0, <2>1, <2>2, SendKeepsStock
<1>2. CASE SendWarning /\ warnings # <<>>
  <2>1. Head(warnings) \in AllEvents
    BY <1>0, <1>2, TailElements DEF TypeOK, AllEvents
  <2>2. /\ SendEvent(Head(warnings)) /\ pc' \in {pc, "boot"}
        /\ UNCHANGED <<connVars, flushVars, rootDone, netVars>>
    BY <1>2 DEF SendWarning
  <2>. QED
    BY <1>0, <2>1, <2>2, SendKeepsStock
<1>3. ASSUME NEW e \in Events, PromptSend(e) \/ InlineSend(e)
      PROVE  Emptied' /\ SkippedIsSent' /\ VisitedIsSent'
  <2>1. /\ SendEvent(e) /\ pc' \in {pc, "boot"} /\ e \in AllEvents
        /\ UNCHANGED <<connVars, flushVars, rootDone, netVars>>
    BY <1>3 DEF PromptSend, InlineSend, bridgeVars, AllEvents
  <2>. QED
    BY <1>0, <2>1, SendKeepsStock
<1>4. CASE FlushOne
  <2> DEFINE e == Head(eventBuffer)
  <2>1. /\ eventBuffer # <<>> /\ eventBuffer \in Seq(AllEvents)
        /\ mu = "flush" /\ mu' = mu /\ pc = "flush" /\ pc' = pc
        /\ link' = Append(link, Frame(e, "flush"))
        /\ pendingAcks' = Track(pendingAcks, e)
        /\ justAdded' = justAdded \cup AckIdsOf(e)
    BY <1>0, <1>4 DEF FlushOne, FlushOneWith, TypeOK, Placed
  <2>2. e \in AllEvents
    BY <2>1, TailElements
  <2> HIDE DEF e
  <2>3. Sent' = Sent \cup {e}
    BY <1>0, <2>1, <2>2, FrameTyped, WriteFrame
  <2>4. SkippedIsSent'
    <3> SUFFICES ASSUME NEW id \in justAdded' \cap Pending' PROVE pendingAcks'[id] \in Sent'
      BY DEF SkippedIsSent
    <3>1. CASE id \in justAdded
      BY <1>0, <2>1, <2>2, <2>3, <3>1, TrackedIsSent DEF SkippedIsSent
    <3>2. CASE id \in AckIdsOf(e)
      <4>1. Critical(e) /\ id = MakeAckID(e)
        BY <3>2 DEF AckIdsOf
      <4>. QED
        BY <1>0, <2>1, <2>2, <2>3, <4>1, TrackStep
    <3>. QED
      BY <2>1, <3>1, <3>2
  <2>5. Emptied' /\ VisitedIsSent'
    BY <2>1 DEF Emptied, VisitedIsSent
  <2>. QED
    BY <2>4, <2>5
<1>5. ASSUME NEW id \in AckIds, ResendOne(id) PROVE Emptied' /\ SkippedIsSent' /\ VisitedIsSent'
  <2>1. /\ id \in toResend /\ toResend' = toResend \ {id} /\ Writable' = Writable
        /\ link' = Append(link, Frame(pendingAcks[id], "resend"))
        /\ UNCHANGED <<pc, mu, justAdded, eventBuffer, pendingAcks>>
    BY <1>5 DEF ResendOne, netVars, Writable
  <2>2. pendingAcks[id] \in AllEvents
    BY <1>0, <2>1 DEF Placed, Pending, TypeOK, CriticalEvents
  <2>3. Sent' = Sent \cup {pendingAcks[id]} /\ Pending' = Pending
    BY <1>0, <2>1, <2>2, FrameTyped, WriteFrame DEF Pending
  <2>4. Emptied' /\ SkippedIsSent'
    BY <1>0, <2>1, <2>3 DEF Emptied, SkippedIsSent
  <2>5. VisitedIsSent'
    BY <1>0, <1>5, <2>1, <2>3 DEF VisitedIsSent, ResendOne
  <2>. QED
    BY <2>4, <2>5
<1>6. ASSUME NEW id \in AckIds, AckReceived(id) PROVE Emptied' /\ SkippedIsSent' /\ VisitedIsSent'
  <2>1. /\ pc = "reading" /\ mu = "free" /\ Writable' = Writable
        /\ pendingAcks' = [pendingAcks EXCEPT ![id] = NoEvent]
        /\ UNCHANGED <<pc, mu, eventBuffer, link, toResend>>
    BY <1>6 DEF AckReceived, AckReceivedWith, bridgeVars, flushVars, Writable
  <2>2. /\ Pending' \subseteq Pending /\ Sent' = Sent
        /\ \A i \in Pending' : pendingAcks'[i] = pendingAcks[i]
    BY <1>0, <2>1 DEF Pending, PendingType, Sent
  <2>3. Emptied' /\ SkippedIsSent'
    BY <1>0, <2>1 DEF Emptied, SkippedIsSent
  <2>4. VisitedIsSent'
    BY <1>0, <2>1, <2>2 DEF VisitedIsSent
  <2>. QED
    BY <2>3, <2>4
<1>7. ASSUME UNCHANGED <<eventBuffer, pendingAcks, link>>
      PROVE  Pending' = Pending /\ Sent' = Sent
  BY <1>7 DEF Pending, Sent
<1>8. CASE FlushLock \/ FlushEnd
  <2>1. /\ UNCHANGED <<eventBuffer, pendingAcks, link>> /\ Writable' = Writable
        /\ \/ mu' = "flush" /\ justAdded' = {} /\ pc' = "flush"
           \/ mu = "flush" /\ mu' = "free" /\ UNCHANGED justAdded /\ pc' = "resend" /\ FlushDone
    BY <1>8 DEF FlushLock, FlushEnd, sendVars, netVars, Writable
  <2>2. Emptied'
    BY <2>1 DEF Emptied, FlushDone
  <2>3. SkippedIsSent'
    BY <1>0, <1>7, <2>1 DEF SkippedIsSent
  <2>4. VisitedIsSent'
    BY <2>1 DEF VisitedIsSent
  <2>. QED
    BY <2>2, <2>3, <2>4
<1>9. CASE ResendLock \/ ResendEnd
  <2>1. /\ UNCHANGED <<eventBuffer, pendingAcks, link, justAdded>> /\ Writable' = Writable
        /\ pc = "resend"
        /\ \/ mu' = "resend" /\ toResend' = ToResend /\ pc' = "resend"
           \/ mu = "resend" /\ mu' = "free" /\ pc' = "reading" /\ toResend' = {}
              /\ (toResend = {} \/ ~Writable)
    BY <1>0, <1>9 DEF ResendLock, ResendEnd, sendVars, netVars, Writable, Placed
  <2>2. Emptied'
    BY <1>0, <2>1 DEF Emptied
  <2>3. SkippedIsSent'
    BY <1>0, <1>7, <2>1 DEF SkippedIsSent
  <2>4. VisitedIsSent'
    <3>1. CASE mu' = "resend" /\ toResend' = ToResend
      BY <1>0, <1>7, <2>1, <3>1 DEF VisitedIsSent, SkippedIsSent, ToResend
    <3>2. CASE mu = "resend" /\ toResend' = {} /\ (toResend = {} \/ ~Writable)
      BY <1>0, <1>7, <2>1, <3>2 DEF VisitedIsSent
    <3>. QED
      BY <2>1, <3>1, <3>2
  <2>. QED
    BY <2>2, <2>3, <2>4
<1>10. ASSUME UNCHANGED <<eventBuffer, pendingAcks>>, mu' = "free", pc' \notin {"resend", "reading"}
       PROVE  Emptied' /\ SkippedIsSent' /\ VisitedIsSent'
  BY <1>10 DEF Emptied, SkippedIsSent, VisitedIsSent
<1>11. CASE \/ Dial \/ DrainBootWarnings \/ (SendWarning /\ warnings = <<>>) \/ ReadError \/ CloseNow
            \/ ClearConn \/ Exit
  <2>1. UNCHANGED <<eventBuffer, pendingAcks>> /\ pc' \notin {"resend", "reading"}
    BY <1>11 DEF Dial, DrainBootWarnings, SendWarning, ReadError, CloseNow, ClearConn, Exit, sendVars
  <2>2. mu = "free"
    BY <1>0, <1>11 DEF Dial, DrainBootWarnings, SendWarning, ReadError, CloseNow, ClearConn, Exit,
                       Placed, TypeOK
  <2>3. mu' = mu
    BY <1>11 DEF Dial, DrainBootWarnings, SendWarning, ReadError, CloseNow, ClearConn, Exit, flushVars
  <2>. QED
    BY <1>10, <2>1, <2>2, <2>3
<1>12. CASE Shutdown \/ Break \/ Receive \/ UNCHANGED vars
  <2>1. /\ UNCHANGED <<pc, mu, justAdded, toResend, eventBuffer, pendingAcks, link>>
        /\ Writable' => Writable
    BY <1>12 DEF Shutdown, Break, Receive, vars, bridgeVars, flushVars, sendVars, netVars, Writable
  <2>. QED
    BY <1>0, <1>7, <2>1 DEF Emptied, SkippedIsSent, VisitedIsSent
<1>. QED
  BY <1>1, <1>2, <1>3, <1>4, <1>5, <1>6, <1>8, <1>9, <1>11, <1>12 DEF Next, ConnectStep

LEMMA StockInit == Init => Stock
BY LedgerInit DEF Init, Stock, Attached, Live, Emptied, SkippedIsSent, VisitedIsSent

\* While the read loop runs on a live socket the buffer is empty and whatever awaits
\* its ack was written on this connection: nothing waits for a reconnect that a
\* healthy connection would never bring.
THEOREM NothingLeftBehind == Spec => []NothingStranded
<1>1. Stock => NothingStranded
  <2> SUFFICES ASSUME Stock, pc = "reading", Writable
               PROVE  eventBuffer = <<>> /\ Held \subseteq Sent
    BY DEF NothingStranded
  <2>1. toResend = {}
    BY DEF Stock, Ledger, TypeInv, TypeOK, Placed
  <2>. QED
    BY <2>1 DEF Stock, Emptied, VisitedIsSent, Held
<1>. QED
  BY <1>1, StockInit, StockStep, PTL DEF Spec

---------------------------------------------------------------------------
(* What a full buffer gives up. *)

\* The victim is critical only where every event is, and then it is the oldest.
LEMMA EvictionStep ==
    ASSUME TypeOK, NEW e \in Evictions(eventBuffer)
    PROVE  /\ Len(eventBuffer) = MaxEventBuffer
           /\ e = Head(eventBuffer)
           /\ \A i \in DOMAIN eventBuffer : Critical(eventBuffer[i])
<1>1. /\ Full(eventBuffer) /\ e = eventBuffer[Victim(eventBuffer)] /\ Critical(e)
      /\ eventBuffer \in Seq(AllEvents) /\ Len(eventBuffer) <= MaxEventBuffer
  BY DEF Evictions, TypeOK, CriticalEvents
<1>2. Len(eventBuffer) = MaxEventBuffer /\ eventBuffer # <<>>
  BY <1>1, BoundsAssumption DEF Full
<1>3. IsVictim(eventBuffer, Victim(eventBuffer))
  BY <1>1, <1>2, VictimExists
<1>4. \A i \in DOMAIN eventBuffer : Critical(eventBuffer[i])
  BY <1>1, <1>3 DEF IsVictim
<1>5. Victim(eventBuffer) = 1
  BY <1>3, <1>4 DEF IsVictim
<1>. QED
  BY <1>1, <1>2, <1>4, <1>5

\* A critical event leaves the buffer unsent only when the buffer is full of
\* critical events, and then the oldest goes.
THEOREM EvictsCriticalLast == Spec => CriticalEvictedLast
<1> DEFINE Honest ==
       \A e \in evicted' \ evicted :
          /\ Len(eventBuffer) = MaxEventBuffer
          /\ e = Head(eventBuffer)
          /\ \A i \in DOMAIN eventBuffer : Critical(eventBuffer[i])
<1>1. TypeInv /\ [Next]_vars => [Honest]_vars
  <2> SUFFICES ASSUME TypeInv, [Next]_vars PROVE Honest
    OBVIOUS
  <2>1. ASSUME NEW e, SendEvent(e) PROVE Honest
    <3>1. evicted' = evicted \/ evicted' = evicted \cup Evictions(eventBuffer)
      BY <2>1 DEF SendEvent, SendEventWith
    <3>. QED
      BY <3>1, EvictionStep DEF TypeInv
  <2>2. ASSUME evicted' = evicted PROVE Honest
    BY <2>2
  <2> HIDE DEF Honest
  <2>3. CASE Announce
    BY <2>1, <2>3 DEF Announce
  <2>4. CASE SendWarning
    BY <2>1, <2>2, <2>4 DEF SendWarning, sendVars
  <2>5. ASSUME NEW e \in Events, PromptSend(e) \/ InlineSend(e) PROVE Honest
    BY <2>1, <2>5 DEF PromptSend, InlineSend
  <2>6. ASSUME NEW id \in AckIds, ResendOne(id) \/ AckReceived(id) PROVE Honest
    BY <2>2, <2>6 DEF ResendOne, AckReceived, AckReceivedWith
  <2>7. CASE \/ Dial \/ DrainBootWarnings \/ FlushLock \/ FlushOne \/ FlushEnd \/ ResendLock
             \/ ResendEnd \/ ReadError \/ CloseNow \/ ClearConn \/ Exit \/ Shutdown \/ Break
             \/ Receive \/ UNCHANGED vars
    BY <2>2, <2>7 DEF Dial, DrainBootWarnings, FlushLock, FlushOne, FlushOneWith, FlushEnd, ResendLock,
                      ResendEnd, ReadError, CloseNow, ClearConn, Exit, Shutdown, Break, Receive,
                      vars, sendVars
  <2>. QED
    BY <2>3, <2>4, <2>5, <2>6, <2>7 DEF Next, ConnectStep
<1>. QED
  BY <1>1, TypeInit, TypeStep, PTL DEF Spec, CriticalEvictedLast
=============================================================================
