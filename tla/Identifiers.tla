---------------------------- MODULE Identifiers ----------------------------
(***************************************************************************)
(* The ids of messages (internal/bridge/identifier.go): a clock in         *)
(* milliseconds and a counter within one, encoded into 48 bits.  The       *)
(* counter has twelve of them, is read under the lock and used outside it. *)
(* Both widths are constants here; the random suffix is left out, so ids   *)
(* that are equal stand for ids whose order is left to chance.             *)
(***************************************************************************)
EXTENDS Integers, Sequences, FiniteSets

CONSTANTS
    Callers,
    CounterSize,  \* 0x1000
    Range48,      \* 2^48: encoded values are below it
    StepsBack,    \* the wall clock may be set back
    StartTimes,   \* the clock at the start
    MaxTicks, MaxIds  \* bounds: ticks of the clock, ids

ConstantsOK ==
    /\ CounterSize \in Nat \ {0} /\ Range48 \in Nat \ {0}
    /\ StartTimes \subseteq Nat /\ {MaxTicks, MaxIds} \subseteq Nat

VARIABLES
    clock, ticks,
    lastTimestamp, counter,  \* of the generator
    held,   \* what a caller took under the lock and has not encoded yet
    minted  \* history: the ids in the order their counters were taken, with
            \* the encoded value once there is one

vars == <<clock, ticks, lastTimestamp, counter, held, minted>>

\* Under the lock.
NextCounter == IF clock # lastTimestamp THEN 1 ELSE counter + 1

Take(c) ==
    /\ held[c] = 0 /\ Len(minted) < MaxIds
    /\ counter' = NextCounter
    /\ lastTimestamp' = clock
    /\ minted' = Append(minted, [time |-> clock, counter |-> counter', id |-> -1])
    /\ held' = [held EXCEPT ![c] = Len(minted')]
    /\ UNCHANGED <<clock, ticks>>

\* Outside it; the caller's own time and counter.
Count_Shared(c) == counter
Count(c) == minted[held[c]].counter
Encode(c) ==
    /\ held[c] > 0
    /\ minted' = [minted EXCEPT ![held[c]].id =
                    (minted[held[c]].time * CounterSize + Count(c)) % Range48]
    /\ held' = [held EXCEPT ![c] = 0]
    /\ UNCHANGED <<clock, ticks, lastTimestamp, counter>>

\* The wall clock.
Tick ==
    /\ ticks < MaxTicks
    /\ clock' \in {clock + 1} \cup (IF StepsBack /\ clock > 0 THEN {clock - 1} ELSE {})
    /\ ticks' = ticks + 1
    /\ UNCHANGED <<lastTimestamp, counter, held, minted>>

Init ==
    /\ clock \in StartTimes /\ ticks = 0
    /\ lastTimestamp = 0 /\ counter = 0
    /\ held = [c \in Callers |-> 0] /\ minted = <<>>

Next == Tick \/ \E c \in Callers : Take(c) \/ Encode(c)

Spec == Init /\ [][Next]_vars

---------------------------------------------------------------------------
(* Properties. *)

Encoded == {i \in DOMAIN minted : minted[i].id # -1}

\* The counter counts the ids of its millisecond, and an id has its width.
TypeOK ==
    /\ ~StepsBack => counter = Cardinality({i \in DOMAIN minted : minted[i].time = lastTimestamp})
    /\ \A i \in Encoded : minted[i].id \in 0..(Range48 - 1)

\* "IDs increase monotonically only within a rollover window"
\* (identifier.go:35-37), in the order they were taken, whoever asks.
IncreasingInWindow ==
    TypeOK /\ \A i, j \in Encoded :
        LET Window(k) == (minted[k].time * CounterSize + minted[k].counter) \div Range48
        IN i < j /\ Window(i) = Window(j) => minted[i].id < minted[j].id
=============================================================================
