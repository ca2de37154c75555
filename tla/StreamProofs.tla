----------------------------- MODULE StreamProofs -----------------------------
(***************************************************************************)
(* Proofs about what a prompt's stream is made of: the stream itself       *)
(* (PromptStream), for any session, the ids of its messages (Identifiers,  *)
(* an instance here), for any callers and widths, and the output of child  *)
(* sessions (ChildActivity, the other instance), for any workload.         *)
(***************************************************************************)
EXTENDS StreamParts, FiniteSetTheorems, FunctionTheorems, SequenceTheorems, WellFoundedInduction, TLAPS

---------------------------------------------------------------------------
(* Ids. *)

\* An id before it is encoded, and where the code puts it.
Whole(i) == minted[i].time * CounterSize + minted[i].counter

Entries == [time : Nat, counter : Nat, id : Int]

\* The instance counts as this module does.
LEMMA SameCount ==
    ASSUME NEW S
    PROVE  I!Cardinality(S) = Cardinality(S)
BY DEF I!Cardinality, Cardinality

LEMMA InSeq ==
    ASSUME NEW S, NEW q \in Seq(S)
    PROVE  \A i \in 1..Len(q) : q[i] \in S
OBVIOUS

LEMMA EntryTypes ==
    ASSUME NEW q \in Seq(Entries)
    PROVE  \A i \in 1..Len(q) : q[i] \in Entries /\ q[i].time \in Nat /\ q[i].counter \in Nat
<1>1. \A i \in 1..Len(q) : q[i] \in Entries
  BY InSeq
<1>. QED
  BY <1>1 DEF Entries

\* The ids by their time and then their counter, as they were taken.
Ids ==
    /\ clock \in Nat /\ lastTimestamp \in Nat /\ counter \in Nat
    /\ lastTimestamp <= clock /\ Len(minted) <= MaxIds
    /\ counter <= Len(minted) /\ \A i \in 1..Len(minted) : minted[i].counter <= Len(minted)
    /\ minted \in Seq(Entries)
    /\ taken \in [Callers -> Nat] /\ \A c \in Callers : taken[c] <= Len(minted)

Later ==
    /\ \A i \in 1..Len(minted) : /\ minted[i].time <= lastTimestamp
                                 /\ minted[i].time = lastTimestamp => minted[i].counter <= counter
    /\ \A i, j \in 1..Len(minted) : i < j =>
          \/ minted[i].time < minted[j].time
          \/ minted[i].time = minted[j].time /\ minted[i].counter < minted[j].counter

OfTheMillisecond == counter = Cardinality({i \in 1..Len(minted) : minted[i].time = lastTimestamp})

Encoding == \A i \in 1..Len(minted) : minted[i].id \in {-1, Whole(i) % Range48}

IdInv == Ids /\ Later /\ OfTheMillisecond /\ Encoding

LEMMA IdInit == ASSUME I!ConstantsOK PROVE I!Init => IdInv
<1> SUFFICES ASSUME I!Init PROVE IdInv
  OBVIOUS
<1>1. Ids /\ Later /\ Encoding
  BY DEF I!Init, I!ConstantsOK, Ids, Later, Encoding
<1>2. {i \in 1..Len(minted) : minted[i].time = lastTimestamp} = {}
  BY DEF I!Init
<1>3. OfTheMillisecond
  BY <1>2, FS_EmptySet DEF I!Init, OfTheMillisecond
<1>. QED
  BY <1>1, <1>3 DEF IdInv

LEMMA IdTake ==
    ASSUME I!ConstantsOK, IdInv, NEW c \in Callers, I!Take(c)
    PROVE  IdInv'
<1> DEFINE m == [time |-> clock, counter |-> counter', id |-> -1]
           n == Len(minted)
<1>1. minted' = Append(minted, m) /\ n \in Nat /\ n < MaxIds
  BY DEF I!Take, IdInv, Ids
<1>2. counter' = (IF clock # lastTimestamp THEN 1 ELSE counter + 1) /\ counter' \in Nat
  BY DEF I!Take, I!NextCounter, IdInv, Ids
<1>3. m \in Entries
  BY <1>2 DEF IdInv, Ids, Entries
<1>4. minted \in Seq(Entries)
  BY DEF IdInv, Ids
<1>5. /\ minted' \in Seq(Entries) /\ Len(minted') = n + 1
      /\ \A i \in 1..n : minted'[i] = minted[i]
      /\ minted'[n + 1] = m
  BY <1>1, <1>3, <1>4
<1>11. \A i \in 1..n : minted[i].time \in Nat /\ minted[i].counter \in Nat
  BY <1>4, EntryTypes
<1>6. lastTimestamp' = clock /\ UNCHANGED clock /\ taken' = [taken EXCEPT ![c] = n + 1]
  BY <1>5 DEF I!Take
<1>7. Ids'
  <2>1. counter' <= n + 1 /\ \A i \in 1..(n + 1) : minted'[i].counter <= n + 1
    <3>1. counter' <= n + 1 /\ \A i \in 1..n : minted[i].counter <= n + 1
      BY <1>1, <1>2, <1>11 DEF IdInv, Ids
    <3>2. \A i \in 1..(n + 1) : i = n + 1 \/ i \in 1..n
      BY <1>1
    <3>. QED
      BY <1>5, <3>1, <3>2
  <2>2. \A c1 \in Callers : taken'[c1] \in Nat /\ taken'[c1] <= n + 1
    BY <1>1, <1>6 DEF IdInv, Ids
  <2>. QED
    BY <1>1, <1>2, <1>5, <1>6, <2>1, <2>2 DEF IdInv, Ids, I!ConstantsOK
<1>8. Later'
  <2>1. \A i \in 1..n : minted[i].time < clock \/ (minted[i].time = clock /\ minted[i].counter < counter')
    BY <1>2, <1>11 DEF IdInv, Ids, Later
  <2>2. \A i \in 1..(n + 1) : i = n + 1 \/ i \in 1..n
    BY <1>1
  <2>3. m.time = clock /\ m.counter = counter'
    OBVIOUS
  <2>4. \A i \in 1..(n + 1) : /\ minted'[i].time <= clock
                              /\ minted'[i].time = clock => minted'[i].counter <= counter'
    <3>1. clock \in Nat /\ clock <= clock /\ counter' <= counter'
      BY <1>2 DEF IdInv, Ids
    <3>2. \A i \in 1..n : /\ minted'[i].time <= clock
                          /\ minted'[i].time = clock => minted'[i].counter <= counter'
      BY <1>2, <1>5, <1>11, <2>1, <3>1
    <3>. QED
      BY <1>5, <2>2, <2>3, <3>1, <3>2
  <2>5. ASSUME NEW i \in 1..(n + 1), NEW j \in 1..(n + 1), i < j
        PROVE  \/ minted'[i].time < minted'[j].time
               \/ minted'[i].time = minted'[j].time /\ minted'[i].counter < minted'[j].counter
    <3>1. i \in 1..n
      BY <1>1, <2>5
    <3>2. CASE j \in 1..n
      <4>1. minted'[i] = minted[i] /\ minted'[j] = minted[j]
        BY <1>5, <3>1, <3>2
      <4>. QED
        BY <2>5, <3>1, <3>2, <4>1 DEF IdInv, Later
    <3>3. CASE j = n + 1
      BY <1>5, <2>1, <2>3, <3>1, <3>3
    <3>. QED
      BY <2>2, <3>2, <3>3
  <2>. QED
    BY <1>5, <1>6, <2>4, <2>5 DEF Later
<1>9. OfTheMillisecond'
  <2> DEFINE Old == {i \in 1..n : minted[i].time = clock}
             New == {i \in 1..(n + 1) : minted'[i].time = clock}
  <2>1. New = Old \cup {n + 1}
    BY <1>1, <1>5
  <2>2. IsFiniteSet(Old) /\ n + 1 \notin Old
    <3>1. IsFiniteSet(1..n) /\ Old \subseteq 1..n
      BY <1>1, FS_Interval
    <3>. QED
      BY <1>1, <3>1, FS_Subset
  <2>3. Cardinality(New) = Cardinality(Old) + 1
    BY <2>1, <2>2, FS_AddElement
  <2>4. CASE clock # lastTimestamp
    <3>1. Old = {}
      BY <1>11, <2>4 DEF IdInv, Ids, Later
    <3>. QED
      <4>1. Cardinality(Old) = 0
        BY <3>1, FS_EmptySet
      <4>. QED
        BY <1>2, <1>5, <1>6, <2>3, <2>4, <4>1 DEF OfTheMillisecond
  <2>5. CASE clock = lastTimestamp
    BY <1>2, <1>5, <1>6, <2>3, <2>5 DEF IdInv, OfTheMillisecond
  <2>. QED
    BY <2>4, <2>5
<1>10. Encoding'
  <2>1. \A i \in 1..n : minted'[i].id \in {-1, Whole(i)' % Range48}
    BY <1>5 DEF IdInv, Encoding, Whole
  <2>2. minted'[n + 1].id = -1
    BY <1>5
  <2>. QED
    BY <1>1, <1>5, <2>1, <2>2 DEF Encoding
<1>. QED
  BY <1>7, <1>8, <1>9, <1>10 DEF IdInv

LEMMA IdEncode ==
    ASSUME I!ConstantsOK, IdInv, NEW c \in Callers, I!Encode(c)
    PROVE  IdInv'
<1> DEFINE k == taken[c]
           n == Len(minted)
           x == Whole(k) % Range48
<1>1. n \in Nat /\ k \in 1..n
  BY DEF I!Encode, IdInv, Ids
<1>2. minted \in Seq(Entries)
  BY DEF IdInv, Ids
<1>3. x \in Int
  <2>1. minted[k].time \in Nat /\ minted[k].counter \in Nat
    BY <1>1, <1>2, EntryTypes
  <2>2. Whole(k) \in Nat
    BY <2>1 DEF Whole, I!ConstantsOK
  <2>. QED
    BY <2>2 DEF I!ConstantsOK
<1>4. minted' = [minted EXCEPT ![k].id = x]
  BY DEF I!Encode, I!Count, Whole
<1> HIDE DEF x
<1>5. /\ minted' \in Seq(Entries) /\ Len(minted') = n
      /\ \A i \in 1..n : /\ minted'[i].time = minted[i].time /\ minted'[i].counter = minted[i].counter
                         /\ minted'[i].id = IF i = k THEN x ELSE minted[i].id
  <2>1. \A i \in 1..n : minted[i] \in Entries
    BY <1>2, InSeq
  <2>2. minted' = [i \in 1..n |-> IF i = k THEN [minted[i] EXCEPT !.id = x] ELSE minted[i]]
    <3>1. minted' = [i \in DOMAIN minted |-> IF i = k THEN [minted[i] EXCEPT !.id = x] ELSE minted[i]]
      BY <1>4
    <3>2. DOMAIN minted = 1..n
      BY <1>2
    <3>. QED
      BY <3>1, <3>2
  <2>3. \A i \in 1..n : [minted[i] EXCEPT !.id = x] \in Entries
    BY <1>3, <2>1 DEF Entries
  <2>4. \A i \in 1..n : minted'[i] = IF i = k THEN [minted[i] EXCEPT !.id = x] ELSE minted[i]
    BY <2>2
  <2>5. minted' \in Seq(Entries) /\ Len(minted') = n
    BY <1>1, <2>1, <2>2, <2>3
  <2>. QED
    BY <2>1, <2>4, <2>5 DEF Entries
<1>6. UNCHANGED <<clock, lastTimestamp, counter>> /\ taken' = [taken EXCEPT ![c] = 0]
  BY DEF I!Encode
<1>7. Ids'
  BY <1>5, <1>6 DEF IdInv, Ids
<1>8. Later'
  BY <1>5, <1>6 DEF IdInv, Later
<1>9. OfTheMillisecond'
  <2>1. {i \in 1..n : minted'[i].time = lastTimestamp} = {i \in 1..n : minted[i].time = lastTimestamp}
    BY <1>5
  <2>. QED
    BY <1>5, <1>6, <2>1 DEF IdInv, OfTheMillisecond
<1>10. Encoding'
  <2>1. \A i \in 1..n : Whole(i)' = Whole(i)
    BY <1>5 DEF Whole
  <2>. QED
    BY <1>5, <2>1 DEF IdInv, Encoding, x
<1>. QED
  BY <1>7, <1>8, <1>9, <1>10 DEF IdInv

LEMMA IdKept ==
    ASSUME I!ConstantsOK, ~StepsBack
    PROVE  IdInv /\ [I!Next]_(I!vars) => IdInv'
<1> SUFFICES ASSUME IdInv, [I!Next]_(I!vars) PROVE IdInv'
  OBVIOUS
<1>1. ASSUME NEW c \in Callers, I!Take(c) PROVE IdInv'
  BY <1>1, IdTake
<1>2. ASSUME NEW c \in Callers, I!Encode(c) PROVE IdInv'
  BY <1>2, IdEncode
<1>3. CASE I!Tick
  BY <1>3 DEF I!Tick, IdInv, Ids, Later, OfTheMillisecond, Encoding, Whole
<1>4. CASE UNCHANGED I!vars
  BY <1>4 DEF I!vars, IdInv, Ids, Later, OfTheMillisecond, Encoding, Whole
<1>. QED
  BY <1>1, <1>2, <1>3, <1>4 DEF I!Next

\* Two numbers of one window keep their order.
LEMMA OrderInWindow ==
    ASSUME NEW a \in Nat, NEW b \in Nat, NEW r \in Nat \ {0}, a < b, a \div r = b \div r
    PROVE  a % r < b % r
<1>1. a = r * (a \div r) + (a % r) /\ b = r * (b \div r) + (b % r)
  OBVIOUS
<1>. QED
  BY <1>1

\* A later time, or a later counter that has not run over, is a larger number.
LEMMA OrderOfWhole ==
    ASSUME NEW t \in Nat, NEW u \in Nat, NEW c \in Nat, NEW d \in Nat, NEW n \in Nat \ {0},
           t < u \/ (t = u /\ c < d), c < n
    PROVE  t * n + c < u * n + d
<1>1. CASE t = u
  BY <1>1
<1>2. CASE t < u
  <2>1. u * n = t * n + (u - t) * n
    OBVIOUS
  <2>2. (u - t) * n >= n
    BY <1>2
  <2>. QED
    BY <2>1, <2>2
<1>. QED
  BY <1>1, <1>2

\* No millisecond has more ids than the counter's bits can count.
NotFull == \A i \in 1..Len(minted) : minted[i].counter < CounterSize

LEMMA NumbersOfIds ==
    ASSUME NEW a \in Nat, NEW b \in Nat, NEW c \in Nat
    PROVE  a * b + c \in Nat
OBVIOUS

LEMMA IdsIncrease ==
    ASSUME I!ConstantsOK, ~StepsBack, IdInv
    PROVE  NotFull => IncreasingInWindow
<1> SUFFICES ASSUME NotFull PROVE IncreasingInWindow
  OBVIOUS
<1>1. DOMAIN minted = 1..Len(minted) /\ Range48 \in Nat \ {0} /\ CounterSize \in Nat \ {0}
  BY DEF IdInv, Ids, I!ConstantsOK
<1>2. \A i \in 1..Len(minted) : minted[i].time \in Nat /\ minted[i].counter \in Nat /\ Whole(i) \in Nat
  <2>1. \A i \in 1..Len(minted) : minted[i].time \in Nat /\ minted[i].counter \in Nat
    BY EntryTypes DEF IdInv, Ids
  <2>2. CounterSize \in Nat
    BY <1>1
  <2>3. \A i \in 1..Len(minted) : Whole(i) \in Nat
    BY <2>1, <2>2, NumbersOfIds DEF Whole
  <2>. QED
    BY <2>1, <2>3
<1>3. \A i \in I!Encoded : i \in 1..Len(minted) /\ minted[i].id = Whole(i) % Range48
  BY <1>1 DEF I!Encoded, IdInv, Encoding
<1>4. I!TypeOK
  <2>1. \A i \in I!Encoded : minted[i].id \in 0..(Range48 - 1)
    BY <1>1, <1>2, <1>3
  <2>2. counter = Cardinality({i \in DOMAIN minted : minted[i].time = lastTimestamp})
    <3>1. {i \in DOMAIN minted : minted[i].time = lastTimestamp}
            = {i \in 1..Len(minted) : minted[i].time = lastTimestamp}
      BY <1>1
    <3>. QED
      BY <3>1 DEF IdInv, OfTheMillisecond
  <2>. QED
    BY <2>1, <2>2, SameCount DEF I!TypeOK
<1>5. ASSUME NEW i \in I!Encoded, NEW j \in I!Encoded, i < j,
             Whole(i) \div Range48 = Whole(j) \div Range48
      PROVE  minted[i].id < minted[j].id
  <2>1. Whole(i) < Whole(j)
    BY <1>1, <1>2, <1>3, <1>5, OrderOfWhole DEF IdInv, Later, Whole, NotFull
  <2>. QED
    BY <1>1, <1>2, <1>3, <1>5, <2>1, OrderInWindow
<1>. QED
  BY <1>4, <1>5 DEF IncreasingInWindow, I!IncreasingInWindow, Whole

\* While the clock is not set back, ids increase within a rollover window in the
\* order they were taken, whoever asks and whenever each is encoded, for as long as
\* no millisecond fills the counter; and with fewer ids than it counts, always.
THEOREM IdsIncreaseInWindow ==
    I!ConstantsOK /\ ~StepsBack =>
      /\ I!Spec => [](NotFull => IncreasingInWindow)
      /\ MaxIds < CounterSize => (I!Spec => []IncreasingInWindow)
<1> SUFFICES ASSUME I!ConstantsOK, ~StepsBack
             PROVE  /\ I!Spec => [](NotFull => IncreasingInWindow)
                    /\ MaxIds < CounterSize => (I!Spec => []IncreasingInWindow)
  OBVIOUS
<1>1. I!Init => IdInv
  BY IdInit
<1>2. IdInv /\ [I!Next]_(I!vars) => IdInv'
  BY IdKept
<1>3. IdInv => (NotFull => IncreasingInWindow)
  BY IdsIncrease
<1>4. I!Spec => [](NotFull => IncreasingInWindow)
  BY <1>1, <1>2, <1>3, PTL DEF I!Spec
<1>5. ASSUME MaxIds < CounterSize PROVE I!Spec => []IncreasingInWindow
  <2>1. IdInv => IncreasingInWindow
    <3>1. IdInv => NotFull
      <4> SUFFICES ASSUME IdInv, NEW i \in 1..Len(minted) PROVE minted[i].counter < CounterSize
        BY DEF NotFull
      <4>1. minted[i].counter \in Nat /\ minted[i].counter <= Len(minted) /\ Len(minted) <= MaxIds
        BY EntryTypes DEF IdInv, Ids
      <4>2. Len(minted) \in Nat /\ MaxIds \in Nat /\ CounterSize \in Nat
        BY DEF IdInv, Ids, I!ConstantsOK
      <4>. QED
        BY <1>5, <4>1, <4>2
    <3>. QED
      BY <1>3, <3>1
  <2>. QED
    BY <1>1, <1>2, <2>1, PTL DEF I!Spec
<1>. QED
  BY <1>4, <1>5

---------------------------------------------------------------------------
(* Texts: sequences of chunks. *)

\* A set of numbers that is not empty has a least one.
Least(S) == CHOOSE n \in S : \A k \in S : n <= k
LEMMA LeastExists ==
    ASSUME NEW S \in SUBSET Nat, S # {}
    PROVE  Least(S) \in S /\ \A k \in S : Least(S) <= k
<1>1. \E i \in S : \A j \in S : ~(<<j, i>> \in OpToRel(<, Nat))
  BY NatLessThanWellFounded, WFMin
<1>2. PICK i \in S : \A j \in S : ~(j < i)
  BY <1>1 DEF OpToRel
<1>3. \A j \in S : i <= j
  BY <1>2
<1>. QED
  BY <1>3 DEF Least

\* Some of the first n chunks, in their order.
Ascending(q, n) ==
    /\ q \in Seq(Nat) /\ \A i \in 1..Len(q) : q[i] \in 1..n
    /\ \A i, j \in 1..Len(q) : i < j => q[i] < q[j]

LEMMA TextIs ==
    ASSUME NEW n \in Nat
    PROVE  /\ Text(n) \in Seq(Nat) /\ Len(Text(n)) = n /\ \A i \in 1..n : Text(n)[i] = i
           /\ Ascending(Text(n), n)
<1>1. Text(n) \in Seq(Nat) /\ Len(Text(n)) = n /\ \A i \in 1..n : Text(n)[i] = i
  BY DEF Text
<1>. QED
  BY <1>1 DEF Ascending

\* The i-th is not before chunk i.
LEMMA NotBefore ==
    ASSUME NEW n \in Nat, NEW q, Ascending(q, n)
    PROVE  \A i \in 1..Len(q) : i <= q[i]
<1> DEFINE Bad == {i \in 1..Len(q) : ~(i <= q[i])}
<1> SUFFICES ASSUME Bad # {} PROVE FALSE
  OBVIOUS
<1>1. Len(q) \in Nat /\ \A i \in 1..Len(q) : q[i] \in Nat /\ q[i] >= 1
  BY DEF Ascending
<1>2. Bad \in SUBSET Nat
  BY <1>1
<1>3. PICK i \in Bad : \A k \in Bad : i <= k
  BY <1>2, LeastExists
<1>4. i \in 1..Len(q) /\ q[i] < i /\ i - 1 \in 1..Len(q)
  BY <1>1, <1>3
<1>5. i - 1 <= q[i - 1]
  BY <1>1, <1>3, <1>4
<1>6. q[i - 1] < q[i]
  <2>1. i - 1 < i
    BY <1>1, <1>4
  <2>2. \A j, k \in 1..Len(q) : j < k => q[j] < q[k]
    BY DEF Ascending
  <2>. QED
    BY <1>4, <2>1, <2>2
<1>. QED
  BY <1>1, <1>4, <1>5, <1>6

\* Nor after chunk i, counted from the end.
LEMMA NotAfter ==
    ASSUME NEW n \in Nat, NEW q, Ascending(q, n)
    PROVE  \A i \in 1..Len(q) : q[i] <= n - (Len(q) - i)
<1> DEFINE l == Len(q)
           Bad == {k \in 0..(l - 1) : ~(q[l - k] <= n - k)}
<1>1. l \in Nat /\ \A i \in 1..l : q[i] \in Nat /\ q[i] <= n
  BY DEF Ascending
<1> HIDE DEF l
<1>2. Bad = {}
  <2> SUFFICES ASSUME Bad # {} PROVE FALSE
    OBVIOUS
  <2>1. Bad \in SUBSET Nat
    BY <1>1
  <2>2. PICK k \in Bad : \A j \in Bad : k <= j
    BY <2>1, LeastExists
  <2>3. k \in 0..(l - 1) /\ q[l - k] > n - k /\ l - k \in 1..l
    BY <1>1, <2>2
  <2>4. k # 0
    BY <1>1, <2>3
  <2>5. k - 1 \in 0..(l - 1) /\ l - (k - 1) \in 1..l
    BY <1>1, <2>3, <2>4
  <2>6. q[l - (k - 1)] <= n - (k - 1)
    BY <2>2, <2>5
  <2>7. q[l - k] < q[l - (k - 1)]
    <3>1. l - k \in 1..Len(q) /\ l - (k - 1) \in 1..Len(q)
      BY <2>3, <2>5 DEF l
    <3>2. l - k < l - (k - 1)
      BY <1>1, <2>3
    <3>. QED
      BY <3>1, <3>2 DEF Ascending
  <2>. QED
    BY <1>1, <2>3, <2>5, <2>6, <2>7
<1>3. ASSUME NEW i \in 1..l PROVE q[i] <= n - (l - i)
  <2>1. l - i \in 0..(l - 1) /\ l - (l - i) = i
    BY <1>1
  <2>. QED
    BY <1>2, <2>1
<1>. QED
  BY <1>3 DEF l

\* No more than n, and n of them are all of them.
LEMMA AllOfThem ==
    ASSUME NEW n \in Nat, NEW q, Ascending(q, n)
    PROVE  Len(q) \in Nat /\ Len(q) <= n /\ (Len(q) = n => q = Text(n))
<1>1. q \in Seq(Nat) /\ Len(q) \in Nat
  BY DEF Ascending
<1>2. \A i \in 1..Len(q) : i <= q[i] /\ q[i] <= n - (Len(q) - i) /\ q[i] \in Nat /\ q[i] <= n
  BY NotBefore, NotAfter DEF Ascending
<1>3. Len(q) <= n
  <2>1. CASE Len(q) = 0
    BY <2>1
  <2>2. CASE Len(q) # 0
    <3>1. Len(q) \in 1..Len(q)
      BY <1>1, <2>2
    <3>. QED
      BY <1>1, <1>2, <3>1
  <2>. QED
    BY <2>1, <2>2
<1>4. ASSUME Len(q) = n PROVE q = Text(n)
  <2>1. \A i \in 1..n : q[i] = i
    <3>1. \A i \in 1..n : i <= q[i] /\ q[i] <= i /\ q[i] \in Nat
      BY <1>2, <1>4
    <3>. QED
      BY <3>1
  <2>2. Text(n) \in Seq(Nat) /\ Len(Text(n)) = n /\ \A i \in 1..n : Text(n)[i] = i
    BY TextIs
  <2>. QED
    BY <1>1, <1>4, <2>1, <2>2, SeqEqual
<1>. QED
  BY <1>1, <1>3, <1>4

LEMMA More ==
    ASSUME NEW n \in Nat, NEW k \in Nat, n <= k, NEW q, Ascending(q, n)
    PROVE  Ascending(q, k)
BY DEF Ascending

LEMMA NoneIsAscending == \A n \in Nat : Ascending(<<>>, n)
BY DEF Ascending

\* Chunks after c, up to b, in their order.
Following(q, c, b) ==
    /\ q \in Seq(Nat) /\ \A i \in 1..Len(q) : c < q[i] /\ q[i] <= b
    /\ \A i, j \in 1..Len(q) : i < j => q[i] < q[j]

\* One after the other.
LEMMA Joined ==
    ASSUME NEW c \in Nat, NEW b \in Nat, c <= b, NEW p, Ascending(p, c),
           NEW q, Following(q, c, b)
    PROVE  /\ Ascending(p \o q, b) /\ Len(p \o q) = Len(p) + Len(q)
           /\ p = Text(c) /\ (\A i \in 1..Len(q) : q[i] = c + i) => p \o q = Text(c + Len(q))
<1>1. /\ p \in Seq(Nat) /\ Len(p) \in Nat /\ q \in Seq(Nat) /\ Len(q) \in Nat
      /\ \A i \in 1..Len(q) : c < q[i] /\ q[i] <= b
      /\ \A i, j \in 1..Len(q) : i < j => q[i] < q[j]
  BY DEF Ascending, Following
<1>2. /\ p \o q \in Seq(Nat) /\ Len(p \o q) = Len(p) + Len(q)
      /\ \A i \in 1..(Len(p) + Len(q)) : (p \o q)[i] = IF i <= Len(p) THEN p[i] ELSE q[i - Len(p)]
  BY <1>1, ConcatProperties
<1> DEFINE r == p \o q
<1> HIDE DEF r
<1>3. r \in Seq(Nat) /\ Len(r) = Len(p) + Len(q)
  BY <1>2 DEF r
<1>4. \A i \in 1..(Len(p) + Len(q)) :
         \/ i \in 1..Len(p) /\ r[i] = p[i]
         \/ i - Len(p) \in 1..Len(q) /\ r[i] = q[i - Len(p)] /\ i > Len(p)
  BY <1>1, <1>2 DEF r
<1>5. \A i \in 1..Len(q) : q[i] \in Nat
  BY <1>1, InSeq
<1>6. \A i \in 1..Len(p) : p[i] \in 1..c
  BY DEF Ascending
<1>7. \A i \in 1..Len(r) : r[i] \in 1..b
  <2> SUFFICES ASSUME NEW i \in 1..Len(r) PROVE r[i] \in 1..b
    OBVIOUS
  <2>1. CASE i \in 1..Len(p) /\ r[i] = p[i]
    BY <1>6, <2>1
  <2>2. CASE i - Len(p) \in 1..Len(q) /\ r[i] = q[i - Len(p)]
    BY <1>1, <1>5, <2>2
  <2>. QED
    BY <1>3, <1>4, <2>1, <2>2
<1>8. ASSUME NEW i \in 1..Len(r), NEW j \in 1..Len(r), i < j PROVE r[i] < r[j]
  <2>1. CASE j \in 1..Len(p) /\ r[j] = p[j]
    <3>1. i \in 1..Len(p) /\ r[i] = p[i]
      <4>1. i \in 1..(Len(p) + Len(q)) /\ ~(i > Len(p))
        BY <1>1, <1>3, <1>8, <2>1
      <4>. QED
        BY <1>4, <4>1
    <3>. QED
      BY <1>8, <2>1, <3>1 DEF Ascending
  <2>2. CASE j - Len(p) \in 1..Len(q) /\ r[j] = q[j - Len(p)] /\ j > Len(p)
    <3>1. CASE i \in 1..Len(p) /\ r[i] = p[i]
      <4>1. p[i] \in Nat /\ p[i] <= c
        BY <1>6, <3>1
      <4>2. q[j - Len(p)] \in Nat /\ c < q[j - Len(p)]
        BY <1>1, <1>5, <2>2
      <4>. QED
        BY <2>2, <3>1, <4>1, <4>2
    <3>2. CASE i - Len(p) \in 1..Len(q) /\ r[i] = q[i - Len(p)] /\ i > Len(p)
      <4>1. i - Len(p) < j - Len(p)
        BY <1>1, <1>3, <1>8
      <4>. QED
        BY <1>1, <2>2, <3>2, <4>1
    <3>. QED
      BY <1>3, <1>4, <3>1, <3>2
  <2>. QED
    BY <1>3, <1>4, <2>1, <2>2
<1>9. Ascending(r, b)
  BY <1>3, <1>7, <1>8 DEF Ascending
<1>10. ASSUME p = Text(c), \A i \in 1..Len(q) : q[i] = c + i
       PROVE  r = Text(c + Len(q))
  <2>1. Len(p) = c /\ \A i \in 1..c : p[i] = i
    BY <1>10, TextIs
  <2>2. /\ Text(c + Len(q)) \in Seq(Nat) /\ Len(Text(c + Len(q))) = c + Len(q)
        /\ \A i \in 1..(c + Len(q)) : Text(c + Len(q))[i] = i
    BY <1>1, TextIs
  <2>3. \A i \in 1..(c + Len(q)) : r[i] = i
    BY <1>1, <1>4, <1>10, <2>1
  <2>. QED
    BY <1>3, <2>1, <2>2, <2>3, SeqEqual
<1>. QED
  BY <1>3, <1>9, <1>10 DEF r

---------------------------------------------------------------------------
(* The parts of a message. *)

Part == [chunk : Nat, full : BOOLEAN]
LastFull(parts) == SelectLastInSeq(parts, LAMBDA part : part.full)
Told(text, parts) ==
    (IF LastFull(parts) = 0 THEN text ELSE Text(parts[LastFull(parts)].chunk))
      \o [i \in 1..(Len(parts) - LastFull(parts)) |-> parts[LastFull(parts) + i].chunk]

LEMMA LastFullIs ==
    ASSUME NEW parts \in Seq(Part)
    PROVE  LastFull(parts) \in 0..Len(parts)
<1> DEFINE F == {i \in 1..Len(parts) : parts[i].full}
           G == {Len(parts) - i : i \in F}
<1>1. LastFull(parts) = IF F # {} THEN Max(F) ELSE 0
  BY DEF LastFull, SelectLastInSeq
<1>2. CASE F = {}
  BY <1>1, <1>2
<1>3. CASE F # {}
  <2>1. G \in SUBSET Nat /\ G # {}
    BY <1>3
  <2>2. PICK k \in G : \A j \in G : k <= j
    BY <2>1, LeastExists
  <2>3. PICK i \in F : k = Len(parts) - i
    BY <2>2
  <2>4. \A j \in F : i >= j
    <3> SUFFICES ASSUME NEW j \in F PROVE i >= j
      OBVIOUS
    <3>1. Len(parts) - j \in G
      OBVIOUS
    <3>2. Len(parts) - i <= Len(parts) - j
      BY <2>2, <2>3, <3>1
    <3>3. Len(parts) \in Nat /\ i \in Nat /\ j \in Nat
      OBVIOUS
    <3>. QED
      BY <3>2, <3>3
  <2>5. Max(F) \in F
    BY <2>4 DEF Max
  <2>. QED
    BY <1>1, <1>3, <2>5
<1>. QED
  BY <1>2, <1>3

\* Parts that come after what is told: the text is told on, never from before.
LEMMA ToldOn ==
    ASSUME NEW a \in Nat, NEW b \in Nat, a <= b, NEW text, Ascending(text, a),
           NEW parts \in Seq(Part),
           \A i \in 1..Len(parts) : a < parts[i].chunk /\ parts[i].chunk <= b,
           \A i, j \in 1..Len(parts) : i < j => parts[i].chunk < parts[j].chunk
    PROVE  /\ Ascending(Told(text, parts), b)
           /\ Len(text) <= Len(Told(text, parts))
           /\ text = Text(a) /\ (\A i \in 1..Len(parts) : parts[i].chunk = a + i)
                => Told(text, parts) = Text(a + Len(parts))
<1> DEFINE l == Len(parts)
           f == LastFull(parts)
           c == IF f = 0 THEN a ELSE parts[f].chunk
           base == IF f = 0 THEN text ELSE Text(parts[f].chunk)
           after == [i \in 1..(l - f) |-> parts[f + i].chunk]
<1>1. l \in Nat /\ f \in 0..l /\ \A i \in 1..l : parts[i].chunk \in Nat
  <2>1. \A i \in 1..l : parts[i] \in Part
    BY InSeq
  <2>2. \A p \in Part : p.chunk \in Nat
    BY DEF Part
  <2>3. f \in 0..l
    BY LastFullIs
  <2>4. l \in Nat
    OBVIOUS
  <2> HIDE DEF l, f
  <2>. QED
    BY <2>1, <2>2, <2>3, <2>4
<1>2. Told(text, parts) = base \o after
  BY DEF Told
<1> HIDE DEF l, f
<1>3. c \in Nat /\ a <= c /\ c <= b /\ (f # 0 => f \in 1..l)
  BY <1>1 DEF l
<1>4. Ascending(base, c)
  BY <1>1, <1>3, TextIs
<1>5. after \in Seq(Nat) /\ Len(after) = l - f /\ \A i \in 1..(l - f) : after[i] = parts[f + i].chunk /\ f + i \in 1..l
  <2>1. l - f \in Nat /\ \A i \in 1..(l - f) : f + i \in 1..l
    BY <1>1
  <2>2. \A i \in 1..(l - f) : parts[f + i].chunk \in Nat
    BY <1>1, <2>1
  <2>3. after \in [1..(l - f) -> Nat]
    BY <2>2
  <2>4. after \in Seq(Nat) /\ Len(after) = l - f
    BY <2>1, <2>3
  <2>5. \A i \in 1..(l - f) : after[i] = parts[f + i].chunk
    OBVIOUS
  <2>. QED
    BY <2>1, <2>4, <2>5
<1>6. Len(text) <= Len(base)
  <2>1. Len(text) \in Nat /\ Len(text) <= a
    BY AllOfThem
  <2>2. f # 0 => Len(base) = parts[f].chunk /\ a < parts[f].chunk /\ parts[f].chunk \in Nat
    BY <1>1, <1>3, TextIs DEF l
  <2>3. CASE f = 0
    BY <2>1, <2>3
  <2>4. CASE f # 0
    BY <2>1, <2>2, <2>4
  <2>. QED
    BY <2>3, <2>4
<1> HIDE DEF base, after, c
<1>7. \A i \in 1..Len(after) : c < after[i] /\ after[i] <= b
  <2> SUFFICES ASSUME NEW i \in 1..(l - f) PROVE c < parts[f + i].chunk /\ parts[f + i].chunk <= b
    BY <1>5
  <2>1. f + i \in 1..l /\ f < f + i
    BY <1>1, <1>5
  <2>. QED
    BY <1>1, <1>3, <2>1 DEF l, c
<1>8. \A i, j \in 1..Len(after) : i < j => after[i] < after[j]
  <2>1. \A i, j \in 1..l : i < j => parts[i].chunk < parts[j].chunk
    BY DEF l
  <2> SUFFICES ASSUME NEW i \in 1..(l - f), NEW j \in 1..(l - f), i < j
               PROVE  parts[f + i].chunk < parts[f + j].chunk
    BY <1>5
  <2>2. f + i \in 1..l /\ f + j \in 1..l /\ f + i < f + j
    BY <1>1, <1>5
  <2>. QED
    BY <2>1, <2>2
<1>9. /\ Ascending(base \o after, b) /\ Len(base \o after) = Len(base) + Len(after)
      /\ base = Text(c) /\ (\A i \in 1..Len(after) : after[i] = c + i) => base \o after = Text(c + Len(after))
  <2>1. Following(after, c, b)
    BY <1>5, <1>7, <1>8 DEF Following
  <2>4. c \in Nat /\ c <= b
    BY <1>3
  <2>2. b \in Nat
    OBVIOUS
  <2>3. \A p, q : Ascending(p, c) /\ Following(q, c, b)
          => /\ Ascending(p \o q, b) /\ Len(p \o q) = Len(p) + Len(q)
             /\ p = Text(c) /\ (\A i \in 1..Len(q) : q[i] = c + i) => p \o q = Text(c + Len(q))
    BY <2>2, <2>4, Joined
  <2>. QED
    BY <1>4, <2>1, <2>3
<1>10. Len(text) <= Len(base \o after)
  <2>1. Len(base) \in Nat /\ Len(text) \in Nat /\ Len(after) \in Nat
    BY <1>4, <1>5 DEF Ascending
  <2>. QED
    BY <1>6, <1>9, <2>1
<1>11. ASSUME text = Text(a), \A i \in 1..l : parts[i].chunk = a + i
       PROVE  base \o after = Text(a + l)
  <2>1. c = a + f
    BY <1>1, <1>3, <1>11 DEF c
  <2>2. base = Text(c)
    BY <1>11 DEF base, c
  <2>3. \A i \in 1..Len(after) : after[i] = c + i
    <3>1. \A i \in 1..(l - f) : parts[f + i].chunk = a + (f + i) /\ a + (f + i) = c + i
      BY <1>1, <1>5, <1>11, <2>1
    <3>. QED
      BY <1>5, <3>1
  <2>4. c + Len(after) = a + l
    BY <1>1, <1>5, <2>1
  <2>. QED
    BY <1>9, <2>2, <2>3, <2>4
<1>. QED
  BY <1>2, <1>9, <1>10, <1>11 DEF l
---------------------------------------------------------------------------
(* The stream: what is true of it at every moment.                         *)

Early == pc \in {"opening", "posting", "reading"}
State == [users : SUBSET Users, allowed : SUBSET Messages, summaries : SUBSET Messages,
          compacted : BOOLEAN, overflow : BOOLEAN, shown : [Messages -> Seq(Nat)], held : [Messages -> Seq(Part)],
          errors : {<<>>, <<"failed">>, <<"overflow">>}]

Typed ==
    /\ pc \in {"opening", "posting", "reading", "idle", "cleanup", "done"}
    /\ verdict \in Verdicts /\ (pc \in {"cleanup", "done"} => verdict # "none")
    /\ s \in State /\ (Early => s.errors # <<"overflow">>)
    /\ stored \in [Messages -> Nat] /\ sent \in [Messages -> Nat]
    /\ final # <<>> => final \in [Messages -> Nat] /\ ~Early
    /\ dropped \subseteq Messages

\* How much is held, and how far OpenCode, the events and the text are.
Counted ==
    /\ IsFiniteSet(Held(s)) /\ HeldTotal(s) <= MaxHeld
    /\ \A m \in Messages : sent[m] <= stored[m] /\ stored[m] <= MaxChunks[m]

\* No authorization of what is not the prompt's own, or taken for it.
ForPrompt(m, users) == m \notin Summaries /\ (m \in Earlier => "prior" \in users)
Own ==
    /\ s.summaries \subseteq Summaries
    /\ \A m \in Messages : parent[m] \in {Parent[m], "none"}
    /\ \A m \in s.allowed : ForPrompt(m, s.users)
    /\ \A m \in Messages : s.shown[m] # <<>> => m \in s.allowed

\* Every text is some of what was stored, all of it when nothing was dropped.
Shown(m) ==
    /\ Ascending(s.shown[m], stored[m])
    /\ m \notin dropped => s.shown[m] = Text(Len(s.shown[m]))

\* While the stream is read, a message has either its text or its held parts.
Followed(m) ==
    /\ Ascending(s.shown[m], sent[m])
    /\ \A i \in 1..Len(s.held[m]) : s.held[m][i].chunk \in 1..sent[m]
    /\ \A i, j \in 1..Len(s.held[m]) : i < j => s.held[m][i].chunk < s.held[m][j].chunk
    /\ m \in s.allowed => s.held[m] = <<>>
    /\ m \in s.allowed /\ m \notin dropped => s.shown[m] = Text(sent[m])
    /\ m \notin s.allowed /\ m \notin dropped =>
          Len(s.held[m]) = sent[m] /\ \A i \in 1..sent[m] : s.held[m][i].chunk = i
    /\ m \notin s.allowed => s.shown[m] = <<>>

Texts == \A m \in Messages : Shown(m) /\ (Early => Followed(m))

\* Texts only grow.
Grown == \A m \in Messages : Len(s.shown[m]) <= Len(s'.shown[m])

\* What was listed is listed for good: no compaction comes after it.
Settled == final # <<>> => pc = "done" \/ turn = "over"

\* The invariant, with Settled.
Followable == Typed /\ Counted /\ Own /\ Texts /\ TextComplete

---------------------------------------------------------------------------
(* The helpers. *)

LEMMA StateIs ==
    ASSUME NEW st \in State
    PROVE  /\ st = [users |-> st.users, allowed |-> st.allowed, summaries |-> st.summaries,
                    compacted |-> st.compacted,
                    overflow |-> st.overflow, shown |-> st.shown, held |-> st.held, errors |-> st.errors]
           /\ st.users \subseteq Users /\ st.allowed \subseteq Messages /\ st.summaries \subseteq Messages
           /\ st.compacted \in BOOLEAN /\ st.overflow \in BOOLEAN
           /\ st.shown \in [Messages -> Seq(Nat)] /\ st.held \in [Messages -> Seq(Part)]
           /\ st.errors \in {<<>>, <<"failed">>, <<"overflow">>}
BY DEF State

\* Of what parts say, only the message's text changes.
LEMMA Handled ==
    ASSUME NEW st \in State, NEW m \in Messages, NEW parts
    PROVE  HandleParts(st, m, parts) =
             [st EXCEPT !.shown = [st.shown EXCEPT ![m] = Told(st.shown[m], parts)]]
BY DEF HandleParts, Told, LastFull, State

LEMMA HandledIs ==
    ASSUME NEW st \in State, NEW m \in Messages, NEW parts, Told(st.shown[m], parts) \in Seq(Nat)
    PROVE  LET h == HandleParts(st, m, parts) IN
           /\ h \in State /\ h.users = st.users /\ h.allowed = st.allowed
           /\ h.summaries = st.summaries /\ h.compacted = st.compacted /\ h.overflow = st.overflow
           /\ h.held = st.held /\ h.errors = st.errors
           /\ h.shown = [st.shown EXCEPT ![m] = Told(st.shown[m], parts)]
<1>1. [st.shown EXCEPT ![m] = Told(st.shown[m], parts)] \in [Messages -> Seq(Nat)]
  BY DEF State
<1>2. ASSUME NEW sh \in [Messages -> Seq(Nat)]
      PROVE  LET h == [st EXCEPT !.shown = sh] IN
             /\ h \in State /\ h.users = st.users /\ h.allowed = st.allowed
             /\ h.summaries = st.summaries /\ h.compacted = st.compacted /\ h.overflow = st.overflow
             /\ h.held = st.held /\ h.errors = st.errors /\ h.shown = sh
  BY DEF State
<1> DEFINE sh == [st.shown EXCEPT ![m] = Told(st.shown[m], parts)]
<1>3. sh \in [Messages -> Seq(Nat)] /\ HandleParts(st, m, parts) = [st EXCEPT !.shown = sh]
  BY <1>1, Handled
<1> HIDE DEF sh
<1>4. LET h == HandleParts(st, m, parts) IN
      /\ h \in State /\ h.users = st.users /\ h.allowed = st.allowed
      /\ h.summaries = st.summaries /\ h.compacted = st.compacted /\ h.overflow = st.overflow
      /\ h.held = st.held /\ h.errors = st.errors /\ h.shown = sh
  BY <1>2, <1>3
<1>. QED
  BY <1>4 DEF sh

LEMMA ErrorOnceIs ==
    ASSUME NEW st \in State, st.errors # <<"overflow">>
    PROVE  LET e == ErrorOnce(st, "failed") IN
           /\ e \in State /\ e.users = st.users /\ e.allowed = st.allowed
           /\ e.summaries = st.summaries /\ e.compacted = st.compacted /\ e.overflow = st.overflow
           /\ e.held = st.held /\ e.shown = st.shown /\ e.errors = <<"failed">>
<1>1. CASE st.errors = <<>>
  <2>1. "failed" \notin ToSet(st.errors) /\ Append(st.errors, "failed") = <<"failed">>
    BY <1>1 DEF ToSet
  <2>. QED
    BY <2>1 DEF ErrorOnce, State
<1>2. CASE st.errors = <<"failed">>
  <2>1. "failed" \in ToSet(st.errors)
    <3>1. 1 \in DOMAIN st.errors /\ st.errors[1] = "failed"
      BY <1>2
    <3>. QED
      BY <3>1 DEF ToSet
  <2>. QED
    BY <1>2, <2>1 DEF ErrorOnce
<1>. QED
  BY <1>1, <1>2 DEF State

LEMMA UnrecoveredIs ==
    ASSUME NEW st \in State
    PROVE  LET e == UnrecoveredOverflow(st) IN
           /\ e \in State /\ e.users = st.users /\ e.allowed = st.allowed
           /\ e.summaries = st.summaries /\ e.compacted = st.compacted /\ e.overflow = st.overflow
           /\ e.held = st.held /\ e.shown = st.shown
           /\ e.errors = IF st.overflow /\ st.errors = <<>> THEN <<"overflow">> ELSE st.errors
BY DEF UnrecoveredOverflow, State

LEMMA ClassifyIs ==
    ASSUME NEW st \in State, NEW ms \in SUBSET Messages, st.summaries \subseteq Summaries
    PROVE  LET c == Classify(st, ms) IN
           /\ c \in State /\ c.users = st.users /\ c.compacted = st.compacted /\ c.overflow = st.overflow
           /\ c.held = st.held /\ c.shown = st.shown /\ c.errors = st.errors
           /\ c.allowed = st.allowed \cup {m \in ms : Disposition(st, m) = "output"}
           /\ c.summaries \subseteq Summaries
<1> DEFINE al == st.allowed \cup {m \in ms : Disposition(st, m) = "output"}
           su == st.summaries \cup {m \in ms : CorrelatedSummary(st, m)}
<1>1. al \in SUBSET Messages
  BY DEF State
<1>2. su \in SUBSET Summaries /\ su \in SUBSET Messages
  <2>1. \A m \in ms : CorrelatedSummary(st, m) => m \in Summaries
    BY DEF CorrelatedSummary
  <2>. QED
    BY <2>1 DEF State
<1>3. Classify(st, ms) = [st EXCEPT !.allowed = al, !.summaries = su]
  BY DEF Classify, State
<1>4. al = st.allowed \cup {m \in ms : Disposition(st, m) = "output"}
  OBVIOUS
<1> HIDE DEF al, su
<1>5. LET c == [st EXCEPT !.allowed = al, !.summaries = su] IN
      /\ c \in State /\ c.users = st.users /\ c.compacted = st.compacted /\ c.overflow = st.overflow
      /\ c.held = st.held /\ c.shown = st.shown /\ c.errors = st.errors
      /\ c.allowed = al /\ c.summaries = su
  BY <1>1, <1>2 DEF State
<1>. QED
  BY <1>2, <1>3, <1>4, <1>5

\* What is taken for output is the prompt's.
LEMMA OutputIsOwn ==
    ASSUME Typed, Own, NEW m \in Messages, Disposition(s, m) = "output"
    PROVE  ForPrompt(m, s.users)
<1>1. m \notin Summaries
  BY DEF Disposition
<1>2. CASE parent[m] \in s.users
  <2>1. s.users \subseteq Users
    BY DEF Typed, State
  <2>2. parent[m] = Parent[m]
    BY <1>2, <2>1, MessagesAssumption DEF Own
  <2>. QED
    BY <1>1, <1>2, <2>2, EarlierAssumption DEF ForPrompt
<1>3. CASE m \in s.allowed
  BY <1>3 DEF Own
<1>4. CASE CompactionFallbackAccepts(s, m)
  <2>1. Created[m] > Started /\ Created[m] \in Nat /\ Started \in Nat
    BY <1>4, MessagesAssumption, BoundsAssumption DEF CompactionFallbackAccepts
  <2>2. m \notin Earlier
    BY <2>1, EarlierAssumption
  <2>. QED
    BY <1>1, <2>2 DEF ForPrompt
<1>. QED
  BY <1>2, <1>3, <1>4 DEF Disposition

LEMMA HeldIs ==
    ASSUME NEW st \in State
    PROVE  \A x : x \in Held(st) <=> \E m \in Messages : \E i \in 1..Len(st.held[m]) : x = <<m, i>>
<1>1. \A m \in Messages : DOMAIN st.held[m] = 1..Len(st.held[m])
  BY DEF State
<1>. QED
  BY <1>1 DEF Held

---------------------------------------------------------------------------
(* The steps. *)

\* A step that leaves texts, held parts and authorizations as they are.
LEMMA Quiet ==
    ASSUME Typed, Counted, Own, Texts, s' \in State,
           s'.shown = s.shown, s'.held = s.held, s'.allowed = s.allowed,
           s'.summaries \subseteq Summaries, s.users \subseteq s'.users,
           parent' = parent, stored' = stored, sent' = sent, dropped' = dropped, Early' => Early
    PROVE  Counted' /\ Own' /\ Texts' /\ Grown
<1>1. Held(s') = Held(s)
  BY DEF Held
<1>2. Counted'
  BY <1>1 DEF Counted, HeldTotal
<1>3. Own'
  BY DEF Own, ForPrompt
<1>4. Texts'
  BY DEF Texts, Shown, Followed
<1>5. Grown
  <2>1. \A m \in Messages : Len(s.shown[m]) \in Nat
    BY DEF Typed, State
  <2>. QED
    BY <2>1 DEF Grown
<1>. QED
  BY <1>2, <1>3, <1>4, <1>5

\* What was listed stays true of a stream that no longer changes.
LEMMA StillComplete ==
    ASSUME Typed, TextComplete, final' = final, parent' = parent, ~Early => s' = s
    PROVE  TextComplete'
BY DEF TextComplete, TieRead, Typed

\* Another chunk is persisted.
LEMMA Written ==
    ASSUME NEW w \in Messages, Followable, Write(w)
    PROVE  Followable' /\ Grown
<1>1. /\ UNCHANGED <<pc, verdict, s, parent, sent, final, dropped>>
      /\ stored' = [stored EXCEPT ![w] = @ + 1] /\ stored[w] < MaxChunks[w]
  BY DEF Write
<1>2. Typed /\ Counted /\ Own /\ Texts /\ TextComplete
  BY DEF Followable
<1>3. stored' \in [Messages -> Nat] /\ \A m \in Messages : stored'[m] = IF m = w THEN stored[m] + 1 ELSE stored[m]
  BY <1>1, <1>2 DEF Typed
<1>4. Typed'
  BY <1>1, <1>2, <1>3 DEF Typed, Early
<1>5. \A m \in Messages : stored[m] \in Nat /\ sent[m] \in Nat /\ MaxChunks[m] \in Nat /\ stored[m] <= stored'[m]
  <2>1. \A m \in Messages : stored[m] \in Nat /\ sent[m] \in Nat /\ MaxChunks[m] \in Nat
    BY <1>2, BoundsAssumption DEF Typed
  <2>. QED
    BY <1>3, <2>1
<1>6. Counted'
  <2>1. IsFiniteSet(Held(s')) /\ HeldTotal(s') <= MaxHeld
    BY <1>1, <1>2 DEF Counted
  <2>2. \A m \in Messages : sent'[m] <= stored'[m] /\ stored'[m] <= MaxChunks[m]
    BY <1>1, <1>2, <1>3, <1>5 DEF Counted
  <2>. QED
    BY <2>1, <2>2 DEF Counted
<1>7. Own'
  BY <1>1, <1>2, <1>3 DEF Own, ForPrompt
<1>8. Texts'
  <2>1. ASSUME NEW m \in Messages PROVE Shown(m)'
    <3>1. Ascending(s.shown[m], stored[m]) /\ stored'[m] \in Nat
      BY <1>2, <1>3 DEF Texts, Shown
    <3>2. Ascending(s.shown[m], stored'[m])
      BY <1>5, <3>1, More
    <3>. QED
      BY <1>1, <1>2, <3>2 DEF Texts, Shown
  <2>2. Early' => \A m \in Messages : Followed(m)'
    BY <1>1, <1>2 DEF Texts, Followed, Early
  <2>. QED
    BY <2>1, <2>2 DEF Texts
<1>9. TextComplete'
  BY <1>1, <1>2, StillComplete
<1>10. Grown
  <2>1. \A m \in Messages : Len(s.shown[m]) \in Nat
    BY <1>2 DEF Typed, State
  <2>. QED
    BY <1>1, <2>1 DEF Grown
<1>. QED
  BY <1>4, <1>6, <1>7, <1>8, <1>9, <1>10 DEF Followable

LEMMA FetchedIs ==
    ASSUME Typed, s.summaries \subseteq Summaries
    PROVE  /\ Fetched(s) \in State /\ Fetched(s).users = s.users /\ Fetched(s).compacted = s.compacted
           /\ Fetched(s).overflow = s.overflow /\ Fetched(s).held = s.held /\ Fetched(s).errors = s.errors
           /\ Fetched(s).summaries \subseteq Summaries
           /\ Fetched(s).allowed = s.allowed \cup {m \in Messages : Accepted(s, m)}
           /\ Fetched(s).shown = [m \in Messages |->
                 IF Accepted(s, m) /\ stored[m] > Len(s.shown[m]) THEN Text(stored[m]) ELSE s.shown[m]]
<1> DEFINE cl == Classify(s, Persisted)
           sh == [m \in Messages |->
                    IF Accepted(s, m) /\ stored[m] > Len(s.shown[m]) THEN Text(stored[m]) ELSE s.shown[m]]
<1>1. s \in State /\ Persisted \in SUBSET Messages
  BY DEF Typed, Persisted
<1>2. /\ cl \in State /\ cl.users = s.users /\ cl.compacted = s.compacted /\ cl.overflow = s.overflow
      /\ cl.held = s.held /\ cl.shown = s.shown /\ cl.errors = s.errors /\ cl.summaries \subseteq Summaries
      /\ cl.allowed = s.allowed \cup {m \in Persisted : Disposition(s, m) = "output"}
  BY <1>1, ClassifyIs
<1>3. {m \in Persisted : Disposition(s, m) = "output"} = {m \in Messages : Accepted(s, m)}
  BY DEF Persisted, Accepted
<1>4. sh \in [Messages -> Seq(Nat)]
  <2>1. \A m \in Messages : Text(stored[m]) \in Seq(Nat) /\ s.shown[m] \in Seq(Nat)
    BY TextIs DEF Typed, State
  <2>. QED
    BY <2>1
<1> HIDE DEF cl
<1>5. Fetched(s) = [cl EXCEPT !.shown = sh]
  BY <1>2 DEF Fetched, cl
<1>6. sh = [m \in Messages |->
              IF Accepted(s, m) /\ stored[m] > Len(s.shown[m]) THEN Text(stored[m]) ELSE s.shown[m]]
  OBVIOUS
<1> HIDE DEF sh
<1>7. LET f == [cl EXCEPT !.shown = sh] IN
      /\ f \in State /\ f.users = cl.users /\ f.compacted = cl.compacted /\ f.overflow = cl.overflow
      /\ f.held = cl.held /\ f.errors = cl.errors /\ f.summaries = cl.summaries
      /\ f.allowed = cl.allowed /\ f.shown = sh
  BY <1>2, <1>4 DEF State
<1>. QED
  BY <1>2, <1>3, <1>5, <1>6, <1>7

\* The history is fetched.
LEMMA Refetched ==
    ASSUME Followable, s' \in State, ~Early', parent' = parent, stored' = stored, sent' = sent,
           dropped' = dropped, final' = stored,
           s'.users = s.users, s'.compacted = s.compacted, s'.held = s.held,
           s'.summaries = Fetched(s).summaries, s'.allowed = Fetched(s).allowed, s'.shown = Fetched(s).shown
    PROVE  Counted' /\ Own' /\ Texts' /\ TextComplete' /\ Grown
<1>1. Typed /\ Counted /\ Own /\ Texts
  BY DEF Followable
<1>2. /\ s'.allowed = s.allowed \cup {m \in Messages : Accepted(s, m)} /\ s'.summaries \subseteq Summaries
      /\ s'.shown = [m \in Messages |->
            IF Accepted(s, m) /\ stored[m] > Len(s.shown[m]) THEN Text(stored[m]) ELSE s.shown[m]]
  BY <1>1, FetchedIs DEF Own
<1>3. \A m \in Messages : /\ stored[m] \in Nat /\ s.shown[m] \in Seq(Nat) /\ Len(s.shown[m]) \in Nat
                          /\ Ascending(s.shown[m], stored[m]) /\ Len(s.shown[m]) <= stored[m]
  BY <1>1, AllOfThem DEF Typed, State, Texts, Shown
<1>4. Counted'
  BY <1>1 DEF Counted, HeldTotal, Held
<1>5. \A m \in Messages : Accepted(s, m) => ForPrompt(m, s.users)
  BY <1>1, OutputIsOwn DEF Accepted
<1>6. Own'
  <2>1. \A m \in Messages : parent'[m] \in {Parent[m], "none"}
    BY <1>1 DEF Own
  <2>2. \A m \in s'.allowed : ForPrompt(m, s'.users)
    BY <1>1, <1>2, <1>5 DEF Own
  <2>3. \A m \in Messages : s'.shown[m] # <<>> => m \in s'.allowed
    BY <1>1, <1>2 DEF Own
  <2>. QED
    BY <1>2, <2>1, <2>2, <2>3 DEF Own, ForPrompt
<1>7. ASSUME NEW m \in Messages
      PROVE  /\ Ascending(s'.shown[m], stored[m]) /\ Len(s.shown[m]) <= Len(s'.shown[m])
             /\ m \notin dropped => s'.shown[m] = Text(Len(s'.shown[m]))
             /\ Accepted(s, m) => s'.shown[m] = Text(stored[m])
  <2>1. CASE Accepted(s, m) /\ stored[m] > Len(s.shown[m])
    <3>1. s'.shown[m] = Text(stored[m])
      BY <1>2, <2>1
    <3>. QED
      BY <1>3, <2>1, <3>1, TextIs
  <2>2. CASE ~(Accepted(s, m) /\ stored[m] > Len(s.shown[m]))
    <3>1. s'.shown[m] = s.shown[m]
      BY <1>2, <2>2
    <3>2. Accepted(s, m) => Len(s.shown[m]) = stored[m]
      BY <1>3, <2>2
    <3>3. m \notin dropped => s.shown[m] = Text(Len(s.shown[m]))
      BY <1>1 DEF Texts, Shown
    <3>. QED
      BY <1>3, <3>1, <3>2, <3>3, AllOfThem
  <2>. QED
    BY <2>1, <2>2
<1>8. Texts'
  BY <1>7 DEF Texts, Shown
<1>9. TextComplete'
  <2> SUFFICES ASSUME NEW m \in Messages \ Summaries, TieRead(m)'
               PROVE  s'.shown[m] = Text(stored[m])
    BY DEF TextComplete
  <2>1. CASE stored[m] = 0
    <3>1. ~Accepted(s, m)
      BY <2>1 DEF Accepted
    <3>2. s'.shown[m] = s.shown[m] /\ Len(s.shown[m]) = stored[m]
      BY <1>2, <1>3, <2>1, <3>1
    <3>. QED
      BY <1>3, <3>2, AllOfThem
  <2>2. CASE stored[m] > 0
    <3>1. Created[m] > Started => Created[m] # 0
      BY MessagesAssumption, BoundsAssumption
    <3>2. parent[m] \in s.users \/ m \in s.allowed \/ CompactionFallbackAccepts(s, m) \/ Accepted(s, m)
      BY <1>2, <3>1 DEF TieRead, CompactionFallbackAccepts
    <3>3. Accepted(s, m)
      BY <1>1, <2>2, <3>2 DEF Accepted, Disposition, CorrelatedSummary, Own
    <3>. QED
      BY <1>7, <3>3
  <2>. QED
    BY <1>3, <2>1, <2>2
<1>10. Grown
  BY <1>7 DEF Grown
<1>. QED
  BY <1>4, <1>6, <1>8, <1>9, <1>10

\* A text is told on by parts that come after it: held ones, or a new one.
LEMMA Retold ==
    ASSUME Followable, Early, Early',
           NEW m \in Messages, NEW st \in State, NEW parts \in Seq(Part),
           st.shown = s.shown, s' = HandleParts(st, m, parts), m \in st.allowed,
           st.users = s.users, st.compacted = s.compacted,
           st.summaries \subseteq Summaries,
           st.allowed \ {m} = s.allowed \ {m}, ForPrompt(m, s.users),
           st.held[m] = <<>>, \A n \in Messages \ {m} : st.held[n] = s.held[n],
           UNCHANGED <<parent, stored, dropped>>, sent' \in [Messages -> Nat],
           sent[m] <= sent'[m], sent'[m] <= stored[m], \A n \in Messages \ {m} : sent'[n] = sent[n],
           NEW a \in Nat, a <= sent'[m], Ascending(s.shown[m], a),
           \A i \in 1..Len(parts) : a < parts[i].chunk /\ parts[i].chunk <= sent'[m],
           \A i, j \in 1..Len(parts) : i < j => parts[i].chunk < parts[j].chunk,
           m \notin dropped =>
              /\ s.shown[m] = Text(a) /\ a + Len(parts) = sent'[m]
              /\ \A i \in 1..Len(parts) : parts[i].chunk = a + i
    PROVE  s' \in State /\ s'.errors = st.errors /\ Counted' /\ Own' /\ Texts' /\ Grown
<1> DEFINE t == Told(s.shown[m], parts)
<1>1. Typed /\ Counted /\ Own /\ Texts
  BY DEF Followable
<1>2. sent'[m] \in Nat /\ stored[m] \in Nat /\ s.shown[m] \in Seq(Nat)
  BY <1>1 DEF Typed, State
<1>3. /\ Ascending(t, sent'[m]) /\ Len(s.shown[m]) <= Len(t)
      /\ s.shown[m] = Text(a) /\ (\A i \in 1..Len(parts) : parts[i].chunk = a + i)
            => t = Text(a + Len(parts))
  <2> DEFINE x == s.shown[m]
             b == sent'[m]
  <2>1. /\ a \in Nat /\ b \in Nat /\ a <= b /\ Ascending(x, a) /\ parts \in Seq(Part)
        /\ \A i \in 1..Len(parts) : a < parts[i].chunk /\ parts[i].chunk <= b
        /\ \A i, j \in 1..Len(parts) : i < j => parts[i].chunk < parts[j].chunk
    BY <1>2
  <2> HIDE DEF x, b
  <2>2. /\ Ascending(Told(x, parts), b) /\ Len(x) <= Len(Told(x, parts))
        /\ x = Text(a) /\ (\A i \in 1..Len(parts) : parts[i].chunk = a + i)
              => Told(x, parts) = Text(a + Len(parts))
    BY ONLY <2>1, ToldOn
  <2>. QED
    BY <2>2 DEF x, b
<1>4. m \notin dropped => t = Text(sent'[m])
  BY <1>3
<1> HIDE DEF t
<1>5. t \in Seq(Nat)
  BY <1>3 DEF Ascending
<1>6. /\ s' \in State /\ s'.users = s.users /\ s'.allowed = st.allowed /\ s'.compacted = s.compacted
      /\ s'.summaries = st.summaries
      /\ s'.held = st.held /\ s'.errors = st.errors /\ s'.shown = [s.shown EXCEPT ![m] = t]
  BY <1>5, HandledIs DEF t
<1>7. s.shown \in [Messages -> Seq(Nat)]
  BY <1>1 DEF Typed, State
<1>8. s'.shown[m] = t /\ \A n \in Messages \ {m} : s'.shown[n] = s.shown[n]
  BY <1>6, <1>7
<1>9. Counted'
  <2>1. Held(s') \in SUBSET Held(s)
    <3> SUFFICES ASSUME NEW x \in Held(s') PROVE x \in Held(s)
      OBVIOUS
    <3>0. \A y : y \in Held(s') <=> \E n \in Messages : \E i \in 1..Len(s'.held[n]) : y = <<n, i>>
      BY <1>6, HeldIs
    <3>1. PICK n \in Messages : \E i \in 1..Len(s'.held[n]) : x = <<n, i>>
      BY <3>0
    <3>2. n # m
      BY <1>6, <3>1
    <3>3. s'.held[n] = s.held[n]
      BY <1>6, <3>2
    <3>. QED
      BY <1>1, <3>1, <3>3, HeldIs DEF Typed
  <2>2. IsFiniteSet(Held(s')) /\ Cardinality(Held(s')) <= MaxHeld
    <3>1. IsFiniteSet(Held(s)) /\ Cardinality(Held(s)) <= MaxHeld
      BY <1>1 DEF Counted, HeldTotal
    <3>2. IsFiniteSet(Held(s')) /\ Cardinality(Held(s')) <= Cardinality(Held(s))
      BY <2>1, <3>1, FS_Subset
    <3>3. Cardinality(Held(s)) \in Nat /\ Cardinality(Held(s')) \in Nat /\ MaxHeld \in Nat
      BY <3>1, <3>2, FS_CardinalityType, BoundsAssumption
    <3>. QED
      BY <3>1, <3>2, <3>3
  <2>3. \A n \in Messages : sent'[n] <= stored'[n] /\ stored'[n] <= MaxChunks[n]
    BY <1>1 DEF Counted
  <2>. QED
    BY <2>2, <2>3 DEF Counted, HeldTotal
<1>10. Own'
  <2>1. \A n \in s'.allowed : ForPrompt(n, s'.users)
    BY <1>1, <1>6 DEF Own
  <2>2. \A n \in Messages : s'.shown[n] # <<>> => n \in s'.allowed
    BY <1>1, <1>6, <1>8 DEF Own
  <2>. QED
    BY <1>1, <1>6, <2>1, <2>2 DEF Own, ForPrompt
<1>11. ASSUME NEW n \in Messages PROVE Shown(n)' /\ Followed(n)'
  <2>1. CASE n = m
    <3>1. Ascending(t, stored[m])
      BY <1>2, <1>3, More
    <3>2. m \notin dropped => t = Text(Len(t))
      BY <1>2, <1>4, TextIs
    <3>3. Shown(m)'
      BY <1>8, <3>1, <3>2 DEF Shown
    <3>4. Followed(m)'
      BY <1>3, <1>4, <1>6, <1>8 DEF Followed
    <3>. QED
      BY <2>1, <3>3, <3>4
  <2>2. CASE n # m
    <3>1. s'.shown[n] = s.shown[n] /\ s'.held[n] = s.held[n] /\ (n \in s'.allowed <=> n \in s.allowed) /\ sent'[n] = sent[n]
      BY <1>6, <1>8, <2>2
    <3>2. Shown(n) /\ Followed(n)
      BY <1>1 DEF Texts
    <3>. QED
      BY <3>1, <3>2 DEF Shown, Followed
  <2>. QED
    BY <2>1, <2>2
<1>12. Grown
  <2>1. \A n \in Messages : Len(s.shown[n]) \in Nat
    BY <1>7
  <2>2. ASSUME NEW n \in Messages PROVE Len(s.shown[n]) <= Len(s'.shown[n])
    BY <1>3, <1>8, <2>1
  <2>. QED
    BY <2>2 DEF Grown
<1>. QED
  BY <1>6, <1>9, <1>10, <1>11, <1>12 DEF Texts

\* While the stream is read nothing was listed.
LEMMA NotYetFetched ==
    ASSUME Typed, Early, final' = final
    PROVE  TextComplete'
BY DEF Typed, TextComplete

\* A message is announced: its held parts are replayed, once.
LEMMA Announced ==
    ASSUME NEW m \in Messages, NEW failed \in BOOLEAN, Followable, MessageUpdated(m, failed)
    PROVE  Followable' /\ Grown
<1>1. Typed /\ Counted /\ Own /\ Texts
  BY DEF Followable
<1>2. /\ pc = "reading" /\ stored[m] > 0
      /\ UNCHANGED <<pc, verdict, parent, stored, sent, final, dropped>>
  BY DEF MessageUpdated, Reading, Stays
<1>3. Early /\ Early' /\ s.errors # <<"overflow">>
  BY <1>1, <1>2 DEF Early, Typed
<1>4. TextComplete'
  BY <1>1, <1>2, <1>3, NotYetFetched
<1> DEFINE seen == IF failed /\ Disposition(s, m) # "reject" THEN ErrorOnce(s, "failed") ELSE s
<1>5. /\ seen \in State /\ seen.users = s.users /\ seen.allowed = s.allowed /\ seen.compacted = s.compacted
      /\ seen.summaries = s.summaries
      /\ seen.held = s.held /\ seen.shown = s.shown /\ seen.errors # <<"overflow">>
  BY <1>1, <1>3, ErrorOnceIs DEF Typed
<1> DEFINE cl == Classify(seen, {m})
<1>6. s' = IF Disposition(s, m) = "output" THEN ReplayHeld(cl, m) ELSE cl
  BY DEF MessageUpdated
<1> HIDE DEF seen
<1>9. Disposition(seen, m) = Disposition(s, m)
  BY <1>5 DEF Disposition, CorrelatedSummary, CompactionFallbackAccepts
<1>10. /\ cl \in State /\ cl.users = s.users /\ cl.compacted = s.compacted /\ cl.held = s.held
       /\ cl.shown = s.shown /\ cl.errors = seen.errors /\ cl.summaries \subseteq Summaries
       /\ cl.allowed = s.allowed \cup {n \in {m} : Disposition(seen, n) = "output"}
  <2>1. {m} \in SUBSET Messages /\ seen.summaries \subseteq Summaries
    BY <1>1, <1>5 DEF Own
  <2>. QED
    BY <1>5, <2>1, ClassifyIs
<1> HIDE DEF cl
<1>7. CASE Disposition(s, m) # "output"
  <2>1. s' = cl /\ cl.allowed = s.allowed
    BY <1>6, <1>7, <1>9, <1>10
  <2>3. Counted' /\ Own' /\ Texts' /\ Grown
    BY <1>1, <1>2, <1>3, <1>10, <2>1, Quiet
  <2>4. Typed'
    BY <1>1, <1>2, <1>3, <1>5, <1>10, <2>1 DEF Typed
  <2>. QED
    BY <1>4, <2>3, <2>4 DEF Followable
<1>8. CASE Disposition(s, m) = "output"
  <2> DEFINE st == [cl EXCEPT !.held[m] = <<>>]
  <2>2. s' = HandleParts(st, m, s.held[m])
    BY <1>6, <1>8, <1>10 DEF ReplayHeld
  <2>3. /\ st \in State /\ st.users = s.users /\ st.allowed = s.allowed \cup {m} /\ st.compacted = s.compacted
        /\ st.summaries \subseteq Summaries /\ st.shown = s.shown /\ st.errors # <<"overflow">>
        /\ st.held[m] = <<>> /\ \A n \in Messages \ {m} : st.held[n] = s.held[n]
    <3> DEFINE he == [cl.held EXCEPT ![m] = <<>>]
    <3>1. he \in [Messages -> Seq(Part)] /\ he[m] = <<>> /\ \A n \in Messages \ {m} : he[n] = s.held[n]
      BY <1>10 DEF State
    <3>2. st = [cl EXCEPT !.held = he]
      OBVIOUS
    <3> HIDE DEF he, st
    <3>3. /\ st \in State /\ st.users = cl.users /\ st.allowed = cl.allowed /\ st.compacted = cl.compacted
          /\ st.summaries = cl.summaries /\ st.shown = cl.shown /\ st.errors = cl.errors /\ st.held = he
      BY <1>10, <3>1, <3>2 DEF State
    <3>4. cl.allowed = s.allowed \cup {m}
      BY <1>8, <1>9, <1>10
    <3>. QED
      BY <1>5, <1>10, <3>1, <3>3, <3>4
  <2> HIDE DEF st
  <2>4. ForPrompt(m, s.users)
    BY <1>1, <1>8, OutputIsOwn
  <2>5. /\ Followed(m) /\ Shown(m) /\ sent[m] \in Nat /\ sent[m] <= stored[m] /\ stored[m] \in Nat
        /\ s.held[m] \in Seq(Part) /\ Len(s.held[m]) \in Nat
    BY <1>1, <1>3 DEF Texts, Typed, Counted, State
  <2>6. sent' \in [Messages -> Nat] /\ sent'[m] = sent[m] /\ \A n \in Messages \ {m} : sent'[n] = sent[n]
    BY <1>1, <1>2 DEF Typed
  <2>10. st.allowed \ {m} = s.allowed \ {m} /\ m \in st.allowed
    BY <2>3
  <2>7. s' \in State /\ s'.errors = st.errors /\ Counted' /\ Own' /\ Texts' /\ Grown
    <3>1. CASE m \in s.allowed
      <4>1. s.held[m] = <<>> /\ Ascending(s.shown[m], sent[m]) /\ (m \notin dropped => s.shown[m] = Text(sent[m]))
        BY <2>5, <3>1 DEF Followed
      <4>2. Len(s.held[m]) = 0 /\ sent[m] + Len(s.held[m]) = sent[m]
        BY <2>5, <4>1
      <4>3. \A i \in 1..Len(s.held[m]) : /\ sent[m] < s.held[m][i].chunk /\ s.held[m][i].chunk <= sent[m]
                                         /\ s.held[m][i].chunk = sent[m] + i
        BY <4>2
      <4>4. \A i, j \in 1..Len(s.held[m]) : i < j => s.held[m][i].chunk < s.held[m][j].chunk
        BY <4>2
      <4>5. /\ sent[m] <= sent'[m] /\ sent'[m] <= stored[m]
            /\ \A i \in 1..Len(s.held[m]) : sent[m] < s.held[m][i].chunk /\ s.held[m][i].chunk <= sent'[m]
            /\ m \notin dropped => /\ s.shown[m] = Text(sent[m]) /\ sent[m] + Len(s.held[m]) = sent'[m]
                                   /\ \A i \in 1..Len(s.held[m]) : s.held[m][i].chunk = sent[m] + i
        BY <2>5, <2>6, <4>1, <4>2, <4>3
      <4>. QED
        BY <1>2, <1>3, <2>2, <2>3, <2>4, <2>5, <2>6, <2>10, <4>1, <4>4, <4>5, Retold
    <3>2. CASE m \notin s.allowed
      <4>1. s.shown[m] = <<>> /\ Ascending(<<>>, 0) /\ Text(0) = <<>>
        BY <2>5, <3>2, TextIs, NoneIsAscending DEF Followed
      <4>2. \A i \in 1..Len(s.held[m]) : 0 < s.held[m][i].chunk /\ s.held[m][i].chunk <= sent[m]
        BY <2>5 DEF Followed
      <4>3. \A i, j \in 1..Len(s.held[m]) : i < j => s.held[m][i].chunk < s.held[m][j].chunk
        BY <2>5 DEF Followed
      <4>4. m \notin dropped => 0 + Len(s.held[m]) = sent[m] /\ \A i \in 1..Len(s.held[m]) : s.held[m][i].chunk = 0 + i
        BY <2>5, <3>2 DEF Followed
      <4>5. 0 \in Nat /\ 0 <= sent'[m] /\ Ascending(s.shown[m], 0) /\ s.shown[m] = Text(0)
        BY <2>5, <2>6, <4>1
      <4>6. /\ sent[m] <= sent'[m] /\ sent'[m] <= stored[m]
            /\ \A i \in 1..Len(s.held[m]) : 0 < s.held[m][i].chunk /\ s.held[m][i].chunk <= sent'[m]
            /\ m \notin dropped => /\ s.shown[m] = Text(0) /\ 0 + Len(s.held[m]) = sent'[m]
                                   /\ \A i \in 1..Len(s.held[m]) : s.held[m][i].chunk = 0 + i
        BY <2>5, <2>6, <4>2, <4>4, <4>5
      <4>. QED
        BY <1>2, <1>3, <2>2, <2>3, <2>4, <2>5, <2>6, <2>10, <4>3, <4>5, <4>6, Retold
    <3>. QED
      BY <3>1, <3>2
  <2>8. s'.errors # <<"overflow">>
    BY <2>3, <2>7
  <2>9. Typed'
    BY <1>1, <1>2, <1>3, <2>7, <2>8 DEF Typed
  <2>. QED
    BY <1>4, <2>7, <2>9 DEF Followable
<1>. QED
  BY <1>7, <1>8

\* A part arrives: it is told, held or dropped.
LEMMA Arrived ==
    ASSUME NEW m \in Messages, NEW full \in BOOLEAN, Followable, PartUpdated(m, full)
    PROVE  Followable' /\ Grown
<1> DEFINE part == [chunk |-> sent[m] + 1, full |-> full]
<1>1. Typed /\ Counted /\ Own /\ Texts
  BY DEF Followable
<1>2. /\ pc = "reading" /\ sent[m] < stored[m]
      /\ UNCHANGED <<pc, verdict, parent, stored, final>>
      /\ sent' = [sent EXCEPT ![m] = @ + 1]
  BY DEF PartUpdated, Reading, Stays
<1>3. Early /\ Early' /\ s \in State /\ s.errors # <<"overflow">>
  BY <1>1, <1>2 DEF Early, Typed
<1>4. TextComplete'
  BY <1>1, <1>2, <1>3, NotYetFetched
<1>5. /\ sent[m] \in Nat /\ stored[m] \in Nat
      /\ sent' \in [Messages -> Nat] /\ sent'[m] = sent[m] + 1
      /\ \A n \in Messages \ {m} : sent'[n] = sent[n]
  BY <1>1, <1>2 DEF Typed
<1>6. part \in Part /\ part.chunk = sent[m] + 1 /\ sent[m] + 1 <= stored[m]
  BY <1>2, <1>5 DEF Part
<1>7. \A n \in Messages : Shown(n) /\ Followed(n)
  BY <1>1, <1>3 DEF Texts
<1>8. \A n \in Messages : sent'[n] <= stored'[n] /\ stored'[n] <= MaxChunks[n]
  BY <1>1, <1>2, <1>5, <1>6 DEF Counted
<1>9. s.shown \in [Messages -> Seq(Nat)] /\ s.held \in [Messages -> Seq(Part)]
  BY <1>3 DEF State
<1>10. /\ \/ m \in s.allowed /\ s' = HandleParts(s, m, <<part>>) /\ dropped' = dropped
          \/ m \notin s.allowed /\ HeldTotal(s) < MaxHeld
             /\ s' = [s EXCEPT !.held[m] = Append(@, part)] /\ dropped' = dropped
          \/ m \notin s.allowed /\ dropped' = dropped \cup {m} /\ s' = s
  BY DEF PartUpdated
<1> HIDE DEF part
<1>11. CASE m \in s.allowed /\ s' = HandleParts(s, m, <<part>>) /\ dropped' = dropped
  <2>1. <<part>> \in Seq(Part) /\ Len(<<part>>) = 1 /\ <<part>>[1] = part
    BY <1>6
  <2> DEFINE parts == <<part>>
  <2>2. parts \in Seq(Part) /\ Len(parts) = 1 /\ parts[1].chunk = sent[m] + 1 /\ s' = HandleParts(s, m, parts)
    BY <1>6, <1>11, <2>1
  <2> HIDE DEF parts
  <2>3. ForPrompt(m, s.users) /\ s.summaries \subseteq Summaries /\ s.held[m] = <<>> /\ s.allowed \ {m} = s.allowed \ {m}
    BY <1>1, <1>7, <1>11 DEF Own, Followed
  <2>4. Ascending(s.shown[m], sent[m]) /\ (m \notin dropped => s.shown[m] = Text(sent[m]))
    BY <1>7, <1>11 DEF Followed
  <2>5. /\ sent[m] <= sent'[m] /\ sent'[m] <= stored[m]
        /\ \A i \in 1..Len(parts) : sent[m] < parts[i].chunk /\ parts[i].chunk <= sent'[m]
        /\ \A i, j \in 1..Len(parts) : i < j => parts[i].chunk < parts[j].chunk
        /\ m \notin dropped => /\ s.shown[m] = Text(sent[m]) /\ sent[m] + Len(parts) = sent'[m]
                               /\ \A i \in 1..Len(parts) : parts[i].chunk = sent[m] + i
    BY <1>5, <1>6, <2>2, <2>4
  <2>6. s' \in State /\ s'.errors = s.errors /\ Counted' /\ Own' /\ Texts' /\ Grown
    BY <1>2, <1>3, <1>5, <1>11, <2>2, <2>3, <2>4, <2>5, Retold
  <2>7. Typed'
    BY <1>1, <1>2, <1>3, <1>5, <1>11, <2>6 DEF Typed
  <2>. QED
    BY <1>4, <2>6, <2>7 DEF Followable
<1>12. CASE m \notin s.allowed /\ HeldTotal(s) < MaxHeld
            /\ s' = [s EXCEPT !.held[m] = Append(@, part)] /\ dropped' = dropped
  <2> DEFINE q == s.held[m]
             l == Len(q)
             he == [s.held EXCEPT ![m] = Append(q, part)]
  <2>1. q \in Seq(Part) /\ l \in Nat /\ Append(q, part) \in Seq(Part)
    BY <1>6, <1>9
  <2>2. /\ Len(Append(q, part)) = l + 1 /\ Append(q, part)[l + 1] = part
        /\ \A i \in 1..l : Append(q, part)[i] = q[i]
    BY <1>6, <2>1
  <2>3. he \in [Messages -> Seq(Part)] /\ he[m] = Append(q, part) /\ \A n \in Messages \ {m} : he[n] = s.held[n]
    BY <1>9, <2>1
  <2>4. s' = [s EXCEPT !.held = he]
    BY <1>3, <1>12 DEF State
  <2> HIDE DEF he
  <2>5. /\ s' \in State /\ s'.users = s.users /\ s'.allowed = s.allowed /\ s'.summaries = s.summaries
        /\ s'.held = he /\ s'.errors = s.errors /\ s'.shown = s.shown
    BY <1>3, <2>3, <2>4 DEF State
  <2>6. Typed'
    BY <1>1, <1>2, <1>3, <1>5, <1>12, <2>5 DEF Typed
  <2>7. Counted'
    <3>1. Held(s') = Held(s) \cup {<<m, l + 1>>}
      <4>1. \A x : x \in Held(s') <=> \E n \in Messages : \E i \in 1..Len(he[n]) : x = <<n, i>>
        BY <2>5, HeldIs
      <4>2. \A x : x \in Held(s) <=> \E n \in Messages : \E i \in 1..Len(s.held[n]) : x = <<n, i>>
        BY <1>3, HeldIs
      <4>3. Len(he[m]) = l + 1 /\ \A n \in Messages \ {m} : Len(he[n]) = Len(s.held[n])
        BY <2>2, <2>3
      <4>4. ASSUME NEW x \in Held(s') PROVE x \in Held(s) \cup {<<m, l + 1>>}
        <5>0. PICK n \in Messages : \E i \in 1..Len(he[n]) : x = <<n, i>>
          BY <4>1
        <5>1. PICK i \in 1..Len(he[n]) : x = <<n, i>>
          BY <5>0
        <5>2. CASE n = m
          <6>1. i \in 1..l \/ i = l + 1
            BY <2>1, <4>3, <5>2
          <6>. QED
            BY <4>2, <5>1, <5>2, <6>1
        <5>3. CASE n # m
          BY <4>2, <4>3, <5>1, <5>3
        <5>. QED
          BY <5>2, <5>3
      <4>5. ASSUME NEW x \in Held(s) PROVE x \in Held(s')
        <5>0. PICK n \in Messages : \E i \in 1..Len(s.held[n]) : x = <<n, i>>
          BY <4>2
        <5>1. PICK i \in 1..Len(s.held[n]) : x = <<n, i>>
          BY <5>0
        <5>2. i \in 1..Len(he[n])
          BY <2>1, <4>3, <5>1
        <5>. QED
          BY <4>1, <5>1, <5>2
      <4>6. <<m, l + 1>> \in Held(s')
        <5>1. l + 1 \in 1..Len(he[m])
          BY <2>1, <4>3
        <5>. QED
          BY <4>1, <5>1
      <4>. QED
        BY <4>4, <4>5, <4>6
    <3>2. IsFiniteSet(Held(s)) /\ Cardinality(Held(s)) < MaxHeld
      BY <1>1, <1>12 DEF Counted, HeldTotal
    <3>3. IsFiniteSet(Held(s')) /\ Cardinality(Held(s')) <= Cardinality(Held(s)) + 1
      <4>1. Cardinality(Held(s)) \in Nat
        BY <3>2, FS_CardinalityType
      <4>2. /\ IsFiniteSet(Held(s) \cup {<<m, l + 1>>})
            /\ Cardinality(Held(s) \cup {<<m, l + 1>>}) =
                 IF <<m, l + 1>> \in Held(s) THEN Cardinality(Held(s)) ELSE Cardinality(Held(s)) + 1
        BY <3>2, FS_AddElement
      <4>. QED
        BY <3>1, <4>1, <4>2
    <3>4. Cardinality(Held(s)) \in Nat /\ Cardinality(Held(s')) \in Nat /\ MaxHeld \in Nat
      BY <3>2, <3>3, FS_CardinalityType, BoundsAssumption
    <3>5. Cardinality(Held(s')) <= MaxHeld
      BY <3>2, <3>3, <3>4
    <3>. QED
      BY <1>8, <3>3, <3>5 DEF Counted, HeldTotal
  <2>8. Own'
    BY <1>1, <1>2, <2>5 DEF Own, ForPrompt
  <2>9. ASSUME NEW n \in Messages PROVE Shown(n)' /\ Followed(n)'
    <3>1. CASE n = m
      <4>1. Shown(m)' /\ s.shown[m] = <<>>
        BY <1>2, <1>7, <1>12, <2>5 DEF Shown, Followed
      <4>2. Ascending(s'.shown[m], sent'[m])
        BY <1>5, <2>5, <4>1, NoneIsAscending
      <4>3. \A i \in 1..l : q[i].chunk \in 1..sent[m]
        BY <1>7 DEF Followed
      <4>4. \A i, j \in 1..l : i < j => q[i].chunk < q[j].chunk
        BY <1>7 DEF Followed
      <4>5. s'.held[m] = Append(q, part)
        BY <2>3, <2>5
      <4>6. \A i \in 1..(l + 1) : Append(q, part)[i].chunk \in 1..sent'[m]
        <5>1. \A i \in 1..(l + 1) : i \in 1..l \/ i = l + 1
          BY <2>1
        <5>2. \A i \in 1..l : q[i].chunk \in 1..sent'[m]
          BY <1>5, <4>3
        <5>3. part.chunk \in 1..sent'[m]
          BY <1>5, <1>6
        <5>. QED
          BY <2>2, <5>1, <5>2, <5>3
      <4>7. ASSUME NEW i \in 1..(l + 1), NEW j \in 1..(l + 1), i < j
            PROVE  Append(q, part)[i].chunk < Append(q, part)[j].chunk
        <5>1. i \in 1..l
          BY <2>1, <4>7
        <5>2. CASE j \in 1..l
          BY <2>2, <4>4, <4>7, <5>1, <5>2
        <5>3. CASE j = l + 1
          <6>1. q[i].chunk \in Nat /\ q[i].chunk <= sent[m]
            BY <1>5, <4>3, <5>1
          <6>2. Append(q, part)[i] = q[i] /\ Append(q, part)[j] = part
            BY <2>2, <5>1, <5>3
          <6>3. q[i].chunk < part.chunk
            BY <1>5, <1>6, <6>1
          <6>. QED
            BY <6>2, <6>3
        <5>. QED
          BY <2>1, <5>2, <5>3
      <4>8. m \notin dropped => l = sent[m] /\ \A i \in 1..sent[m] : q[i].chunk = i
        BY <1>7, <1>12 DEF Followed
      <4>9. m \notin dropped => l + 1 = sent'[m] /\ \A i \in 1..sent'[m] : Append(q, part)[i].chunk = i
        <5>1. \A i \in 1..(l + 1) : i \in 1..l \/ i = l + 1
          BY <2>1
        <5>. QED
          BY <1>5, <1>6, <2>2, <4>8, <5>1
      <4> HIDE DEF q, l
      <4>10. Followed(m)'
        BY <1>12, <2>2, <2>5, <4>1, <4>2, <4>5, <4>6, <4>7, <4>9 DEF Followed
      <4>. QED
        BY <3>1, <4>1, <4>10
    <3>2. CASE n # m
      <4>1. s'.held[n] = s.held[n] /\ sent'[n] = sent[n]
        BY <1>5, <2>3, <2>5, <3>2
      <4>2. stored' = stored /\ dropped' = dropped /\ s'.shown = s.shown /\ s'.allowed = s.allowed
        BY <1>2, <1>12, <2>5
      <4>3. Shown(n)'
        BY <1>7, <4>2 DEF Shown
      <4>4. Followed(n)'
        BY <1>7, <4>1, <4>2 DEF Followed
      <4>. QED
        BY <4>3, <4>4
    <3>. QED
      BY <3>1, <3>2
  <2>10. Grown
    <3>1. \A n \in Messages : Len(s.shown[n]) \in Nat
      BY <1>9
    <3>. QED
      BY <2>5, <3>1 DEF Grown
  <2>. QED
    BY <1>4, <2>6, <2>7, <2>8, <2>9, <2>10 DEF Followable, Texts
<1>13. CASE m \notin s.allowed /\ dropped' = dropped \cup {m} /\ s' = s
  <2>1. Typed'
    BY <1>1, <1>2, <1>3, <1>5, <1>13 DEF Typed
  <2>2. Counted'
    BY <1>1, <1>8, <1>13 DEF Counted
  <2>3. Own'
    BY <1>1, <1>2, <1>13 DEF Own, ForPrompt
  <2>4. ASSUME NEW n \in Messages PROVE Shown(n)' /\ Followed(n)'
    <3>1. CASE n = m
      <4>1. Shown(m)' /\ s.shown[m] = <<>>
        BY <1>2, <1>7, <1>13 DEF Shown, Followed
      <4>2. Ascending(s'.shown[m], sent'[m])
        BY <1>5, <1>13, <4>1, NoneIsAscending
      <4>3. \A i \in 1..Len(s.held[m]) : s.held[m][i].chunk \in 1..sent'[m]
        <5>1. \A i \in 1..Len(s.held[m]) : s.held[m][i].chunk \in 1..sent[m]
          BY <1>7 DEF Followed
        <5>. QED
          BY <1>5, <5>1
      <4>4. Followed(m)'
        BY <1>7, <1>13, <4>1, <4>2, <4>3 DEF Followed
      <4>. QED
        BY <3>1, <4>1, <4>4
    <3>2. CASE n # m
      <4>1. sent'[n] = sent[n] /\ (n \in dropped' <=> n \in dropped)
        BY <1>5, <1>13, <3>2
      <4>. QED
        BY <1>2, <1>7, <1>13, <4>1 DEF Shown, Followed
    <3>. QED
      BY <3>1, <3>2
  <2>5. Grown
    <3>1. \A n \in Messages : Len(s.shown[n]) \in Nat
      BY <1>9
    <3>. QED
      BY <1>13, <3>1 DEF Grown
  <2>. QED
    BY <1>4, <2>1, <2>2, <2>3, <2>4, <2>5 DEF Followable, Texts
<1>. QED
  BY <1>10, <1>11, <1>12, <1>13

\* The session is idle: its history is fetched, and the verdict waits.
LEMMA Listed ==
    ASSUME Followable, SessionIdle
    PROVE  Followable' /\ Grown
<1>1. Typed /\ Counted /\ Own /\ Texts /\ TextComplete
  BY DEF Followable
<1>2. /\ pc = "reading" /\ pc' = "idle"
      /\ UNCHANGED <<verdict, parent, stored, sent, dropped>>
  BY DEF SessionIdle, Reading, openCodeVars
<1>3. Early /\ ~Early' /\ s \in State
  BY <1>1, <1>2 DEF Early, Typed
<1>4. CASE s' = UnrecoveredOverflow(Fetched(s)) /\ final' = stored
  <2>1. Fetched(s) \in State /\ Fetched(s).users = s.users /\ Fetched(s).compacted = s.compacted /\ Fetched(s).held = s.held
    BY <1>1, FetchedIs DEF Own
  <2>2. /\ s' \in State /\ s'.users = s.users /\ s'.compacted = s.compacted /\ s'.held = s.held
        /\ s'.summaries = Fetched(s).summaries
        /\ s'.allowed = Fetched(s).allowed /\ s'.shown = Fetched(s).shown
    BY <1>4, <2>1, UnrecoveredIs
  <2>3. Counted' /\ Own' /\ Texts' /\ TextComplete' /\ Grown
    BY <1>2, <1>3, <1>4, <2>2, Refetched
  <2>4. Typed'
    BY <1>1, <1>2, <1>3, <1>4, <2>2 DEF Typed
  <2>. QED
    BY <2>3, <2>4 DEF Followable
<1>5. CASE s' = UnrecoveredOverflow(s) /\ final' = final
  <2>1. /\ s' \in State /\ s'.users = s.users /\ s'.compacted = s.compacted /\ s'.held = s.held
        /\ s'.allowed = s.allowed /\ s'.shown = s.shown /\ s'.summaries = s.summaries
    BY <1>3, <1>5, UnrecoveredIs
  <2>2. s'.summaries \subseteq Summaries /\ s.users \subseteq s'.users
    BY <1>1, <2>1 DEF Own
  <2>3. Counted' /\ Own' /\ Texts' /\ Grown
    BY <1>1, <1>2, <1>3, <2>1, <2>2, Quiet
  <2>4. TextComplete'
    BY <1>1, <1>3, <1>5, NotYetFetched
  <2>5. Typed'
    BY <1>1, <1>2, <1>3, <1>5, <2>1 DEF Typed
  <2>. QED
    BY <2>3, <2>4, <2>5 DEF Followable
<1>. QED
  BY <1>4, <1>5 DEF SessionIdle

\* After a deadline, a silence or a lost connection it is fetched as well.
LEMMA CleanedUp ==
    ASSUME Followable, Cleanup
    PROVE  Followable' /\ Grown
<1>1. Typed /\ Counted /\ Own /\ Texts /\ TextComplete
  BY DEF Followable
<1>2. /\ pc = "cleanup" /\ pc' = "done" /\ FetchFinal
      /\ UNCHANGED <<verdict, parent, stored, sent, dropped>>
  BY DEF Cleanup
<1>3. ~Early /\ ~Early' /\ s \in State
  BY <1>1, <1>2 DEF Early, Typed
<1>4. CASE s' = Fetched(s) /\ final' = stored
  <2>1. /\ s' \in State /\ s'.users = s.users /\ s'.compacted = s.compacted /\ s'.held = s.held
        /\ s'.summaries = Fetched(s).summaries
        /\ s'.allowed = Fetched(s).allowed /\ s'.shown = Fetched(s).shown
    BY <1>1, <1>4, FetchedIs DEF Own
  <2>2. Counted' /\ Own' /\ Texts' /\ TextComplete' /\ Grown
    BY <1>2, <1>3, <1>4, <2>1, Refetched
  <2>3. verdict # "none"
    BY <1>1, <1>2 DEF Typed
  <2>4. Typed'
    BY <1>1, <1>2, <1>3, <1>4, <2>1, <2>3 DEF Typed
  <2>. QED
    BY <2>2, <2>4 DEF Followable
<1>5. CASE s' = s /\ final' = final
  <2>1. s'.summaries \subseteq Summaries /\ s.users \subseteq s'.users
    BY <1>1, <1>5 DEF Own
  <2>2. Counted' /\ Own' /\ Texts' /\ Grown
    BY <1>1, <1>2, <1>3, <1>5, <2>1, Quiet
  <2>3. TextComplete'
    BY <1>1, <1>2, <1>5, StillComplete
  <2>4. verdict # "none"
    BY <1>1, <1>2 DEF Typed
  <2>5. Typed'
    BY <1>1, <1>2, <1>3, <1>5, <2>4 DEF Typed
  <2>. QED
    BY <2>2, <2>3, <2>5 DEF Followable
<1>. QED
  BY <1>2, <1>4, <1>5 DEF FetchFinal

\* Every other step leaves texts, held parts and authorizations as they are.
LEMMA Other ==
    ASSUME Followable, s' \in State, s'.errors = s.errors \/ s'.errors = <<"failed">>,
           s'.shown = s.shown, s'.held = s.held, s'.allowed = s.allowed,
           s'.summaries = s.summaries, s.users \subseteq s'.users,
           parent' = parent, stored' = stored, sent' = sent, dropped' = dropped, final' = final,
           Early' => Early, ~Early => s' = s,
           pc' \in {"opening", "posting", "reading", "idle", "cleanup", "done"},
           verdict' \in Verdicts, pc' = "done" \/ pc' = "cleanup" => verdict' # "none"
    PROVE  Followable' /\ Grown
<1>1. Typed /\ Counted /\ Own /\ Texts /\ TextComplete
  BY DEF Followable
<1>2. Counted' /\ Own' /\ Texts' /\ Grown
  <2>1. s'.summaries \subseteq Summaries
    BY <1>1 DEF Own
  <2>. QED
    BY <1>1, <2>1, Quiet
<1>3. TextComplete'
  BY <1>1, StillComplete
<1>4. Typed'
  BY <1>1 DEF Typed
<1>. QED
  BY <1>2, <1>3, <1>4 DEF Followable

LEMMA VerdictIs == \A readErr \in BOOLEAN : Verdict(readErr) \in Verdicts \ {"none"}
BY DEF Verdict, Verdicts

LEMMA Returned ==
    ASSUME NEW v \in Verdicts \ {"none"}, ReturnWith(v)
    PROVE  /\ pc' \in {"cleanup", "done"} /\ verdict' = v /\ verdict' \in Verdicts /\ verdict' # "none"
           /\ ~Early'
BY DEF ReturnWith, Early

LEMMA FollowableInit ==
    ASSUME Init
    PROVE  Followable
<1>1. s = [users |-> {"prompt"}, allowed |-> {}, summaries |-> {}, compacted |-> FALSE, overflow |-> FALSE,
           shown |-> [m \in Messages |-> <<>>], held |-> [m \in Messages |-> <<>>], errors |-> <<>>]
  BY DEF Init
<1>2. "prompt" \in Users /\ parent = Parent /\ pc = "opening" /\ final = <<>> /\ dropped = {}
  BY MessagesAssumption DEF Init
<1>3. \A S : <<>> \in Seq(S)
  OBVIOUS
<1>4. s.shown \in [Messages -> Seq(Nat)] /\ s.held \in [Messages -> Seq(Part)]
  BY <1>1, <1>3
<1>5. s \in State
  BY <1>1, <1>2, <1>4 DEF State
<1>6. \A m \in Messages : s.shown[m] = <<>> /\ s.held[m] = <<>> /\ sent[m] = 0
  BY <1>1 DEF Init
<1>7. /\ stored \in [Messages -> Nat] /\ sent \in [Messages -> Nat]
      /\ \A m \in Messages : MaxChunks[m] \in Nat /\ (stored[m] = 0 \/ stored[m] = MaxChunks[m])
  <2>1. \A m \in Messages : MaxChunks[m] \in Nat
    BY BoundsAssumption
  <2>. QED
    BY <2>1 DEF Init
<1>8. Typed
  BY <1>1, <1>2, <1>5, <1>7 DEF Typed, Init, Verdicts
<1>9. Counted
  <2>1. Held(s) = {}
    <3>1. \A x : x \in Held(s) <=> \E m \in Messages : \E i \in 1..Len(s.held[m]) : x = <<m, i>>
      BY <1>5, HeldIs
    <3>2. \A m \in Messages : Len(s.held[m]) = 0
      BY <1>6
    <3>. QED
      BY <3>1, <3>2
  <2>2. IsFiniteSet(Held(s)) /\ Cardinality(Held(s)) = 0 /\ MaxHeld \in Nat
    BY <2>1, FS_EmptySet, BoundsAssumption
  <2>3. \A m \in Messages : sent[m] <= stored[m] /\ stored[m] <= MaxChunks[m]
    BY <1>6, <1>7
  <2>. QED
    BY <2>2, <2>3 DEF Counted, HeldTotal
<1>10. Own
  BY <1>1, <1>2, <1>6 DEF Own
<1>11. Texts
  <2> SUFFICES ASSUME NEW m \in Messages PROVE Shown(m) /\ Followed(m)
    BY DEF Texts
  <2>1. Ascending(<<>>, 0) /\ Text(0) = <<>> /\ Ascending(<<>>, stored[m]) /\ Len(<<>>) = 0
    BY <1>7, NoneIsAscending, TextIs
  <2>2. Shown(m)
    BY <1>6, <2>1 DEF Shown
  <2>3. Followed(m)
    <3>1. s.held[m] = <<>> /\ Len(s.held[m]) = 0 /\ sent[m] = 0 /\ s.shown[m] = <<>>
      BY <1>6
    <3>. QED
      BY <2>1, <3>1 DEF Followed
  <2>. QED
    BY <2>2, <2>3
<1>12. TextComplete
  BY <1>2 DEF TextComplete
<1>. QED
  BY <1>8, <1>9, <1>10, <1>11, <1>12 DEF Followable

\* A compaction rewrites parents, before anything was listed.
LEMMA Rewritten ==
    ASSUME NEW rewritten \in Rewrites, Followable, Settled, Compact(rewritten)
    PROVE  Followable' /\ Grown
<1>1. Typed /\ Counted /\ Own /\ Texts
  BY DEF Followable
<1>2. /\ UNCHANGED <<pc, verdict, s, stored, sent, final, dropped>> /\ pc # "done" /\ turn = "running"
      /\ parent' = [m \in Messages |-> IF m \in rewritten THEN "none" ELSE parent[m]]
  BY DEF Compact
<1>3. Typed' /\ Counted'
  BY <1>1, <1>2 DEF Typed, Counted, Early
<1>4. Own'
  BY <1>1, <1>2 DEF Own, ForPrompt
<1>5. Texts'
  BY <1>1, <1>2 DEF Texts, Shown, Followed, Early
<1>6. TextComplete'
  BY <1>2 DEF Settled, TextComplete
<1>7. Grown
  <2>1. \A m \in Messages : Len(s.shown[m]) \in Nat
    BY <1>1 DEF Typed, State
  <2>. QED
    BY <1>2, <2>1 DEF Grown
<1>. QED
  BY <1>3, <1>4, <1>5, <1>6, <1>7 DEF Followable

\* What was listed was listed at the end of the turn or of the stream.
LEMMA SettledNext ==
    ASSUME Typed, Settled, [Next]_vars
    PROVE  Settled'
<1>1. Early => final = <<>>
  BY DEF Typed
<1>2. CASE SessionIdle
  BY <1>2 DEF SessionIdle, Settled, openCodeVars
<1>3. CASE Cleanup
  BY <1>3 DEF Cleanup, Settled
<1>4. CASE Open \/ Post \/ FinishIdle \/ \E readErr \in BOOLEAN : ReadEnds(readErr)
  <2>1. UNCHANGED final /\ (Early \/ (pc = "idle" /\ turn' = turn))
    BY <1>4 DEF Open, Post, FinishIdle, ReadEnds, Early, openCodeVars
  <2>2. pc = "idle" /\ final # <<>> => turn = "over"
    BY DEF Settled
  <2>. QED
    BY <1>1, <2>1, <2>2 DEF Settled
<1>5. CASE Events /\ ~SessionIdle
  <2>1. UNCHANGED final /\ pc = "reading"
    BY <1>5 DEF Events, UserUpdated, MessageUpdated, PartUpdated, ContextOverflow, SessionError,
                SessionCompacted, Reading
  <2>. QED
    BY <1>1, <2>1 DEF Settled, Early
<1>6. CASE \/ Deadline \/ Inactivity \/ Cancel \/ TurnOver \/ UNCHANGED vars
           \/ \E m \in Messages : Write(m)
           \/ \E rewritten \in Rewrites : Compact(rewritten)
  <2>1. UNCHANGED <<pc, final>> /\ turn' \in {turn, "over"}
    BY <1>6 DEF Deadline, Inactivity, Cancel, TurnOver, Write, Compact, vars, openCodeVars
  <2>. QED
    BY <2>1 DEF Settled
<1>. QED
  BY <1>2, <1>3, <1>4, <1>5, <1>6 DEF Next, Stream

LEMMA FollowableNext ==
    ASSUME Followable, Settled, [Next]_vars
    PROVE  Followable' /\ Grown
<1>1. Typed /\ s \in State /\ s.errors \in {<<>>, <<"failed">>, <<"overflow">>}
      /\ verdict \in Verdicts /\ s.users \subseteq Users
  BY DEF Followable, Typed, State, Own
<1> USE DEF openCodeVars, timerVars
<1>2. CASE Open
  <2>1. /\ UNCHANGED <<s, parent, stored, sent, dropped, final>> /\ Early
        /\ \/ pc' = "posting" /\ verdict' = verdict
           \/ ReturnWith(Verdict(TRUE)) \/ ReturnWith("refused")
    BY <1>2 DEF Open, Early
  <2>2. /\ pc' \in {"posting", "cleanup", "done"} /\ verdict' \in Verdicts
        /\ pc' = "done" \/ pc' = "cleanup" => verdict' # "none"
    BY <1>1, <2>1, VerdictIs, Returned DEF Verdicts
  <2>. QED
    BY <1>1, <2>1, <2>2, Other
<1>3. CASE Post
  <2>1. /\ UNCHANGED <<s, parent, stored, sent, dropped, final>> /\ Early
        /\ \/ pc' = "reading" /\ verdict' = verdict
           \/ ReturnWith("deadline") \/ ReturnWith("refused")
    BY <1>3 DEF Post, Early
  <2>2. /\ pc' \in {"reading", "cleanup", "done"} /\ verdict' \in Verdicts
        /\ pc' = "done" \/ pc' = "cleanup" => verdict' # "none"
    BY <1>1, <2>1, Returned DEF Verdicts
  <2>. QED
    BY <1>1, <2>1, <2>2, Other
<1>4. ASSUME NEW u \in Users, UserUpdated(u) PROVE Followable' /\ Grown
  <2>1. /\ pc = "reading" /\ s' = [s EXCEPT !.users = @ \cup {u}]
        /\ UNCHANGED <<pc, verdict, parent, stored, sent, dropped, final>> /\ Early
    BY <1>4 DEF UserUpdated, Reading, Stays, Early
  <2>2. /\ s' \in State /\ s'.users = s.users \cup {u} /\ s'.shown = s.shown /\ s'.held = s.held
        /\ s'.allowed = s.allowed /\ s'.summaries = s.summaries /\ s'.errors = s.errors
    BY <1>1, <2>1 DEF State
  <2>. QED
    BY <1>1, <2>1, <2>2, Other DEF Early
<1>5. CASE ContextOverflow
  <2>1. /\ pc = "reading" /\ s' = [s EXCEPT !.overflow = TRUE]
        /\ UNCHANGED <<pc, verdict, parent, stored, sent, dropped, final>> /\ Early
    BY <1>5 DEF ContextOverflow, Reading, Stays, Early
  <2>2. /\ s' \in State /\ s'.users = s.users /\ s'.shown = s.shown /\ s'.held = s.held
        /\ s'.allowed = s.allowed /\ s'.summaries = s.summaries /\ s'.errors = s.errors
    BY <1>1, <2>1 DEF State
  <2>. QED
    BY <1>1, <2>1, <2>2, Other DEF Early
<1>6. CASE SessionError
  <2>1. /\ pc = "reading" /\ s' = ErrorOnce(s, "failed") /\ ReturnWith(Verdict(FALSE))
        /\ UNCHANGED <<parent, stored, sent, dropped, final>> /\ Early /\ s.errors # <<"overflow">>
    BY <1>1, <1>6 DEF SessionError, Reading, Early, Typed
  <2>2. /\ s' \in State /\ s'.users = s.users /\ s'.shown = s.shown /\ s'.held = s.held
        /\ s'.allowed = s.allowed /\ s'.summaries = s.summaries /\ s'.errors = <<"failed">>
    BY <1>1, <2>1, ErrorOnceIs
  <2>3. /\ pc' \in {"cleanup", "done"} /\ verdict' \in Verdicts /\ verdict' # "none" /\ ~Early'
    BY <2>1, VerdictIs, Returned
  <2>. QED
    BY <1>1, <2>1, <2>2, <2>3, Other
<1>7. CASE SessionCompacted
  <2>1. /\ pc = "reading" /\ s' = [s EXCEPT !.compacted = TRUE, !.overflow = FALSE]
        /\ UNCHANGED <<pc, verdict, parent, stored, sent, dropped, final>> /\ Early
    BY <1>7 DEF SessionCompacted, Reading, Stays, Early
  <2>2. /\ s' \in State /\ s'.users = s.users /\ s'.shown = s.shown /\ s'.held = s.held
        /\ s'.allowed = s.allowed /\ s'.summaries = s.summaries /\ s'.errors = s.errors
    BY <1>1, <2>1 DEF State
  <2>. QED
    BY <1>1, <2>1, <2>2, Other DEF Early
<1>8. CASE FinishIdle
  <2>1. /\ pc = "idle" /\ ReturnWith(Verdict(FALSE))
        /\ UNCHANGED <<s, parent, stored, sent, dropped, final>> /\ ~Early
    BY <1>8 DEF FinishIdle, Early
  <2>2. /\ pc' \in {"cleanup", "done"} /\ verdict' \in Verdicts /\ verdict' # "none" /\ ~Early'
    BY <2>1, VerdictIs, Returned
  <2>. QED
    BY <1>1, <2>1, <2>2, Other
<1>9. ASSUME NEW readErr \in BOOLEAN, ReadEnds(readErr) PROVE Followable' /\ Grown
  <2>1. /\ pc = "reading" /\ ReturnWith(Verdict(readErr))
        /\ UNCHANGED <<s, parent, stored, sent, dropped, final>> /\ Early
    BY <1>9 DEF ReadEnds, Early
  <2>2. /\ pc' \in {"cleanup", "done"} /\ verdict' \in Verdicts /\ verdict' # "none" /\ ~Early'
    BY <2>1, VerdictIs, Returned
  <2>. QED
    BY <1>1, <2>1, <2>2, Other
<1>10. CASE Deadline \/ Inactivity \/ Cancel \/ TurnOver \/ UNCHANGED vars
  <2>1. UNCHANGED <<pc, verdict, s, parent, stored, sent, dropped, final>>
    BY <1>10 DEF Deadline, Inactivity, Cancel, TurnOver, vars
  <2>2. /\ pc \in {"opening", "posting", "reading", "idle", "cleanup", "done"}
        /\ pc = "done" \/ pc = "cleanup" => verdict # "none"
    BY <1>1 DEF Typed
  <2>. QED
    BY <1>1, <2>1, <2>2, Other DEF Early
<1>. QED
  BY <1>2, <1>3, <1>4, <1>5, <1>6, <1>7, <1>8, <1>9, <1>10,
     Written, Rewritten, Announced, Arrived, Listed, CleanedUp DEF Next, Stream, Events

LEMMA TextStart ==
    ASSUME NEW k \in Nat, NEW n \in Nat, n <= k
    PROVE  SubSeq(Text(k), 1, n) = Text(n)
<1> DEFINE t == Text(k)
<1>1. \A i \in 1..n : t[i] = i /\ t[i] \in Nat
  <2>1. \A i \in 1..k : Text(k)[i] = i
    BY TextIs
  <2> HIDE DEF t
  <2>2. \A i \in 1..n : i \in 1..k /\ i \in Nat
    OBVIOUS
  <2>. QED
    BY <2>1, <2>2 DEF t
<1> HIDE DEF t
<1>2. 1 \in Int /\ n \in Int /\ \A i \in 1..n : t[i] \in Nat
  BY <1>1
<1>3. /\ SubSeq(t, 1, n) \in Seq(Nat) /\ Len(SubSeq(t, 1, n)) = IF 1 <= n THEN n - 1 + 1 ELSE 0
      /\ \A i \in 1..(n - 1 + 1) : SubSeq(t, 1, n)[i] = t[1 + i - 1]
  BY ONLY <1>2, SubSeqProperties
<1> DEFINE u == SubSeq(t, 1, n)
<1> HIDE DEF u
<1>4. u \in Seq(Nat) /\ Len(u) = n
  BY <1>3 DEF u
<1>5. \A i \in 1..n : u[i] = i
  <2> SUFFICES ASSUME NEW i \in 1..n PROVE u[i] = i
    OBVIOUS
  <2>1. i \in 1..(n - 1 + 1) /\ 1 + i - 1 = i
    OBVIOUS
  <2>2. u[i] = t[i]
    BY <1>3, <2>1 DEF u
  <2>. QED
    BY <1>1, <2>2
<1>6. Text(n) \in Seq(Nat) /\ Len(Text(n)) = n /\ \A i \in 1..n : Text(n)[i] = i
  BY TextIs
<1>7. u = Text(n)
  BY <1>4, <1>5, <1>6, SeqEqual
<1>. QED
  BY <1>7 DEF u, t

LEMMA FollowableIsSafe ==
    ASSUME Followable
    PROVE  TypeOK /\ OnlyOwnOutput /\ NoGaps /\ TextComplete
<1>1. Typed /\ Counted /\ Own /\ Texts /\ TextComplete
  BY DEF Followable
<1>2. TypeOK
  BY <1>1 DEF TypeOK, Typed, Counted, State, Own
<1>3. OnlyOwnOutput
  BY <1>1 DEF OnlyOwnOutput, Own, ForPrompt
<1>4. NoGaps
  <2> SUFFICES ASSUME NEW m \in Messages \ dropped PROVE IsPrefix(s.shown[m], Text(MaxChunks[m]))
    BY DEF NoGaps
  <2> DEFINE l == Len(s.shown[m])
  <2>1. s.shown[m] = Text(l) /\ Ascending(s.shown[m], stored[m]) /\ stored[m] \in Nat /\ stored[m] <= MaxChunks[m]
        /\ MaxChunks[m] \in Nat
    BY <1>1, BoundsAssumption DEF Texts, Shown, Typed, Counted
  <2>2. l \in Nat /\ l <= stored[m]
    BY <2>1, AllOfThem
  <2>3. l <= MaxChunks[m]
    BY <2>1, <2>2
  <2> HIDE DEF l
  <2>4. IsPrefix(Text(l), Text(MaxChunks[m]))
    BY <2>1, <2>2, <2>3, TextStart, TextIs DEF IsPrefix
  <2>. QED
    BY <2>1, <2>4
<1>. QED
  BY <1>1, <1>2, <1>3, <1>4

\* The transcript is the prompt's own, complete and in order, and is never taken
\* back, whatever order OpenCode's events come in and however many chunks,
\* messages and held parts there are (stream.go:441-562, 692-751; attribution.go).
THEOREM TranscriptIsOwn == Spec => OwnTranscript
<1>1. Init => Followable /\ Settled
  BY FollowableInit DEF Init, Settled
<1>2. Followable /\ Settled /\ [Next]_vars => (Followable /\ Settled)'
  BY FollowableNext, SettledNext DEF Followable
<1>3. Followable /\ Settled /\ [Next]_vars => [\A m \in Messages : Len(s.shown[m]) <= Len(s'.shown[m])]_vars
  BY FollowableNext DEF Grown
<1>4. Followable => TypeOK /\ OnlyOwnOutput /\ NoGaps /\ TextComplete
  BY FollowableIsSafe
<1>. QED
  BY <1>1, <1>2, <1>3, <1>4, PTL DEF Spec, OwnTranscript, TokensOnlyGrow

---------------------------------------------------------------------------
(* The verdict. *)

\* The stream's state has its fields, of which these say what was reported.
Reported(st) ==
    /\ DOMAIN st = {"users", "allowed", "summaries", "compacted", "overflow", "shown", "held", "errors"}
    /\ st = [f \in DOMAIN st |-> st[f]]
    /\ st.errors \in {<<>>, <<"failed">>, <<"overflow">>} /\ st.overflow \in BOOLEAN

\* What it says of the overflow and of the turn.
Judged ==
    /\ Reported(s) /\ overflowed = s.overflow /\ verdict \in Verdicts
    /\ s.errors = <<"overflow">> => ~Early /\ overflowed
    /\ pc = "idle" => turn = "over" /\ (overflowed => s.errors # <<>>)
    /\ verdict = "ok" =>
          /\ pc = "done" /\ (turn = "over" \/ s.errors # <<>>)
          /\ overflowed => s.errors # <<>>

\* Nothing but what reports changes what is reported.
SameReport(a, b) == Reported(b) /\ b.errors = a.errors /\ b.overflow = a.overflow

LEMMA Set ==
    ASSUME NEW st, Reported(st), NEW f \in DOMAIN st \ {"errors", "overflow"}, NEW v
    PROVE  SameReport(st, [st EXCEPT ![f] = v])
BY DEF Reported, SameReport

LEMMA HandledReport ==
    ASSUME NEW st, Reported(st), NEW m, NEW parts
    PROVE  SameReport(st, HandleParts(st, m, parts))
<1>1. \E v : HandleParts(st, m, parts) = [st EXCEPT !.shown = v]
  BY DEF HandleParts
<1>2. "shown" \in DOMAIN st \ {"errors", "overflow"}
  BY DEF Reported
<1>. QED
  BY <1>1, <1>2, Set

LEMMA ClassifyReport ==
    ASSUME NEW st, Reported(st), NEW ms
    PROVE  SameReport(st, Classify(st, ms))
<1>1. \E v, w : Classify(st, ms) = [[st EXCEPT !.allowed = v] EXCEPT !.summaries = w]
  BY DEF Classify, Reported
<1>2. PICK v, w : Classify(st, ms) = [[st EXCEPT !.allowed = v] EXCEPT !.summaries = w]
  BY <1>1
<1>3. SameReport(st, [st EXCEPT !.allowed = v])
  BY Set DEF Reported
<1>4. SameReport([st EXCEPT !.allowed = v], [[st EXCEPT !.allowed = v] EXCEPT !.summaries = w])
  BY <1>3, Set DEF Reported, SameReport
<1>. QED
  BY <1>2, <1>3, <1>4 DEF SameReport

LEMMA ReplayedReport ==
    ASSUME NEW st, Reported(st), NEW m
    PROVE  SameReport(st, ReplayHeld(st, m))
<1> DEFINE h == [st EXCEPT !.held[m] = <<>>]
<1>1. SameReport(st, h)
  <2>1. \E v : h = [st EXCEPT !.held = v]
    OBVIOUS
  <2>2. "held" \in DOMAIN st \ {"errors", "overflow"}
    BY DEF Reported
  <2>. QED
    BY <2>1, <2>2, Set
<1>2. SameReport(h, HandleParts(h, m, st.held[m]))
  <2>1. Reported(h)
    BY <1>1 DEF SameReport
  <2> HIDE DEF h
  <2>. QED
    BY <2>1, HandledReport
<1>3. ReplayHeld(st, m) = HandleParts(h, m, st.held[m])
  BY DEF ReplayHeld
<1>. QED
  BY <1>1, <1>2, <1>3 DEF SameReport

LEMMA FetchedReport ==
    ASSUME NEW st, Reported(st)
    PROVE  SameReport(st, Fetched(st))
<1> DEFINE c == Classify(st, Persisted)
<1>1. SameReport(st, c)
  BY ClassifyReport
<1>2. \E v : Fetched(st) = [c EXCEPT !.shown = v]
  BY DEF Fetched
<1> HIDE DEF c
<1>3. SameReport(c, Fetched(st))
  BY <1>1, <1>2, Set DEF Reported, SameReport
<1>. QED
  BY <1>1, <1>3 DEF SameReport

LEMMA FailedReport ==
    ASSUME NEW st, Reported(st), st.errors # <<"overflow">>
    PROVE  LET e == ErrorOnce(st, "failed") IN
           Reported(e) /\ e.overflow = st.overflow /\ e.errors = <<"failed">>
<1>1. CASE st.errors = <<>>
  <2>1. "failed" \notin ToSet(st.errors) /\ Append(st.errors, "failed") = <<"failed">>
    BY <1>1 DEF ToSet
  <2>2. ErrorOnce(st, "failed") = [st EXCEPT !.errors = <<"failed">>]
    BY <2>1 DEF ErrorOnce, Reported
  <2>. QED
    BY <2>2 DEF Reported
<1>2. CASE st.errors = <<"failed">>
  <2>1. "failed" \in ToSet(st.errors)
    <3>1. 1 \in DOMAIN st.errors /\ st.errors[1] = "failed"
      BY <1>2
    <3>. QED
      BY <3>1 DEF ToSet
  <2>. QED
    BY <1>2, <2>1 DEF ErrorOnce
<1>. QED
  BY <1>1, <1>2 DEF Reported

LEMMA UnrecoveredReport ==
    ASSUME NEW st, Reported(st)
    PROVE  LET e == UnrecoveredOverflow(st) IN
           /\ Reported(e) /\ e.overflow = st.overflow
           /\ e.errors = IF st.overflow /\ st.errors = <<>> THEN <<"overflow">> ELSE st.errors
BY DEF UnrecoveredOverflow, Reported

LEMMA JudgedInit == Init => Judged
<1> SUFFICES ASSUME Init PROVE Judged
  OBVIOUS
<1>1. s.errors = <<>> /\ s.overflow = FALSE /\ <<>> # <<"overflow">>
  BY DEF Init
<1>2. /\ DOMAIN s = {"users", "allowed", "summaries", "compacted", "overflow", "shown", "held", "errors"}
      /\ s = [f \in DOMAIN s |-> s[f]]
  BY DEF Init
<1>3. overflowed = FALSE /\ verdict = "none" /\ pc = "opening" /\ verdict \in Verdicts
  BY DEF Init, Verdicts
<1>. QED
  BY <1>1, <1>2, <1>3 DEF Judged, Reported

LEMMA ReadErrorIsNotOk == Verdict(TRUE) # "ok"
BY DEF Verdict

\* Steps that neither report nor move the stream.
LEMMA JudgedQuiet ==
    ASSUME Judged, SameReport(s, s'), overflowed' = overflowed, pc' = pc, verdict' = verdict,
           turn = "over" => turn' = "over"
    PROVE  Judged'
BY DEF Judged, SameReport, Early

LEMMA JudgedNext ==
    ASSUME Judged, [Next]_vars, ~CleanEnd
    PROVE  Judged'
<1>1. Reported(s) /\ SameReport(s, s)
  BY DEF Judged, SameReport
<1> USE DEF timerVars, openCodeVars
<1>2. CASE Open
  <2>1. /\ pc = "opening" /\ UNCHANGED <<s, overflowed>> /\ verdict' # "ok" /\ verdict' \in Verdicts
        /\ pc' \in {"posting", "cleanup", "done"}
    <3>1. pc = "opening" /\ UNCHANGED <<s, overflowed>> /\ verdict # "ok" /\ verdict \in Verdicts
      BY <1>2 DEF Open, Judged
    <3>2. \/ pc' = "posting" /\ verdict' = verdict
          \/ ReturnWith(Verdict(TRUE)) \/ ReturnWith("refused")
      BY <1>2 DEF Open
    <3>3. /\ Verdict(TRUE) \in Verdicts \ {"none"} /\ Verdict(TRUE) # "ok"
          /\ "refused" \in Verdicts \ {"none"}
      BY VerdictIs, ReadErrorIsNotOk DEF Verdicts
    <3>4. ReturnWith(Verdict(TRUE)) \/ ReturnWith("refused")
             => verdict' \in Verdicts /\ verdict' # "ok" /\ pc' \in {"cleanup", "done"}
      BY <3>3, Returned
    <3>. QED
      BY <3>1, <3>2, <3>4
  <2>. QED
    BY <2>1 DEF Judged, Early
<1>3. CASE Post
  <2>1. /\ pc = "posting" /\ UNCHANGED <<s, overflowed>> /\ verdict' # "ok" /\ verdict' \in Verdicts
        /\ pc' \in {"reading", "cleanup", "done"}
    <3>1. pc = "posting" /\ UNCHANGED <<s, overflowed>> /\ verdict # "ok" /\ verdict \in Verdicts
      BY <1>3 DEF Post, Judged
    <3>2. \/ pc' = "reading" /\ verdict' = verdict
          \/ ReturnWith("deadline") \/ ReturnWith("refused")
      BY <1>3 DEF Post
    <3>. QED
      BY <3>1, <3>2, Returned DEF Verdicts
  <2>. QED
    BY <2>1 DEF Judged, Early
<1>4. ASSUME NEW u \in Users, UserUpdated(u) PROVE Judged'
  <2> DEFINE v == s.users \cup {u}
  <2>1. s' = [s EXCEPT !.users = v] /\ UNCHANGED <<overflowed, pc, verdict, turn>>
    BY <1>4 DEF UserUpdated, Stays
  <2> HIDE DEF v
  <2>2. "users" \in DOMAIN s \ {"errors", "overflow"}
    BY <1>1 DEF Reported
  <2>3. SameReport(s, s')
    BY <1>1, <2>1, <2>2, Set
  <2>. QED
    BY <2>1, <2>3, JudgedQuiet
<1>5. ASSUME NEW m \in Messages, NEW failed \in BOOLEAN, MessageUpdated(m, failed) PROVE Judged'
  <2>1. /\ pc = "reading" /\ UNCHANGED <<overflowed, pc, verdict, turn>>
        /\ Early /\ s.errors # <<"overflow">>
    BY <1>5 DEF MessageUpdated, Reading, Stays, Judged, Early
  <2> DEFINE seen == IF failed /\ Disposition(s, m) # "reject" THEN ErrorOnce(s, "failed") ELSE s
  <2>2. /\ Reported(seen) /\ seen.overflow = s.overflow
        /\ seen.errors = s.errors \/ seen.errors = <<"failed">>
    BY <1>1, <2>1, FailedReport
  <2>3. s' = Classify(seen, {m}) \/ s' = ReplayHeld(Classify(seen, {m}), m)
    BY <1>5 DEF MessageUpdated
  <2> HIDE DEF seen
  <2>4. SameReport(seen, s')
    BY <2>2, <2>3, ClassifyReport, ReplayedReport DEF SameReport
  <2>5. /\ Reported(s') /\ s'.overflow = s.overflow
        /\ s'.errors = s.errors \/ s'.errors = <<"failed">>
    BY <2>2, <2>4 DEF SameReport
  <2>6. s'.errors # <<"overflow">> /\ verdict # "ok" /\ pc' = "reading"
    BY <2>1, <2>5 DEF Judged
  <2>. QED
    BY <2>1, <2>5, <2>6 DEF Judged
<1>6. ASSUME NEW m \in Messages, NEW full \in BOOLEAN, PartUpdated(m, full) PROVE Judged'
  <2>1. UNCHANGED <<overflowed, pc, verdict, turn>>
    BY <1>6 DEF PartUpdated, Stays
  <2>2. \/ s' = s
        \/ \E parts : s' = HandleParts(s, m, parts)
        \/ \E v : s' = [s EXCEPT !.held = v]
    BY <1>6 DEF PartUpdated
  <2>3. "held" \in DOMAIN s \ {"errors", "overflow"}
    BY <1>1 DEF Reported
  <2>4. SameReport(s, s')
    BY <1>1, <2>2, <2>3, Set, HandledReport
  <2>. QED
    BY <2>1, <2>4, JudgedQuiet
<1>7. CASE ContextOverflow
  <2>1. /\ pc = "reading" /\ s' = [s EXCEPT !.overflow = TRUE] /\ overflowed' = TRUE /\ UNCHANGED <<pc, verdict>>
        /\ verdict # "ok" /\ s.errors # <<"overflow">> /\ verdict \in Verdicts
    BY <1>7 DEF ContextOverflow, Reading, Stays, Judged, Early
  <2>2. Reported(s') /\ s'.overflow = TRUE /\ s'.errors = s.errors
    BY <1>1, <2>1 DEF Reported
  <2>. QED
    BY <2>1, <2>2 DEF Judged
<1>8. CASE SessionCompacted
  <2>1. /\ pc = "reading" /\ s' = [[s EXCEPT !.compacted = TRUE] EXCEPT !.overflow = FALSE]
        /\ overflowed' = FALSE /\ UNCHANGED <<pc, verdict>>
        /\ verdict # "ok" /\ s.errors # <<"overflow">> /\ verdict \in Verdicts
    BY <1>1, <1>8 DEF SessionCompacted, Reading, Stays, Judged, Early, Reported
  <2>2. Reported(s') /\ s'.overflow = FALSE /\ s'.errors = s.errors
    BY <1>1, <2>1 DEF Reported
  <2>. QED
    BY <2>1, <2>2 DEF Judged
<1>9. CASE SessionError
  <2>1. /\ pc = "reading" /\ s' = ErrorOnce(s, "failed") /\ ReturnWith(Verdict(FALSE)) /\ overflowed' = overflowed
        /\ s.errors # <<"overflow">>
    BY <1>9 DEF SessionError, Reading, Judged, Early
  <2>2. Reported(s') /\ s'.overflow = s.overflow /\ s'.errors = <<"failed">>
    BY <1>1, <2>1, FailedReport
  <2>3. <<"failed">> # <<>> /\ <<"failed">> # <<"overflow">>
    OBVIOUS
  <2>4. /\ pc' = IF verdict' \in {"deadline", "inactive", "disconnected"} THEN "cleanup" ELSE "done"
        /\ verdict' \in Verdicts
    BY <2>1, VerdictIs DEF ReturnWith
  <2>. QED
    BY <2>1, <2>2, <2>3, <2>4 DEF Judged
<1>10. CASE SessionIdle
  <2>1. /\ pc = "reading" /\ pc' = "idle" /\ turn' = "over" /\ UNCHANGED <<verdict, overflowed>>
        /\ verdict # "ok" /\ s.errors # <<"overflow">> /\ verdict \in Verdicts
    BY <1>10 DEF SessionIdle, Reading, Judged, Early
  <2>2. PICK st : SameReport(s, st) /\ s' = UnrecoveredOverflow(st)
    BY <1>1, <1>10, FetchedReport DEF SessionIdle
  <2>3. /\ Reported(st) /\ st.overflow = s.overflow /\ st.errors = s.errors
    BY <2>2 DEF SameReport
  <2>4. /\ Reported(s') /\ s'.overflow = s.overflow
        /\ s'.errors = IF s.overflow /\ s.errors = <<>> THEN <<"overflow">> ELSE s.errors
    BY <2>2, <2>3, UnrecoveredReport
  <2>5. <<"overflow">> # <<>>
    OBVIOUS
  <2>. QED
    BY <1>1, <2>1, <2>4, <2>5 DEF Judged, Early, Reported
<1>11. CASE FinishIdle
  <2>1. /\ pc = "idle" /\ ReturnWith(Verdict(FALSE)) /\ UNCHANGED <<s, overflowed, turn>>
    BY <1>11 DEF FinishIdle
  <2>2. /\ pc' = IF verdict' \in {"deadline", "inactive", "disconnected"} THEN "cleanup" ELSE "done"
        /\ verdict' \in Verdicts
    BY <2>1, VerdictIs DEF ReturnWith
  <2>. QED
    BY <2>1, <2>2 DEF Judged, Early
<1>12. ASSUME NEW readErr \in BOOLEAN, ReadEnds(readErr) PROVE Judged'
  <2>1. /\ pc = "reading" /\ readErr = TRUE /\ ReturnWith(Verdict(TRUE)) /\ UNCHANGED <<s, overflowed, turn>>
    BY <1>12 DEF ReadEnds
  <2>2. pc' \in {"cleanup", "done"} /\ verdict' \in Verdicts /\ verdict' # "ok"
    BY <2>1, VerdictIs, Returned, ReadErrorIsNotOk
  <2>. QED
    BY <2>1, <2>2 DEF Judged, Early
<1>13. CASE Cleanup
  <2>1. /\ pc = "cleanup" /\ pc' = "done" /\ UNCHANGED <<verdict, overflowed>> /\ FetchFinal
        /\ verdict # "ok" /\ verdict \in Verdicts
    BY <1>13 DEF Cleanup, Judged
  <2>2. SameReport(s, s')
    BY <1>1, <2>1, FetchedReport DEF FetchFinal
  <2>. QED
    BY <2>1, <2>2 DEF Judged, SameReport, Early
<1>14. CASE Deadline \/ Inactivity \/ Cancel \/ TurnOver \/ UNCHANGED vars \/ (\E m \in Messages : Write(m))
            \/ \E rewritten \in Rewrites : Compact(rewritten)
  <2>1. /\ UNCHANGED <<s, overflowed, pc, verdict>> /\ (turn = "over" => turn' = "over")
    BY <1>14 DEF Deadline, Inactivity, Cancel, TurnOver, Write, Compact, vars
  <2>. QED
    BY <1>1, <2>1, JudgedQuiet
<1>. QED
  BY <1>2, <1>3, <1>4, <1>5, <1>6, <1>7, <1>8, <1>9, <1>10, <1>11, <1>12, <1>13, <1>14
  DEF Next, Stream, Events

\* While a verdict is open, an overrun budget is never taken for silence.
LEMMA DeadlineFirst ==
    ASSUME [Next]_vars
    PROVE  [deadline /\ ~cancelled /\ verdict = "none" => verdict' # "inactive"]_vars
<1>1. deadline /\ ~cancelled => \A readErr \in BOOLEAN : Verdict(readErr) = "deadline"
  BY DEF Verdict, PromptDeadlineExceeded
<1> SUFFICES ASSUME Next, deadline, ~cancelled, verdict = "none" PROVE verdict' # "inactive"
  OBVIOUS
<1>2. \/ verdict' = verdict
      \/ \E readErr \in BOOLEAN : verdict' = Verdict(readErr)
      \/ verdict' \in {"refused", "deadline"}
  BY DEF Next, Stream, Events, Open, Post, FinishIdle, Cleanup, ReadEnds, ReturnWith, UserUpdated,
         MessageUpdated, PartUpdated, ContextOverflow, SessionError, SessionCompacted, SessionIdle,
         Stays, Deadline, Inactivity, Cancel, TurnOver, Write, Compact
<1>. QED
  BY <1>1, <1>2

LEMMA JudgedIsHonest ==
    ASSUME Judged
    PROVE  ErrorsOnce /\ OverflowIsHonest /\ OkIsIdle
<1>1. s.errors \in {<<>>, <<"failed">>, <<"overflow">>}
  BY DEF Judged, Reported
<1>2. ASSUME NEW e PROVE ToSet(<<e>>) = {e} /\ Cardinality(ToSet(<<e>>)) = Len(<<e>>)
  <2>1. ToSet(<<e>>) = {e}
    BY DEF ToSet
  <2>. QED
    BY <2>1, FS_Singleton
<1>3. ToSet(<<>>) = {} /\ Cardinality(ToSet(<<>>)) = Len(<<>>)
  <2>1. ToSet(<<>>) = {}
    BY DEF ToSet
  <2>. QED
    BY <2>1, FS_EmptySet
<1>4. ErrorsOnce
  BY <1>1, <1>2, <1>3 DEF ErrorsOnce
<1>5. "overflow" \in ToSet(s.errors) => s.errors = <<"overflow">>
  <2>1. ToSet(<<"failed">>) = {"failed"}
    BY <1>2
  <2>. QED
    BY <1>1, <1>3, <2>1
<1>6. OverflowIsHonest
  BY <1>5 DEF OverflowIsHonest, Judged
<1>7. OkIsIdle
  BY DEF OkIsIdle, Judged
<1>. QED
  BY <1>4, <1>6, <1>7

\* What the stream returns is what happened: nil only for an idle session or a
\* reported error, an error once, an overflow that was not compacted always, and
\* an overrun budget by its name (stream.go:91-208, 428-445).
THEOREM VerdictIsHonest == ~CleanEnd => (Spec => VerdictHonest)
<1> SUFFICES ASSUME ~CleanEnd PROVE Spec => VerdictHonest
  OBVIOUS
<1>1. Judged /\ [Next]_vars => Judged'
  BY JudgedNext
<1>2. Judged => ErrorsOnce /\ OverflowIsHonest /\ OkIsIdle
  BY JudgedIsHonest
<1>. QED
  BY JudgedInit, <1>1, <1>2, DeadlineFirst, PTL DEF Spec, VerdictHonest, DeadlineIsNamed
---------------------------------------------------------------------------
(* Child sessions. *)

Tagged == [part : Nat, task : Tasks \cup {None}]
Waiting == [child : Children, message : ChildMessages \cup {None}, isErr : BOOLEAN, canCorrelate : BOOLEAN]
ChildState ==
    [tracked : SUBSET Children, allowed : SUBSET ChildMessages, pending : SUBSET Waiting,
     session : [Children -> Tasks \cup {None}], closed : [Children -> Tasks \cup {None}],
     child : [Tasks -> Children \cup {None}], owner : [ChildMessages -> Tasks \cup {None}],
     held : [ChildMessages -> Seq(Nat)], emitted : [ChildMessages -> Seq(Tagged)],
     seen : SUBSET (ChildMessages \X Nat), errs : SUBSET [child : Children, task : Tasks \cup {None}]]

ChildrenTyped ==
    /\ childEnded \in BOOLEAN /\ work \in Workloads /\ current \in [Children -> Tasks \cup {None}]
    /\ childSent \in [ChildMessages -> Nat] /\ truth \in [ChildMessages -> Tasks \cup {None}]
    /\ accepted \subseteq ChildMessages /\ arrived \in [ChildMessages -> SUBSET Nat]
    /\ errors \subseteq [child : Children, task : Tasks]

\* The parts of a message that are out, and those that wait.
Out(st, m) == {st.emitted[m][i].part : i \in 1..Len(st.emitted[m])}
Kept(st, m) == {st.held[m][i] : i \in 1..Len(st.held[m])}

\* Both are in the order of the message, have one owner, and are remembered.
Orderly(st, m) ==
    /\ Out(st, m) \subseteq 0..childSent[m]
    /\ \A i, j \in 1..Len(st.emitted[m]) : i < j => st.emitted[m][i].part < st.emitted[m][j].part
    /\ \A i \in 1..Len(st.emitted[m]) : st.emitted[m][i].task = st.owner[m]
    /\ \A k \in Nat : <<m, k>> \in st.seen <=> k \in Out(st, m)
    /\ Kept(st, m) \subseteq 0..childSent[m]
    /\ \A i, j \in 1..Len(st.held[m]) : i < j => st.held[m][i] <= st.held[m][j]

\* A message is out or it waits, and what came of it is there.
OutOrWaits(st, m) ==
    /\ m \in st.allowed => st.held[m] = <<>> /\ arrived[m] \subseteq Out(st, m)
                           /\ (~childEnded => st.owner[m] # None)
    /\ m \notin st.allowed => st.emitted[m] = <<>> /\ arrived[m] \subseteq Kept(st, m)
                              /\ st.owner[m] = None
    /\ m \in accepted /\ m \notin st.allowed => ~childEnded /\ C!IsPending(st, m)

\* Whoever a child or a message is bound to is a Task call of that child.
Mine(t, c) == t # None => C!TaskChild[t] = c
Bound(st) ==
    /\ \A c \in Children : Mine(st.session[c], c) /\ Mine(st.closed[c], c) /\ Mine(current[c], c)
    /\ \A t \in Tasks : st.child[t] \in {None, C!TaskChild[t]}
    /\ \A m \in ChildMessages : /\ Mine(st.owner[m], C!MessageChild[m]) /\ Mine(truth[m], C!MessageChild[m])
                                /\ truth[m] = None => st.owner[m] = None /\ st.emitted[m] = <<>>
    /\ \A e \in errors : C!TaskChild[e.task] = e.child
    /\ \A e \in st.errs : /\ Mine(e.task, e.child) /\ \E f \in errors : f.child = e.child
                          /\ ~childEnded => e.task # None

\* What is pending is a child's that never had a Task call.
Waits(st) ==
    \A a \in st.pending :
        /\ a.canCorrelate /\ C!TaskForActivity(st, a.child) = None
        /\ a.isErr => \E f \in errors : f.child = a.child
        /\ ~a.isErr => /\ a.message \in ChildMessages /\ a.child = C!MessageChild[a.message]
                       /\ a.message \notin st.allowed /\ truth[a.message] # None

\* Neither buffer is over its limit.
Room(st) ==
    /\ IsFiniteSet(st.pending) /\ Cardinality(st.pending) <= MaxPending
    /\ IsFiniteSet(C!Held(st)) /\ Cardinality(C!Held(st)) <= MaxChildHeld

\* The state of the correlator, and the invariant.
Correlated(st) ==
    /\ st \in ChildState /\ Bound(st) /\ Waits(st) /\ Room(st)
    /\ \A m \in ChildMessages : Orderly(st, m) /\ OutOrWaits(st, m)

ChildInv == ChildrenTyped /\ Correlated(children)

\* The instance's sets are this module's.
LEMMA ChildCount ==
    /\ \A S : C!Cardinality(S) = Cardinality(S)
    /\ \A q : C!ToSet(q) = {q[i] : i \in DOMAIN q}
BY DEF C!Cardinality, Cardinality, C!ToSet

LEMMA ChildStateIs ==
    ASSUME NEW st \in ChildState
    PROVE  /\ st = [tracked |-> st.tracked, allowed |-> st.allowed, pending |-> st.pending,
                    session |-> st.session, closed |-> st.closed, child |-> st.child, owner |-> st.owner,
                    held |-> st.held, emitted |-> st.emitted, seen |-> st.seen, errs |-> st.errs]
           /\ st.tracked \subseteq Children /\ st.allowed \subseteq ChildMessages /\ st.pending \subseteq Waiting
           /\ st.session \in [Children -> Tasks \cup {None}] /\ st.closed \in [Children -> Tasks \cup {None}]
           /\ st.child \in [Tasks -> Children \cup {None}] /\ st.owner \in [ChildMessages -> Tasks \cup {None}]
           /\ st.held \in [ChildMessages -> Seq(Nat)] /\ st.emitted \in [ChildMessages -> Seq(Tagged)]
           /\ st.seen \subseteq ChildMessages \X Nat
           /\ st.errs \subseteq [child : Children, task : Tasks \cup {None}]
BY DEF ChildState

\* The members of a finite set of numbers one after another.
LEMMA NthIs ==
    ASSUME NEW S \in SUBSET Nat, IsFiniteSet(S)
    PROVE  /\ \A n \in 1..Cardinality(S) : C!Nth(S, n) \in S
           /\ \A n, l \in 1..Cardinality(S) : n < l => C!Nth(S, n) < C!Nth(S, l)
           /\ \A i \in S : \E n \in 1..Cardinality(S) : C!Nth(S, n) = i
<1> DEFINE R(i) == {j \in S : j <= i}
           N == Cardinality(S)
           r == [i \in S |-> Cardinality(R(i))]
<1>1. N \in Nat
  BY FS_CardinalityType
<1>2. \A i \in S : IsFiniteSet(R(i)) /\ Cardinality(R(i)) \in 1..N
  <2> SUFFICES ASSUME NEW i \in S PROVE IsFiniteSet(R(i)) /\ Cardinality(R(i)) \in 1..N
    OBVIOUS
  <2>1. IsFiniteSet(R(i)) /\ Cardinality(R(i)) <= N
    BY FS_Subset
  <2>2. Cardinality(R(i)) \in Nat
    BY <2>1, FS_CardinalityType
  <2>3. Cardinality(R(i)) # 0
    <3>1. i \in R(i)
      OBVIOUS
    <3>. QED
      BY <2>1, <3>1, FS_EmptySet
  <2>. QED
    BY <1>1, <2>1, <2>2, <2>3
<1>3. \A i, j \in S : i < j => Cardinality(R(i)) < Cardinality(R(j))
  <2> SUFFICES ASSUME NEW i \in S, NEW j \in S, i < j PROVE Cardinality(R(i)) < Cardinality(R(j))
    OBVIOUS
  <2>1. R(i) \in SUBSET R(j) /\ j \in R(j) /\ j \notin R(i)
    <3>1. i \in Nat /\ j \in Nat /\ \A x \in S : x \in Nat
      OBVIOUS
    <3>2. \A x \in S : x <= i => x <= j
      BY <3>1
    <3>3. R(i) \subseteq R(j)
      BY <3>2
    <3>4. j <= j /\ ~(j <= i)
      BY <3>1
    <3>. QED
      BY <3>3, <3>4
  <2>2. Cardinality(R(i)) <= Cardinality(R(j)) /\ (Cardinality(R(j)) = Cardinality(R(i)) => R(j) = R(i))
    BY <1>2, <2>1, FS_Subset
  <2>. QED
    BY <1>1, <1>2, <2>1, <2>2
<1>4. r \in Injection(S, 1..N)
  <2>1. r \in [S -> 1..N]
    BY <1>2
  <2>2. \A i, j \in S : r[i] = r[j] => i = j
    <3> SUFFICES ASSUME NEW i \in S, NEW j \in S, r[i] = r[j], i # j PROVE FALSE
      OBVIOUS
    <3>1. i < j \/ j < i
      OBVIOUS
    <3>2. r[i] < r[j] \/ r[j] < r[i]
      BY <1>3, <3>1
    <3>3. r[i] \in Nat /\ r[j] \in Nat
      BY <2>1
    <3>. QED
      BY <3>2, <3>3
  <2>. QED
    BY <2>1, <2>2, Fun_IsInj
<1>5. IsFiniteSet(1..N) /\ Cardinality(1..N) = N
  BY <1>1, FS_Interval
<1>6. r \in Surjection(S, 1..N)
  BY <1>4, <1>5, FS_Injection
<1>7. \A n \in 1..N : \E i \in S : Cardinality(R(i)) = n
  BY <1>6 DEF Surjection
<1>8. \A n : C!Nth(S, n) = CHOOSE i \in S : Cardinality(R(i)) = n
  BY ChildCount DEF C!Nth
<1>9. \A n \in 1..N : C!Nth(S, n) \in S /\ Cardinality(R(C!Nth(S, n))) = n
  BY <1>7, <1>8
<1> HIDE DEF R, r
<1>10. \A n, l \in 1..N : n < l => C!Nth(S, n) < C!Nth(S, l)
  <2> SUFFICES ASSUME NEW n \in 1..N, NEW l \in 1..N, n < l, ~(C!Nth(S, n) < C!Nth(S, l)) PROVE FALSE
    OBVIOUS
  <2>1. PICK i \in S : i = C!Nth(S, n) /\ Cardinality(R(i)) = n
    BY <1>9
  <2>2. PICK j \in S : j = C!Nth(S, l) /\ Cardinality(R(j)) = l
    BY <1>9
  <2>3. j < i
    BY <2>1, <2>2
  <2>4. Cardinality(R(j)) < Cardinality(R(i))
    BY <1>3, <2>3
  <2>. QED
    BY <1>1, <2>1, <2>2, <2>4
<1>11. ASSUME NEW i \in S PROVE \E n \in 1..N : C!Nth(S, n) = i
  <2>1. PICK n \in 1..N : n = Cardinality(R(i))
    BY <1>2
  <2>2. PICK j \in S : j = C!Nth(S, n) /\ Cardinality(R(j)) = n
    BY <1>9
  <2>3. ~(i < j) /\ ~(j < i)
    BY <1>1, <1>3, <2>1, <2>2
  <2>. QED
    BY <2>2, <2>3
<1>. QED
  BY <1>9, <1>10, <1>11

\* What goes out of a message that waited: its held parts, each once, in order.
LEMMA ToldIs ==
    ASSUME NEW st \in ChildState, NEW m \in ChildMessages, \A k \in Nat : <<m, k>> \notin st.seen,
           \A i, j \in 1..Len(st.held[m]) : i < j => st.held[m][i] <= st.held[m][j]
    PROVE  LET t == C!Told(st, m) IN
           /\ t \in Seq(Tagged)
           /\ \A i, j \in 1..Len(t) : i < j => t[i].part < t[j].part
           /\ \A i \in 1..Len(t) : t[i].part \in Kept(st, m) /\ t[i].task = st.owner[m]
           /\ \A k \in Kept(st, m) : \E i \in 1..Len(t) : t[i].part = k
<1> DEFINE h == st.held[m]
           t == C!Told(st, m)
           F == {i \in 1..Len(h) : \A j \in 1..(i - 1) : h[j] # h[i]}
           N == Cardinality(F)
<1>1. h \in Seq(Nat) /\ Len(h) \in Nat /\ DOMAIN h = 1..Len(h) /\ \A i \in 1..Len(h) : h[i] \in Nat
  <2>1. h \in Seq(Nat)
    BY ChildStateIs
  <2>. QED
    BY <2>1, InSeq
<1>2. C!Fresh(st, m) = F
  <2>1. \A i \in 1..Len(h) : <<m, h[i]>> \notin st.seen
    BY <1>1
  <2>. QED
    BY <1>1, <2>1 DEF C!Fresh
<1>3. F \in SUBSET Nat /\ IsFiniteSet(F) /\ N \in Nat
  <2>1. F \in SUBSET (1..Len(h)) /\ IsFiniteSet(1..Len(h))
    BY <1>1, FS_Interval
  <2>2. IsFiniteSet(F)
    BY <2>1, FS_Subset
  <2>3. F \subseteq Nat
    BY <1>1
  <2>. QED
    BY <2>2, <2>3, FS_CardinalityType
<1>4. t = [n \in 1..N |-> [part |-> h[C!Nth(F, n)], task |-> st.owner[m]]]
  BY <1>2, ChildCount DEF C!Told
<1>5. st.owner[m] \in Tasks \cup {None}
  BY ChildStateIs
<1>6. \A i \in F : i \in 1..Len(h) /\ i \in Nat /\ \A j \in 1..(i - 1) : h[j] # h[i]
  BY <1>1
<1>7. \A i, j \in 1..Len(h) : i < j => h[i] <= h[j]
  OBVIOUS
<1>8. \A k \in Kept(st, m) : \E i \in 1..Len(h) : h[i] = k
  BY DEF Kept
<1>9. \A i \in 1..Len(h) : h[i] \in Kept(st, m)
  BY DEF Kept
<1>10. ASSUME NEW k \in Kept(st, m) PROVE \E i \in F : h[i] = k
  <2> DEFINE P == {i \in 1..Len(h) : h[i] = k}
  <2>1. P \in SUBSET Nat /\ P # {}
    BY <1>8, <1>1
  <2>2. Least(P) \in P /\ \A j \in P : Least(P) <= j
    BY <2>1, LeastExists
  <2>3. PICK i \in P : \A j \in P : i <= j
    BY <2>2
  <2>4. \A j \in 1..(i - 1) : h[j] # h[i]
    <3> SUFFICES ASSUME NEW j \in 1..(i - 1), h[j] = h[i] PROVE FALSE
      OBVIOUS
    <3>1. j \in P
      BY <1>1, <2>3
    <3>2. i <= j
      BY <2>3, <3>1
    <3>. QED
      BY <1>1, <2>3, <3>2
  <2>. QED
    BY <2>3, <2>4
<1> HIDE DEF h, F, t
<1>11. /\ \A n \in 1..N : C!Nth(F, n) \in F
       /\ \A n, l \in 1..N : n < l => C!Nth(F, n) < C!Nth(F, l)
       /\ \A i \in F : \E n \in 1..N : C!Nth(F, n) = i
  BY <1>3, NthIs
<1> HIDE DEF N
<1>12. /\ Len(t) = N /\ t \in Seq(Tagged)
       /\ \A n \in 1..N : t[n].part = h[C!Nth(F, n)] /\ t[n].task = st.owner[m]
  <2>1. \A n \in 1..N : h[C!Nth(F, n)] \in Nat
    BY <1>1, <1>6, <1>11
  <2>2. \A n \in 1..N : [part |-> h[C!Nth(F, n)], task |-> st.owner[m]] \in Tagged
    BY <1>5, <2>1 DEF Tagged
  <2>3. t \in [1..N -> Tagged]
    BY <1>4, <2>2
  <2>4. t \in Seq(Tagged) /\ Len(t) = N
    BY <1>3, <2>3
  <2>. QED
    BY <1>4, <2>4
<1>13. ASSUME NEW i \in 1..N, NEW j \in 1..N, i < j PROVE t[i].part < t[j].part
  <2>1. PICK a \in F : a = C!Nth(F, i)
    BY <1>11
  <2>2. PICK b \in F : b = C!Nth(F, j)
    BY <1>11
  <2>3. a < b
    BY <1>11, <1>13, <2>1, <2>2
  <2>4. a \in 1..(b - 1) /\ h[a] # h[b]
    <3>1. a \in 1..(b - 1)
      BY <1>1, <1>6, <2>3
    <3>. QED
      BY <1>6, <3>1
  <2>5. h[a] <= h[b] /\ h[a] \in Nat /\ h[b] \in Nat
    BY <1>1, <1>6, <1>7, <2>3
  <2>. QED
    BY <1>12, <2>1, <2>2, <2>4, <2>5
<1>14. \A k \in Kept(st, m) : \E i \in 1..N : t[i].part = k
  BY <1>10, <1>11, <1>12
<1>15. \A i \in 1..N : t[i].part \in Kept(st, m) /\ t[i].task = st.owner[m]
  BY <1>6, <1>9, <1>11, <1>12
<1>. QED
  BY <1>12, <1>13, <1>14, <1>15 DEF t

LEMMA NothingToTell ==
    ASSUME NEW st \in ChildState, NEW m \in ChildMessages, st.held[m] = <<>>
    PROVE  C!Told(st, m) = <<>>
<1>1. C!Fresh(st, m) = {}
  BY DEF C!Fresh
<1>2. C!Cardinality({}) = 0
  BY ChildCount, FS_EmptySet
<1>. QED
  BY <1>1, <1>2 DEF C!Told

\* One message of those that are drained.
Ready(st, m) ==
    /\ Orderly(st, m)
    /\ m \in st.allowed => st.held[m] = <<>>
    /\ m \notin st.allowed => st.emitted[m] = <<>>

\* drainChildMessage: what is held of the messages ms goes out, nothing else changes.
LEMMA DrainFields ==
    ASSUME NEW st \in ChildState, NEW ms \in SUBSET ChildMessages
    PROVE  LET d == C!Drain(st, ms) IN
           /\ d.tracked = st.tracked /\ d.session = st.session /\ d.closed = st.closed /\ d.child = st.child
           /\ d.pending = st.pending /\ d.owner = st.owner /\ d.errs = st.errs
           /\ d.allowed = st.allowed \cup ms
           /\ d.held = [m \in ChildMessages |-> IF m \in ms THEN <<>> ELSE st.held[m]]
           /\ d.seen = st.seen \cup UNION {{m} \X Kept(st, m) : m \in ms}
           /\ d.emitted = [m \in ChildMessages |->
                              IF m \in ms THEN st.emitted[m] \o C!Told(st, m) ELSE st.emitted[m]]
<1> DEFINE he == [m \in ChildMessages |-> IF m \in ms THEN <<>> ELSE st.held[m]]
           se == st.seen \cup UNION {{m} \X Kept(st, m) : m \in ms}
           em == [m \in ChildMessages |-> IF m \in ms THEN st.emitted[m] \o C!Told(st, m) ELSE st.emitted[m]]
<1>1. \A m \in ms : C!ToSet(st.held[m]) = Kept(st, m)
  <2> SUFFICES ASSUME NEW m \in ms PROVE C!ToSet(st.held[m]) = Kept(st, m)
    OBVIOUS
  <2>1. st.held[m] \in Seq(Nat)
    BY ChildStateIs
  <2>2. DOMAIN st.held[m] = 1..Len(st.held[m])
    BY <2>1
  <2>. QED
    BY <2>2, ChildCount DEF Kept
<1>2. {{m} \X C!ToSet(st.held[m]) : m \in ms} = {{m} \X Kept(st, m) : m \in ms}
  BY <1>1
<1>3. C!Drain(st, ms) = [st EXCEPT !.allowed = @ \cup ms, !.held = he, !.seen = se, !.emitted = em]
  BY <1>2 DEF C!Drain
<1> HIDE DEF he, se, em
<1> DEFINE al == st.allowed \cup ms
           d == [st EXCEPT !.allowed = al, !.held = he, !.seen = se, !.emitted = em]
<1> HIDE DEF al
<1>4. /\ d.tracked = st.tracked /\ d.session = st.session /\ d.closed = st.closed /\ d.child = st.child
      /\ d.pending = st.pending /\ d.owner = st.owner /\ d.errs = st.errs
      /\ d.allowed = al /\ d.held = he /\ d.seen = se /\ d.emitted = em
  BY DEF ChildState
<1>5. C!Drain(st, ms) = d
  BY <1>3 DEF al
<1>. QED
  BY <1>4, <1>5 DEF he, se, em, al

LEMMA DrainOne ==
    ASSUME NEW st \in ChildState, NEW ms \in SUBSET ChildMessages, NEW m \in ms, Ready(st, m)
    PROVE  LET d == C!Drain(st, ms) IN
           /\ d.emitted[m] \in Seq(Tagged) /\ d.held[m] = <<>>
           /\ \A k \in Nat : <<m, k>> \in d.seen <=> <<m, k>> \in st.seen \/ k \in Kept(st, m)
           /\ Orderly(d, m) /\ Out(st, m) \cup Kept(st, m) \subseteq Out(d, m)
<1> DEFINE d == C!Drain(st, ms)
           t == C!Told(st, m)
<1>1. /\ d.owner = st.owner /\ d.held[m] = <<>> /\ d.emitted[m] = st.emitted[m] \o t
      /\ d.seen = st.seen \cup UNION {{n} \X Kept(st, n) : n \in ms}
  <2>1. /\ d.owner = st.owner
        /\ d.held = [n \in ChildMessages |-> IF n \in ms THEN <<>> ELSE st.held[n]]
        /\ d.seen = st.seen \cup UNION {{n} \X Kept(st, n) : n \in ms}
        /\ d.emitted = [n \in ChildMessages |->
                           IF n \in ms THEN st.emitted[n] \o C!Told(st, n) ELSE st.emitted[n]]
    BY DrainFields
  <2> HIDE DEF d
  <2>. QED
    BY <2>1
<1>2. \A k \in Nat : <<m, k>> \in d.seen <=> <<m, k>> \in st.seen \/ k \in Kept(st, m)
  BY <1>1
<1>3. /\ st.emitted[m] \in Seq(Tagged) /\ st.held[m] \in Seq(Nat)
      /\ \A i \in 1..Len(st.held[m]) : st.held[m][i] \in Nat
  <2>1. st.emitted[m] \in Seq(Tagged) /\ st.held[m] \in Seq(Nat)
    BY ChildStateIs
  <2>. QED
    BY <2>1, InSeq
<1>4. Kept(d, m) = {}
  BY <1>1 DEF Kept
<1>5. CASE m \in st.allowed
  <2>1. t = <<>> /\ Kept(st, m) = {}
    BY <1>5, NothingToTell DEF Ready, Kept
  <2>2. d.emitted[m] = st.emitted[m]
    BY <1>1, <1>3, <2>1
  <2>3. Out(d, m) = Out(st, m)
    BY <2>2 DEF Out
  <2>. QED
    BY <1>1, <1>2, <1>3, <1>4, <2>1, <2>2, <2>3 DEF Ready, Orderly
<1>6. CASE m \notin st.allowed
  <2>1. st.emitted[m] = <<>> /\ Out(st, m) = {}
    BY <1>6 DEF Ready, Out
  <2>2. (\A k \in Nat : <<m, k>> \notin st.seen)
        /\ \A i, j \in 1..Len(st.held[m]) : i < j => st.held[m][i] <= st.held[m][j]
    BY <2>1 DEF Ready, Orderly
  <2>3. /\ t \in Seq(Tagged)
        /\ \A i, j \in 1..Len(t) : i < j => t[i].part < t[j].part
        /\ \A i \in 1..Len(t) : t[i].part \in Kept(st, m) /\ t[i].task = st.owner[m]
        /\ \A k \in Kept(st, m) : \E i \in 1..Len(t) : t[i].part = k
    BY <2>2, ToldIs
  <2>4. d.emitted[m] = t
    BY <1>1, <2>1, <2>3
  <2>5. Out(d, m) = Kept(st, m)
    BY <2>3, <2>4 DEF Out
  <2>6. Kept(st, m) \subseteq 0..childSent[m]
    BY DEF Ready, Orderly
  <2> HIDE DEF t, d
  <2>7. Orderly(d, m)
    <3>1. \A k \in Nat : <<m, k>> \in d.seen <=> k \in Out(d, m)
      BY <1>2, <2>2, <2>5
    <3>2. \A i, j \in 1..Len(d.held[m]) : i < j => d.held[m][i] <= d.held[m][j]
      BY <1>1
    <3>3. /\ \A i, j \in 1..Len(d.emitted[m]) : i < j => d.emitted[m][i].part < d.emitted[m][j].part
          /\ \A i \in 1..Len(d.emitted[m]) : d.emitted[m][i].task = d.owner[m]
      BY <1>1, <2>3, <2>4
    <3>4. Out(d, m) \subseteq 0..childSent[m] /\ Kept(d, m) \subseteq 0..childSent[m]
      BY <1>4, <2>5, <2>6
    <3>. QED
      BY <3>1, <3>2, <3>3, <3>4 DEF Orderly
  <2>. QED
    BY <1>1, <1>2, <2>1, <2>3, <2>4, <2>5, <2>7 DEF d
<1>. QED
  BY <1>5, <1>6

LEMMA DrainTyped ==
    ASSUME NEW st \in ChildState, NEW ms \in SUBSET ChildMessages, \A m \in ms : Ready(st, m)
    PROVE  C!Drain(st, ms) \in ChildState
<1> DEFINE d == C!Drain(st, ms)
<1>1. /\ d.tracked = st.tracked /\ d.session = st.session /\ d.closed = st.closed /\ d.child = st.child
      /\ d.pending = st.pending /\ d.owner = st.owner /\ d.errs = st.errs
      /\ d.allowed = st.allowed \cup ms
      /\ d.held = [m \in ChildMessages |-> IF m \in ms THEN <<>> ELSE st.held[m]]
      /\ d.seen = st.seen \cup UNION {{m} \X Kept(st, m) : m \in ms}
      /\ d.emitted = [m \in ChildMessages |->
                         IF m \in ms THEN st.emitted[m] \o C!Told(st, m) ELSE st.emitted[m]]
  BY DrainFields
<1>2. /\ DOMAIN d = {"tracked", "allowed", "pending", "session", "closed", "child", "owner", "held",
                     "emitted", "seen", "errs"}
      /\ d = [f \in DOMAIN d |-> d[f]]
  <2> DEFINE al == st.allowed \cup ms
             he == [m \in ChildMessages |-> IF m \in ms THEN <<>> ELSE st.held[m]]
             se == st.seen \cup UNION {{m} \X C!ToSet(st.held[m]) : m \in ms}
             em == [m \in ChildMessages |-> IF m \in ms THEN st.emitted[m] \o C!Told(st, m) ELSE st.emitted[m]]
  <2>1. d = [st EXCEPT !.allowed = al, !.held = he, !.seen = se, !.emitted = em]
    BY DEF C!Drain
  <2> HIDE DEF al, he, se, em, d
  <2>. QED
    BY <2>1 DEF ChildState
<1> HIDE DEF d
<1>3. \A m \in ms : d.emitted[m] \in Seq(Tagged)
  BY DrainOne DEF d
<1>4. d.emitted \in [ChildMessages -> Seq(Tagged)]
  <2>1. \A m \in ChildMessages \ ms : d.emitted[m] = st.emitted[m]
    BY <1>1
  <2>2. \A m \in ChildMessages : st.emitted[m] \in Seq(Tagged)
    BY ChildStateIs
  <2>3. \A m \in ChildMessages : d.emitted[m] \in Seq(Tagged)
    BY <1>3, <2>1, <2>2
  <2>4. DOMAIN d.emitted = ChildMessages /\ d.emitted = [m \in ChildMessages |-> d.emitted[m]]
    BY <1>1
  <2>. QED
    BY <2>3, <2>4
<1>5. d.held \in [ChildMessages -> Seq(Nat)]
  BY <1>1, ChildStateIs
<1>6. d.seen \subseteq ChildMessages \X Nat
  <2>1. \A m \in ms : Kept(st, m) \subseteq Nat
    <3> SUFFICES ASSUME NEW m \in ms PROVE Kept(st, m) \subseteq Nat
      OBVIOUS
    <3>1. st.held[m] \in Seq(Nat)
      BY ChildStateIs
    <3>. QED
      BY <3>1, InSeq DEF Kept
  <2>. QED
    BY <1>1, <2>1, ChildStateIs
<1>7. /\ d.tracked \subseteq Children /\ d.allowed \subseteq ChildMessages /\ d.pending \subseteq Waiting
      /\ d.session \in [Children -> Tasks \cup {None}] /\ d.closed \in [Children -> Tasks \cup {None}]
      /\ d.child \in [Tasks -> Children \cup {None}] /\ d.owner \in [ChildMessages -> Tasks \cup {None}]
      /\ d.errs \subseteq [child : Children, task : Tasks \cup {None}]
  BY <1>1, ChildStateIs
<1>8. d \in ChildState
  BY <1>2, <1>4, <1>5, <1>6, <1>7 DEF ChildState
<1>. QED
  BY <1>8 DEF d

LEMMA OrderlySame ==
    ASSUME NEW a, NEW b, NEW m, a.emitted[m] = b.emitted[m], a.held[m] = b.held[m], a.owner[m] = b.owner[m],
           \A k \in Nat : <<m, k>> \in a.seen <=> <<m, k>> \in b.seen
    PROVE  Out(a, m) = Out(b, m) /\ Kept(a, m) = Kept(b, m) /\ (Orderly(a, m) => Orderly(b, m))
BY DEF Orderly, Out, Kept

LEMMA RoomShrinks ==
    ASSUME NEW a, NEW b, ChildrenTyped, Room(a), b.pending \subseteq a.pending, C!Held(b) \subseteq C!Held(a),
           MaxPending \in Nat, MaxChildHeld \in Nat
    PROVE  Room(b)
<1>1. /\ IsFiniteSet(a.pending) /\ Cardinality(a.pending) <= MaxPending
      /\ IsFiniteSet(C!Held(a)) /\ Cardinality(C!Held(a)) <= MaxChildHeld
  BY DEF Room
<1>2. IsFiniteSet(b.pending) /\ Cardinality(b.pending) <= Cardinality(a.pending)
  BY <1>1, FS_Subset
<1>3. IsFiniteSet(C!Held(b)) /\ Cardinality(C!Held(b)) <= Cardinality(C!Held(a))
  BY <1>1, FS_Subset
<1>4. /\ Cardinality(a.pending) \in Nat /\ Cardinality(b.pending) \in Nat
      /\ Cardinality(C!Held(a)) \in Nat /\ Cardinality(C!Held(b)) \in Nat
  BY <1>1, <1>2, <1>3, FS_CardinalityType
<1>. QED
  BY <1>1, <1>2, <1>3, <1>4 DEF Room

Messaged(activity) == {a.message : a \in {b \in activity : ~b.isErr}}
Errors(st, activity) ==
    {[child |-> a.child, task |-> C!TaskForPending(st, a)] : a \in {b \in activity : b.isErr}}

\* emitPendingChildActivity, for each of some activity.
LEMMA PendingOut ==
    ASSUME NEW st \in ChildState, NEW activity \in SUBSET Waiting,
           \A a \in activity : ~a.isErr => a.message \in ChildMessages /\ Ready(st, a.message)
    PROVE  LET d == C!EmitPending(st, activity)
               ms == Messaged(activity)
           IN /\ d \in ChildState
              /\ d.tracked = st.tracked /\ d.session = st.session /\ d.closed = st.closed /\ d.child = st.child
              /\ d.pending = st.pending /\ d.owner = st.owner
              /\ d.allowed = st.allowed \cup ms /\ d.errs = st.errs \cup Errors(st, activity)
              /\ \A m \in ms : d.held[m] = <<>> /\ Orderly(d, m) /\ Out(st, m) \cup Kept(st, m) \subseteq Out(d, m)
              /\ \A m \in ChildMessages \ ms :
                    /\ d.held[m] = st.held[m] /\ d.emitted[m] = st.emitted[m]
                    /\ Out(d, m) = Out(st, m) /\ Kept(d, m) = Kept(st, m) /\ (Orderly(st, m) => Orderly(d, m))
              /\ C!Held(d) \subseteq C!Held(st)
<1> DEFINE ms == Messaged(activity)
           E == Errors(st, activity)
           e == C!EmitErrors(st, E)
           d == C!EmitPending(st, activity)
<1>1. d = C!Drain(e, ms)
  BY DEF C!EmitPending, Messaged, Errors
<1>2. ms \in SUBSET ChildMessages
  BY DEF Messaged
<1>3. E \subseteq [child : Children, task : Tasks \cup {None}]
  <2> SUFFICES ASSUME NEW a \in activity
               PROVE  a.child \in Children /\ C!TaskForPending(st, a) \in Tasks \cup {None}
    BY DEF Errors
  <2>1. a.child \in Children
    BY DEF Waiting
  <2>. QED
    BY <2>1, ChildStateIs DEF C!TaskForPending
<1>4. /\ e \in ChildState /\ e.errs = st.errs \cup E
      /\ e.tracked = st.tracked /\ e.session = st.session /\ e.closed = st.closed /\ e.child = st.child
      /\ e.pending = st.pending /\ e.owner = st.owner /\ e.allowed = st.allowed
      /\ e.held = st.held /\ e.emitted = st.emitted /\ e.seen = st.seen
  <2> DEFINE errs == st.errs \cup E
  <2>1. errs \subseteq [child : Children, task : Tasks \cup {None}]
    BY <1>3, ChildStateIs
  <2>2. e = [st EXCEPT !.errs = errs]
    BY DEF C!EmitErrors
  <2> HIDE DEF errs, E, e
  <2>3. /\ e \in ChildState /\ e.errs = errs
        /\ e.tracked = st.tracked /\ e.session = st.session /\ e.closed = st.closed /\ e.child = st.child
        /\ e.pending = st.pending /\ e.owner = st.owner /\ e.allowed = st.allowed
        /\ e.held = st.held /\ e.emitted = st.emitted /\ e.seen = st.seen
    BY <2>1, <2>2 DEF ChildState
  <2>. QED
    BY <2>3 DEF errs
<1>5. \A m : Out(e, m) = Out(st, m) /\ Kept(e, m) = Kept(st, m) /\ (Orderly(st, m) <=> Orderly(e, m))
  BY <1>4 DEF Out, Kept, Orderly
<1>6. \A m \in ms : Ready(e, m)
  <2>1. \A m \in ms : Ready(st, m)
    BY DEF Messaged
  <2>. QED
    BY <1>4, <1>5, <2>1 DEF Ready
<1> HIDE DEF E, e, ms, d
<1>7. d \in ChildState
  BY <1>1, <1>2, <1>4, <1>6, DrainTyped
<1>8. /\ d.tracked = e.tracked /\ d.session = e.session /\ d.closed = e.closed /\ d.child = e.child
      /\ d.pending = e.pending /\ d.owner = e.owner /\ d.errs = e.errs
      /\ d.allowed = e.allowed \cup ms
      /\ d.held = [m \in ChildMessages |-> IF m \in ms THEN <<>> ELSE e.held[m]]
      /\ d.seen = e.seen \cup UNION {{m} \X Kept(e, m) : m \in ms}
      /\ d.emitted = [m \in ChildMessages |->
                         IF m \in ms THEN e.emitted[m] \o C!Told(e, m) ELSE e.emitted[m]]
  <2>1. e \in ChildState
    BY <1>4
  <2>. QED
    BY ONLY <1>1, <1>2, <2>1, DrainFields
<1>9. \A m \in ms : d.held[m] = <<>> /\ Orderly(d, m) /\ Out(e, m) \cup Kept(e, m) \subseteq Out(d, m)
  BY <1>1, <1>2, <1>4, <1>6, DrainOne
<1>10. ASSUME NEW m \in ChildMessages \ ms
       PROVE  /\ d.held[m] = st.held[m] /\ d.emitted[m] = st.emitted[m]
              /\ Out(d, m) = Out(st, m) /\ Kept(d, m) = Kept(st, m) /\ (Orderly(st, m) => Orderly(d, m))
  <2>1. d.held[m] = st.held[m] /\ d.emitted[m] = st.emitted[m] /\ d.owner = st.owner
    BY <1>4, <1>8
  <2>2. \A k \in Nat : <<m, k>> \in st.seen <=> <<m, k>> \in d.seen
    BY <1>4, <1>8
  <2>. QED
    BY <2>1, <2>2, OrderlySame
<1>11. C!Held(d) \subseteq C!Held(st)
  <2>1. \A m \in ChildMessages : DOMAIN d.held[m] \subseteq DOMAIN st.held[m]
    <3>1. DOMAIN <<>> = {}
      OBVIOUS
    <3>. QED
      BY <1>9, <1>10, <3>1
  <2>. QED
    BY <2>1 DEF C!Held
<1>. QED
  BY <1>4, <1>5, <1>7, <1>8, <1>9, <1>10, <1>11 DEF d, ms, E

\* The set of tasks, children and workloads as the constants have them.
LEMMA WorkIs ==
    ASSUME C!ConstantsOK, ChildrenTyped
    PROVE  /\ None \notin Children \cup Tasks
           /\ C!TaskChild \in [Tasks -> Children] /\ C!MessageChild \in [ChildMessages -> Children]
           /\ MaxPending \in Nat /\ MaxChildHeld \in Nat /\ MaxParts \in Nat
<1>1. work \in [task : [Tasks -> Children], message : [ChildMessages -> Children]]
  BY DEF ChildrenTyped, C!ConstantsOK
<1>. QED
  BY <1>1 DEF C!TaskChild, C!MessageChild, C!ConstantsOK

\* What an action leaves of the correlator's state while nothing else changes.
LEMMA OnlyChildren ==
    ASSUME ChildrenTyped, Correlated(children'),
           UNCHANGED <<childEnded, work, current, childSent, truth, accepted, arrived, errors>>
    PROVE  ChildInv'
<1>1. ChildrenTyped' /\ children' \in ChildState
  BY DEF ChildrenTyped, Correlated
<1>2. Bound(children)'
  BY DEF Correlated, Bound, Mine, C!TaskChild, C!MessageChild
<1>3. Waits(children)'
  BY DEF Correlated, Waits, C!MessageChild, C!TaskForActivity
<1>4. Room(children)'
  BY DEF Correlated, Room, C!Held
<1>5. \A m \in ChildMessages : Orderly(children, m)'
  BY DEF Correlated, Orderly, Out, Kept
<1>6. \A m \in ChildMessages : OutOrWaits(children, m)'
  BY DEF Correlated, OutOrWaits, Out, Kept, C!IsPending
<1>. QED
  BY <1>1, <1>2, <1>3, <1>4, <1>5, <1>6 DEF Correlated, ChildInv

\* A Task call that names its child: what waited for it goes out under it.
LEMMA BindKeeps ==
    ASSUME C!ConstantsOK, ChildrenTyped, NEW st, Correlated(st), NEW t \in Tasks, ~childEnded
    PROVE  LET c == C!TaskChild[t] IN Correlated(C!Release(C!Associate(st, c, t), c))
<1> DEFINE c == C!TaskChild[t]
           a == C!Associate(st, c, t)
           R == C!Released(a, c)
           ow == C!BindAll(a, c)
           b == [a EXCEPT !.pending = @ \ R, !.owner = ow]
           ms == Messaged(R)
           d == C!EmitPending(b, R)
<1>1. C!Release(C!Associate(st, c, t), c) = d
  BY DEF C!Release
<1>2. /\ None \notin Children \cup Tasks /\ c \in Children
      /\ C!TaskChild \in [Tasks -> Children] /\ C!MessageChild \in [ChildMessages -> Children]
      /\ MaxPending \in Nat /\ MaxChildHeld \in Nat
  BY WorkIs
<1>3. st \in ChildState /\ Bound(st) /\ Waits(st) /\ Room(st)
  BY DEF Correlated
<1>4. /\ a \in ChildState
      /\ a.session = [st.session EXCEPT ![c] = t] /\ a.closed = [st.closed EXCEPT ![c] = None]
      /\ a.child = [st.child EXCEPT ![t] = c] /\ a.tracked = st.tracked \cup {c}
      /\ a.allowed = st.allowed /\ a.pending = st.pending /\ a.owner = st.owner /\ a.errs = st.errs
      /\ a.held = st.held /\ a.emitted = st.emitted /\ a.seen = st.seen
  <2> DEFINE tr == st.tracked \cup {c}
             se == [st.session EXCEPT ![c] = t]
             ch == [st.child EXCEPT ![t] = c]
             cl == [st.closed EXCEPT ![c] = None]
  <2>1. a = [st EXCEPT !.tracked = tr, !.session = se, !.child = ch, !.closed = cl]
    BY <1>3 DEF C!Associate, C!Track, ChildState
  <2>2. /\ tr \subseteq Children /\ se \in [Children -> Tasks \cup {None}]
        /\ ch \in [Tasks -> Children \cup {None}] /\ cl \in [Children -> Tasks \cup {None}]
    BY <1>2, <1>3, ChildStateIs
  <2> HIDE DEF a, tr, se, ch, cl, c
  <2>3. /\ a \in ChildState
        /\ a.session = se /\ a.closed = cl /\ a.child = ch /\ a.tracked = tr
        /\ a.allowed = st.allowed /\ a.pending = st.pending /\ a.owner = st.owner /\ a.errs = st.errs
        /\ a.held = st.held /\ a.emitted = st.emitted /\ a.seen = st.seen
    BY <1>3, <2>1, <2>2 DEF ChildState
  <2>. QED
    BY <2>3 DEF tr, se, ch, cl
<1> HIDE DEF a, c
<1>5. R = {x \in st.pending : x.child = c} /\ R \subseteq Waiting
  BY <1>3, <1>4, ChildStateIs DEF Waits, C!Released
<1>6. /\ ow \in [ChildMessages -> Tasks \cup {None}]
      /\ \A m \in ms : ow[m] = t
      /\ \A m \in ChildMessages \ ms : ow[m] = st.owner[m]
  <2>1. \A m \in ChildMessages : (\E x \in R : ~x.isErr /\ x.message = m) <=> m \in ms
    BY DEF Messaged
  <2>2. ow = [m \in ChildMessages |-> IF m \in ms THEN t ELSE st.owner[m]]
    <3>1. a.session[c] = t
      BY <1>2, <1>3, <1>4, ChildStateIs
    <3>. QED
      BY <1>4, <2>1, <3>1 DEF C!BindAll
  <2>3. ms \subseteq ChildMessages
    BY <1>3, <1>5 DEF Messaged, Waits
  <2> HIDE DEF ow, ms
  <2>. QED
    BY <1>3, <2>2, <2>3, ChildStateIs
<1>7. \A m \in ms : /\ m \in ChildMessages /\ C!MessageChild[m] = c /\ m \notin st.allowed /\ truth[m] # None
                    /\ st.owner[m] = None /\ st.emitted[m] = <<>> /\ arrived[m] \subseteq Kept(st, m)
  <2>1. \A m \in ms : m \in ChildMessages /\ C!MessageChild[m] = c /\ m \notin st.allowed /\ truth[m] # None
    BY <1>3, <1>5 DEF Messaged, Waits
  <2>. QED
    BY <2>1 DEF Correlated, OutOrWaits
<1> HIDE DEF R, ow, ms
<1>8. /\ b \in ChildState
      /\ b.pending = st.pending \ R /\ b.owner = ow
      /\ b.session = a.session /\ b.closed = a.closed /\ b.child = a.child /\ b.tracked = a.tracked
      /\ b.allowed = st.allowed /\ b.errs = st.errs
      /\ b.held = st.held /\ b.emitted = st.emitted /\ b.seen = st.seen
  <2> DEFINE pe == st.pending \ R
  <2>1. b = [a EXCEPT !.pending = pe, !.owner = ow]
    BY <1>4 DEF ChildState
  <2>2. pe \subseteq Waiting
    BY <1>3, ChildStateIs
  <2> HIDE DEF b, pe
  <2>3. /\ b \in ChildState /\ b.pending = pe /\ b.owner = ow
        /\ b.session = a.session /\ b.closed = a.closed /\ b.child = a.child /\ b.tracked = a.tracked
        /\ b.allowed = a.allowed /\ b.errs = a.errs
        /\ b.held = a.held /\ b.emitted = a.emitted /\ b.seen = a.seen
    BY <1>4, <1>6, <2>1, <2>2 DEF ChildState
  <2>. QED
    BY <1>4, <2>3 DEF pe
<1> HIDE DEF b
<1>9. \A m : Out(b, m) = Out(st, m) /\ Kept(b, m) = Kept(st, m)
  BY <1>8 DEF Out, Kept
<1>10. \A m \in ms : Ready(b, m)
  <2> SUFFICES ASSUME NEW m \in ms PROVE Ready(b, m)
    OBVIOUS
  <2>1. Orderly(st, m) /\ m \notin st.allowed /\ st.emitted[m] = <<>>
    BY <1>7 DEF Correlated
  <2>2. Orderly(b, m)
    BY <1>8, <1>9, <2>1 DEF Orderly
  <2>. QED
    BY <1>8, <2>1, <2>2 DEF Ready
<1>11. /\ d \in ChildState
       /\ d.tracked = b.tracked /\ d.session = b.session /\ d.closed = b.closed /\ d.child = b.child
       /\ d.pending = b.pending /\ d.owner = b.owner
       /\ d.allowed = b.allowed \cup ms /\ d.errs = b.errs \cup Errors(b, R)
       /\ \A m \in ms : d.held[m] = <<>> /\ Orderly(d, m) /\ Out(b, m) \cup Kept(b, m) \subseteq Out(d, m)
       /\ \A m \in ChildMessages \ ms :
             /\ d.held[m] = b.held[m] /\ d.emitted[m] = b.emitted[m]
             /\ Out(d, m) = Out(b, m) /\ Kept(d, m) = Kept(b, m) /\ (Orderly(b, m) => Orderly(d, m))
       /\ C!Held(d) \subseteq C!Held(b)
  <2>1. \A x \in R : ~x.isErr => x.message \in ChildMessages /\ Ready(b, x.message)
    BY <1>7, <1>10 DEF Messaged, ms
  <2>2. R \in SUBSET Waiting /\ ms = Messaged(R)
    BY <1>5 DEF ms
  <2> HIDE DEF d
  <2>3. d = C!EmitPending(b, R)
    BY DEF d
  <2>. QED
    BY <1>8, <2>1, <2>2, <2>3, PendingOut
<1> HIDE DEF d
<1>12. Room(d)
  <2>1. d.pending \subseteq st.pending /\ C!Held(d) \subseteq C!Held(st)
    BY <1>8, <1>11 DEF C!Held
  <2>. QED
    BY <1>2, <1>3, <2>1, RoomShrinks
<1>13. Waits(d)
  <2> SUFFICES ASSUME NEW x \in d.pending
               PROVE  /\ x.canCorrelate /\ C!TaskForActivity(d, x.child) = None
                      /\ x.isErr => \E f \in errors : f.child = x.child
                      /\ ~x.isErr => /\ x.message \in ChildMessages /\ x.child = C!MessageChild[x.message]
                                     /\ x.message \notin d.allowed /\ truth[x.message] # None
    BY DEF Waits
  <2>1. x \in st.pending /\ x.child # c /\ x.child \in Children
    BY <1>3, <1>5, <1>8, <1>11, ChildStateIs DEF Waiting
  <2>2. C!TaskForActivity(d, x.child) = C!TaskForActivity(st, x.child)
    <3>1. d.session[x.child] = st.session[x.child] /\ d.closed[x.child] = st.closed[x.child]
      BY <1>3, <1>4, <1>8, <1>11, <2>1, ChildStateIs
    <3>. QED
      BY <3>1 DEF C!TaskForActivity
  <2>3. /\ x.canCorrelate /\ C!TaskForActivity(st, x.child) = None
        /\ x.isErr => \E f \in errors : f.child = x.child
        /\ ~x.isErr => /\ x.message \in ChildMessages /\ x.child = C!MessageChild[x.message]
                       /\ x.message \notin st.allowed /\ truth[x.message] # None
    BY <1>3, <2>1 DEF Waits
  <2>4. ~x.isErr => x.message \notin ms
    BY <1>7, <2>1, <2>3
  <2>. QED
    BY <1>8, <1>11, <2>2, <2>3, <2>4
<1>14. Bound(d)
  <2>1. \A x \in Children : Mine(d.session[x], x) /\ Mine(d.closed[x], x) /\ Mine(current[x], x)
    <3> SUFFICES ASSUME NEW x \in Children PROVE Mine(d.session[x], x) /\ Mine(d.closed[x], x) /\ Mine(current[x], x)
      OBVIOUS
    <3>1. Mine(st.session[x], x) /\ Mine(st.closed[x], x) /\ Mine(current[x], x)
      BY <1>3 DEF Bound
    <3>2. d.session[x] = (IF x = c THEN t ELSE st.session[x]) /\ d.closed[x] = IF x = c THEN None ELSE st.closed[x]
      BY <1>3, <1>4, <1>8, <1>11, ChildStateIs
    <3>. QED
      BY <3>1, <3>2 DEF Mine, c
  <2>2. \A x \in Tasks : d.child[x] \in {None, C!TaskChild[x]}
    <3>1. \A x \in Tasks : st.child[x] \in {None, C!TaskChild[x]}
      BY <1>3 DEF Bound
    <3>2. \A x \in Tasks : d.child[x] = IF x = t THEN c ELSE st.child[x]
      BY <1>3, <1>4, <1>8, <1>11, ChildStateIs
    <3>. QED
      BY <3>1, <3>2 DEF c
  <2>3. ASSUME NEW m \in ChildMessages
        PROVE  /\ Mine(d.owner[m], C!MessageChild[m]) /\ Mine(truth[m], C!MessageChild[m])
               /\ truth[m] = None => d.owner[m] = None /\ d.emitted[m] = <<>>
    <3>1. /\ Mine(st.owner[m], C!MessageChild[m]) /\ Mine(truth[m], C!MessageChild[m])
          /\ truth[m] = None => st.owner[m] = None /\ st.emitted[m] = <<>>
      BY <1>3 DEF Bound
    <3>2. CASE m \in ms
      BY <1>6, <1>7, <1>8, <1>11, <3>1, <3>2 DEF Mine, c
    <3>3. CASE m \notin ms
      BY <1>6, <1>8, <1>11, <3>1, <3>3
    <3>. QED
      BY <3>2, <3>3
  <2>4. \A e \in errors : C!TaskChild[e.task] = e.child
    BY <1>3 DEF Bound
  <2>5. ASSUME NEW e \in d.errs
        PROVE  /\ Mine(e.task, e.child) /\ \E f \in errors : f.child = e.child
               /\ ~childEnded => e.task # None
    <3>1. CASE e \in st.errs
      BY <1>3, <3>1 DEF Bound
    <3>2. CASE e \in Errors(b, R)
      <4>1. PICK x \in R : x.isErr /\ e = [child |-> x.child, task |-> C!TaskForPending(b, x)]
        BY <3>2 DEF Errors
      <4>2. x.child = c /\ x.canCorrelate /\ \E f \in errors : f.child = x.child
        BY <1>3, <1>5, <4>1 DEF Waits
      <4>3. e.child = c /\ e.task = t
        <5>1. b.session[c] = t
          BY <1>2, <1>3, <1>4, <1>8, ChildStateIs
        <5>. QED
          BY <4>1, <4>2, <5>1 DEF C!TaskForPending
      <4>. QED
        BY <1>2, <4>2, <4>3 DEF Mine, c
    <3>. QED
      BY <1>8, <1>11, <3>1, <3>2
  <2>. QED
    BY <2>1, <2>2, <2>3, <2>4, <2>5 DEF Bound
<1>15. ASSUME NEW m \in ChildMessages PROVE Orderly(d, m) /\ OutOrWaits(d, m)
  <2>1. Orderly(st, m) /\ OutOrWaits(st, m)
    BY DEF Correlated
  <2>2. CASE m \in ms
    <3>1. d.owner[m] # None
      BY <1>2, <1>6, <1>8, <1>11, <2>2
    <3>2. m \in d.allowed /\ d.held[m] = <<>> /\ arrived[m] \subseteq Out(d, m) /\ Orderly(d, m)
      BY <1>7, <1>9, <1>11, <2>2
    <3>. QED
      BY <3>1, <3>2 DEF OutOrWaits
  <2>3. CASE m \notin ms
    <3>1. Orderly(b, m) /\ b.owner[m] = st.owner[m]
      <4>1. b.owner[m] = st.owner[m]
        BY <1>6, <1>8, <2>3
      <4>. QED
        BY <1>8, <1>9, <2>1, <4>1 DEF Orderly
    <3>2. /\ Orderly(d, m) /\ (m \in d.allowed <=> m \in st.allowed) /\ d.held[m] = st.held[m]
          /\ d.emitted[m] = st.emitted[m] /\ Out(d, m) = Out(st, m) /\ Kept(d, m) = Kept(st, m)
          /\ d.owner[m] = st.owner[m]
      BY <1>8, <1>9, <1>11, <2>3, <3>1
    <3>3. C!IsPending(st, m) => C!IsPending(d, m)
      <4> SUFFICES ASSUME NEW x \in st.pending, ~x.isErr, x.message = m PROVE \E y \in d.pending : ~y.isErr /\ y.message = m
        BY DEF C!IsPending
      <4>1. x \notin R
        BY <2>3 DEF ms, Messaged
      <4>. QED
        BY <1>8, <1>11, <4>1
    <3>. QED
      BY <2>1, <3>2, <3>3 DEF OutOrWaits
  <2>. QED
    BY <2>2, <2>3
<1>16. Correlated(d)
  BY <1>11, <1>12, <1>13, <1>14, <1>15 DEF Correlated
<1>. QED
  BY <1>1, <1>16 DEF c, d

\* What changes only the bindings, of no child that something waits for.
LEMMA Rebound ==
    ASSUME NEW st, Correlated(st), NEW d \in ChildState,
           d.allowed = st.allowed, d.pending = st.pending, d.owner = st.owner, d.errs = st.errs,
           d.held = st.held, d.emitted = st.emitted, d.seen = st.seen,
           \A c \in Children : Mine(d.session[c], c) /\ Mine(d.closed[c], c),
           \A t \in Tasks : d.child[t] \in {None, C!TaskChild[t]},
           \A a \in st.pending : C!TaskForActivity(d, a.child) = None
    PROVE  Correlated(d)
<1>1. Bound(d)
  BY DEF Correlated, Bound
<1>2. Waits(d)
  BY DEF Correlated, Waits
<1>3. Room(d)
  BY DEF Correlated, Room, C!Held
<1>4. \A m \in ChildMessages : Orderly(d, m) /\ OutOrWaits(d, m)
  BY DEF Correlated, Orderly, OutOrWaits, Out, Kept, C!IsPending
<1>. QED
  BY <1>1, <1>2, <1>3, <1>4 DEF Correlated

LEMMA CloseKeeps ==
    ASSUME C!ConstantsOK, ChildrenTyped, NEW st, Correlated(st), NEW t \in Tasks
    PROVE  Correlated(C!CloseTask(st, t))
<1> DEFINE c == st.child[t]
           se == [st.session EXCEPT ![c] = None]
           cl == [st.closed EXCEPT ![c] = t]
           d == [st EXCEPT !.session = se, !.closed = cl]
<1>1. CASE ~(st.child[t] # None /\ st.session[st.child[t]] = t)
  BY <1>1 DEF C!CloseTask
<1>2. CASE st.child[t] # None /\ st.session[st.child[t]] = t
  <2>1. st \in ChildState /\ Bound(st) /\ Waits(st)
    BY DEF Correlated
  <2>2. /\ None \notin Children \cup Tasks /\ C!TaskChild[t] \in Children
        /\ c = C!TaskChild[t] /\ c \in Children /\ st.session[c] = t
    BY <1>2, <2>1, WorkIs DEF Bound
  <2>3. C!CloseTask(st, t) = d
    BY <1>2, <2>1 DEF C!CloseTask, ChildState
  <2>4. se \in [Children -> Tasks \cup {None}] /\ cl \in [Children -> Tasks \cup {None}]
    BY <2>1, <2>2, ChildStateIs
  <2>5. \A x \in Children : se[x] = (IF x = c THEN None ELSE st.session[x])
                            /\ cl[x] = (IF x = c THEN t ELSE st.closed[x])
    BY <2>1, <2>2, ChildStateIs
  <2> HIDE DEF se, cl, c, d
  <2>6. /\ d \in ChildState /\ d.session = se /\ d.closed = cl /\ d.child = st.child
        /\ d.allowed = st.allowed /\ d.pending = st.pending /\ d.owner = st.owner /\ d.errs = st.errs
        /\ d.held = st.held /\ d.emitted = st.emitted /\ d.seen = st.seen
    BY <2>1, <2>4 DEF ChildState, d
  <2>7. ASSUME NEW x \in Children PROVE Mine(d.session[x], x) /\ Mine(d.closed[x], x)
    <3>1. Mine(st.session[x], x) /\ Mine(st.closed[x], x)
      BY <2>1 DEF Bound
    <3>. QED
      BY <2>2, <2>5, <2>6, <3>1 DEF Mine
  <2>8. ASSUME NEW a \in st.pending PROVE C!TaskForActivity(d, a.child) = None
    <3>1. C!TaskForActivity(st, a.child) = None /\ a.child \in Children
      BY <2>1, ChildStateIs DEF Waits, Waiting
    <3>2. a.child # c
      BY <2>2, <3>1 DEF C!TaskForActivity
    <3>. QED
      BY <2>5, <2>6, <3>1, <3>2 DEF C!TaskForActivity
  <2>9. \A x \in Tasks : d.child[x] \in {None, C!TaskChild[x]}
    BY <2>1, <2>6 DEF Bound
  <2>10. Correlated(d)
    BY <2>6, <2>7, <2>8, <2>9, Rebound
  <2>. QED
    BY <2>3, <2>10
<1>. QED
  BY <1>1, <1>2

LEMMA ChildTaskPart ==
    ASSUME C!ConstantsOK, ChildInv, NEW t \in Tasks, NEW withChild \in BOOLEAN, NEW over \in BOOLEAN,
           C!TaskPart(t, withChild, over)
    PROVE  ChildInv'
<1> DEFINE c == C!TaskChild[t]
           bound == IF withChild THEN C!Release(C!Associate(children, c, t), c) ELSE children
<1>1. /\ ChildrenTyped /\ Correlated(children) /\ ~childEnded
      /\ UNCHANGED <<childEnded, work, current, childSent, truth, accepted, arrived, errors>>
      /\ children' = IF over THEN C!CloseTask(bound, t) ELSE bound
  BY DEF ChildInv, C!TaskPart
<1>2. Correlated(bound)
  BY <1>1, BindKeeps
<1> HIDE DEF bound
<1>3. Correlated(children')
  BY <1>1, <1>2, CloseKeeps
<1>. QED
  BY <1>1, <1>3, OnlyChildren

LEMMA ChildCreated ==
    ASSUME ChildInv, NEW c \in Children, C!SessionCreated(c)
    PROVE  ChildInv'
<1> DEFINE tr == children.tracked \cup {c}
<1>1. /\ ChildrenTyped /\ Correlated(children) /\ children' = [children EXCEPT !.tracked = tr]
      /\ UNCHANGED <<childEnded, work, current, childSent, truth, accepted, arrived, errors>>
      /\ children \in ChildState /\ Bound(children) /\ Waits(children)
  BY DEF ChildInv, C!SessionCreated, C!Track, Correlated
<1>2. tr \subseteq Children
  BY <1>1, ChildStateIs
<1> HIDE DEF tr
<1>3. /\ children' \in ChildState
      /\ children'.session = children.session /\ children'.closed = children.closed /\ children'.child = children.child
      /\ children'.allowed = children.allowed /\ children'.pending = children.pending
      /\ children'.owner = children.owner /\ children'.errs = children.errs
      /\ children'.held = children.held /\ children'.emitted = children.emitted /\ children'.seen = children.seen
  BY <1>1, <1>2 DEF ChildState
<1>4. /\ \A x \in Children : Mine(children'.session[x], x) /\ Mine(children'.closed[x], x)
      /\ \A t \in Tasks : children'.child[t] \in {None, C!TaskChild[t]}
      /\ \A a \in children.pending : C!TaskForActivity(children', a.child) = None
  BY <1>1, <1>3 DEF Bound, Waits, C!TaskForActivity
<1>5. Correlated(children')
  BY <1>1, <1>3, <1>4, Rebound
<1>. QED
  BY <1>1, <1>5, OnlyChildren

LEMMA ChildStart ==
    ASSUME C!ConstantsOK, ChildInv, NEW t \in Tasks, C!StartTask(t)
    PROVE  ChildInv'
<1> DEFINE c == C!TaskChild[t]
<1>1. /\ ChildrenTyped /\ Correlated(children) /\ current' = [current EXCEPT ![c] = t]
      /\ UNCHANGED <<childEnded, work, children, childSent, truth, accepted, arrived, errors>>
  BY DEF ChildInv, C!StartTask
<1>2. /\ c \in Children /\ current' \in [Children -> Tasks \cup {None}]
      /\ \A x \in Children : current'[x] = IF x = c THEN t ELSE current[x]
  BY <1>1, WorkIs DEF ChildrenTyped
<1>3. ChildrenTyped'
  BY <1>1, <1>2 DEF ChildrenTyped
<1>4. Bound(children)'
  <2>1. \A x \in Children : Mine(current'[x], x)
    BY <1>1, <1>2 DEF Correlated, Bound, Mine, c
  <2>. QED
    BY <1>1, <2>1 DEF Correlated, Bound, Mine, C!TaskChild, C!MessageChild
<1>5. Correlated(children)'
  BY <1>1, <1>4 DEF Correlated, Waits, Room, Orderly, OutOrWaits, Out, Kept,
                    C!MessageChild, C!TaskForActivity, C!IsPending, C!Held
<1>. QED
  BY <1>3, <1>5 DEF ChildInv

\* What changes only the errors and what is pending: the messages stay as they are.
LEMMA MessagesSame ==
    ASSUME NEW a, NEW b, a.allowed = b.allowed, a.owner = b.owner, a.held = b.held, a.emitted = b.emitted,
           a.seen = b.seen, a.pending \subseteq b.pending, NEW m, Orderly(a, m), OutOrWaits(a, m)
    PROVE  Orderly(b, m) /\ OutOrWaits(b, m)
BY DEF Orderly, OutOrWaits, Out, Kept, C!IsPending

LEMMA ErrorKeeps ==
    ASSUME ChildInv, NEW c \in Children, ~childEnded, current[c] # None,
           errors' = errors \cup {[child |-> c, task |-> current[c]]},
           childEnded' = childEnded, work' = work, current' = current, childSent' = childSent,
           truth' = truth, accepted' = accepted, arrived' = arrived,
           children' \in ChildState,
           children'.session = children.session, children'.closed = children.closed,
           children'.child = children.child, children'.allowed = children.allowed,
           children'.owner = children.owner, children'.held = children.held,
           children'.emitted = children.emitted, children'.seen = children.seen,
           children.pending \subseteq children'.pending,
           IsFiniteSet(children'.pending), Cardinality(children'.pending) <= MaxPending,
           \A x \in children'.pending : x \in children.pending \/
               (x.isErr /\ x.child = c /\ x.canCorrelate /\ C!TaskForActivity(children, c) = None),
           \A x \in children'.errs : x \in children.errs \/
               (x.child = c /\ x.task = C!TaskForActivity(children, c) /\ x.task # None)
    PROVE  ChildInv'
<1>1. /\ ChildrenTyped /\ children \in ChildState /\ Bound(children) /\ Waits(children) /\ Room(children)
      /\ \A m \in ChildMessages : Orderly(children, m) /\ OutOrWaits(children, m)
  BY DEF ChildInv, Correlated
<1>2. current[c] \in Tasks /\ C!TaskChild[current[c]] = c
  BY <1>1 DEF ChildrenTyped, Bound, Mine
<1>3. [child |-> c, task |-> current[c]] \in [child : Children, task : Tasks]
  BY <1>2
<1>4. /\ errors' \subseteq [child : Children, task : Tasks]
      /\ errors \subseteq errors' /\ \E x \in errors' : x.child = c
  <2> DEFINE e == [child |-> c, task |-> current[c]]
             All == [child : Children, task : Tasks]
  <2>1. e.child = c /\ e \in All
    BY <1>3
  <2>2. errors' = errors \cup {e} /\ errors \subseteq All
    BY <1>1 DEF ChildrenTyped
  <2> HIDE DEF e, All
  <2>3. errors' \subseteq All /\ errors \subseteq errors' /\ e \in errors'
    BY <2>1, <2>2
  <2>. QED
    BY <2>1, <2>3 DEF All
<1>5. \A x \in errors' : C!TaskChild[x.task] = x.child
  <2>1. \A x \in errors : C!TaskChild[x.task] = x.child
    BY <1>1 DEF Bound
  <2>. QED
    BY <1>2, <2>1
<1>6. ChildrenTyped'
  BY <1>1, <1>4 DEF ChildrenTyped
<1>7. C!TaskChild' = C!TaskChild /\ C!MessageChild' = C!MessageChild
  BY DEF C!TaskChild, C!MessageChild
<1>8. Mine(C!TaskForActivity(children, c), c)
  BY <1>1 DEF Bound, C!TaskForActivity
<1>9. \A x \in children'.errs :
         Mine(x.task, x.child) /\ (\E y \in errors' : y.child = x.child) /\ x.task # None
  <2> SUFFICES ASSUME NEW x \in children'.errs
               PROVE  Mine(x.task, x.child) /\ (\E y \in errors' : y.child = x.child) /\ x.task # None
    OBVIOUS
  <2>1. CASE x \in children.errs
    <3>1. Mine(x.task, x.child) /\ (\E y \in errors : y.child = x.child) /\ x.task # None
      BY <1>1, <2>1 DEF Bound
    <3>. QED
      BY <1>4, <3>1
  <2>2. CASE x \notin children.errs
    BY <1>4, <1>8, <2>2
  <2>. QED
    BY <2>1, <2>2
<1>10. \A t, x : Mine(t, x)' <=> Mine(t, x)
  BY <1>7 DEF Mine
<1>11. Bound(children)'
  <2>1. \A x \in Children : Mine(children'.session[x], x) /\ Mine(children'.closed[x], x) /\ Mine(current'[x], x)
    BY <1>1 DEF Bound
  <2>2. \A t \in Tasks : children'.child[t] \in {None, C!TaskChild[t]}
    BY <1>1 DEF Bound
  <2>3. \A m \in ChildMessages :
           /\ Mine(children'.owner[m], C!MessageChild[m]) /\ Mine(truth'[m], C!MessageChild[m])
           /\ truth'[m] = None => children'.owner[m] = None /\ children'.emitted[m] = <<>>
    BY <1>1 DEF Bound
  <2>. QED
    BY <1>5, <1>7, <1>9, <2>1, <2>2, <2>3 DEF Bound, Mine
<1>12. \A x : C!TaskForActivity(children', x) = C!TaskForActivity(children, x)
  BY DEF C!TaskForActivity
<1>13. \A x \in children'.pending :
         /\ x.canCorrelate /\ C!TaskForActivity(children, x.child) = None
         /\ x.isErr => \E y \in errors' : y.child = x.child
         /\ ~x.isErr => /\ x.message \in ChildMessages /\ x.child = C!MessageChild[x.message]
                        /\ x.message \notin children.allowed /\ truth[x.message] # None
  <2> SUFFICES ASSUME NEW x \in children'.pending
               PROVE  /\ x.canCorrelate /\ C!TaskForActivity(children, x.child) = None
                      /\ x.isErr => \E y \in errors' : y.child = x.child
                      /\ ~x.isErr => /\ x.message \in ChildMessages /\ x.child = C!MessageChild[x.message]
                                     /\ x.message \notin children.allowed /\ truth[x.message] # None
    OBVIOUS
  <2>1. CASE x \in children.pending
    BY <1>1, <1>4, <2>1 DEF Waits
  <2>2. CASE x \notin children.pending
    BY <1>4, <2>2
  <2>. QED
    BY <2>1, <2>2
<1>14. Waits(children)'
  BY <1>7, <1>12, <1>13 DEF Waits, C!TaskForActivity
<1>15. C!Held(children)' = C!Held(children)
  BY DEF C!Held
<1>16. Room(children)'
  BY <1>1, <1>15 DEF Room
<1>17. ASSUME NEW m \in ChildMessages PROVE Orderly(children, m)' /\ OutOrWaits(children, m)'
  <2>1. Orderly(children', m) /\ OutOrWaits(children', m)
    BY <1>1, MessagesSame
  <2>. QED
    BY <2>1 DEF Orderly, OutOrWaits, Out, Kept, C!IsPending
<1>. QED
  BY <1>6, <1>11, <1>14, <1>16, <1>17 DEF ChildInv, Correlated

LEMMA ChildFails ==
    ASSUME C!ConstantsOK, ChildInv, NEW c \in Children, C!ChildError(c)
    PROVE  ChildInv'
<1> DEFINE a == C!Activity(children, c, None, TRUE)
           e == [child |-> c, task |-> C!TaskForActivity(children, c)]
<1>1. /\ ~childEnded /\ current[c] # None
      /\ errors' = errors \cup {[child |-> c, task |-> current[c]]}
      /\ childEnded' = childEnded /\ work' = work /\ current' = current /\ childSent' = childSent
      /\ truth' = truth /\ accepted' = accepted /\ arrived' = arrived
  BY DEF C!ChildError
<1>2. \/ children' = children
      \/ C!TaskForActivity(children, c) = None /\ children' = C!Queue(children, a)
      \/ C!TaskForActivity(children, c) # None /\ children' = C!EmitErrors(children, {e})
  BY DEF C!ChildError
<1>3. /\ children \in ChildState /\ IsFiniteSet(children.pending)
      /\ Cardinality(children.pending) <= MaxPending /\ MaxPending \in Nat
  BY WorkIs DEF ChildInv, Correlated, Room
<1>4. CASE children' = children
  BY <1>1, <1>3, <1>4, ErrorKeeps
<1>5. CASE C!TaskForActivity(children, c) = None /\ children' = C!Queue(children, a) /\ children' # children
  <2> DEFINE pe == children.pending \cup {a}
  <2>1. children' = [children EXCEPT !.pending = pe] /\ Cardinality(children.pending) < MaxPending
    BY <1>5, ChildCount DEF C!Queue
  <2>2. a.child = c /\ a.isErr /\ a.canCorrelate /\ a \in Waiting
    BY <1>5 DEF C!Activity, C!TaskForActivity, Waiting
  <2>3. pe \subseteq Waiting
    BY <1>3, <2>2, ChildStateIs
  <2>4. \A x \in pe : x \in children.pending \/ x = a
    OBVIOUS
  <2>5. children.pending \subseteq pe
    OBVIOUS
  <2>6. /\ IsFiniteSet(pe)
        /\ Cardinality(pe) = IF a \in children.pending THEN Cardinality(children.pending)
                             ELSE Cardinality(children.pending) + 1
    BY <1>3, FS_AddElement
  <2> HIDE DEF a, pe
  <2>7. Cardinality(pe) <= MaxPending
    BY <1>3, <2>1, <2>6, FS_CardinalityType
  <2>8. /\ children' \in ChildState /\ children'.pending = pe
        /\ children'.session = children.session /\ children'.closed = children.closed
        /\ children'.child = children.child /\ children'.errs = children.errs
        /\ children'.allowed = children.allowed /\ children'.owner = children.owner
        /\ children'.held = children.held /\ children'.emitted = children.emitted /\ children'.seen = children.seen
    BY <1>3, <2>1, <2>3 DEF ChildState
  <2>9. \A x \in children'.pending : x \in children.pending \/
           (x.isErr /\ x.child = c /\ x.canCorrelate /\ C!TaskForActivity(children, c) = None)
    BY <1>5, <2>2, <2>4, <2>8
  <2>. QED
    BY <1>1, <2>5, <2>6, <2>7, <2>8, <2>9, ErrorKeeps
<1>6. CASE C!TaskForActivity(children, c) # None /\ children' = C!EmitErrors(children, {e})
  <2> DEFINE errs == children.errs \cup {e}
  <2>1. children' = [children EXCEPT !.errs = errs]
    BY <1>6 DEF C!EmitErrors
  <2>2. e.child = c /\ e.task = C!TaskForActivity(children, c) /\ e \in [child : Children, task : Tasks \cup {None}]
    BY <1>3, ChildStateIs DEF C!TaskForActivity
  <2>3. errs \subseteq [child : Children, task : Tasks \cup {None}]
    BY <1>3, <2>2, ChildStateIs
  <2>4. \A x \in errs : x \in children.errs \/ x = e
    OBVIOUS
  <2> HIDE DEF e, errs
  <2>5. /\ children' \in ChildState /\ children'.pending = children.pending /\ children'.errs = errs
        /\ children'.session = children.session /\ children'.closed = children.closed
        /\ children'.child = children.child
        /\ children'.allowed = children.allowed /\ children'.owner = children.owner
        /\ children'.held = children.held /\ children'.emitted = children.emitted /\ children'.seen = children.seen
    BY <1>3, <2>1, <2>3 DEF ChildState
  <2>6. \A x \in children'.errs : x \in children.errs \/
           (x.child = c /\ x.task = C!TaskForActivity(children, c) /\ x.task # None)
    BY <1>6, <2>2, <2>4, <2>5
  <2>. QED
    BY <1>1, <1>3, <2>5, <2>6, ErrorKeeps
<1>. QED
  BY <1>2, <1>4, <1>5, <1>6

\* What begins belongs to the Task call its child works for.
LEMMA BeginIs ==
    ASSUME C!ConstantsOK, ChildInv, NEW m \in ChildMessages, C!Begin(m)
    PROVE  /\ ~childEnded /\ truth' \in [ChildMessages -> Tasks \cup {None}] /\ truth'[m] # None
           /\ \A n \in ChildMessages : /\ Mine(truth'[n], C!MessageChild[n])
                                       /\ truth[n] # None => truth'[n] # None
                                       /\ n # m => truth'[n] = truth[n]
<1> DEFINE c == C!MessageChild[m]
<1>1. /\ ~childEnded /\ current[c] # None
      /\ truth' = IF truth[m] = None THEN [truth EXCEPT ![m] = current[c]] ELSE truth
  BY DEF C!Begin
<1>2. truth \in [ChildMessages -> Tasks \cup {None}] /\ \A n \in ChildMessages : Mine(truth[n], C!MessageChild[n])
  BY DEF ChildInv, ChildrenTyped, Correlated, Bound
<1>3. c \in Children
  BY WorkIs DEF ChildInv
<1>4. current[c] \in Tasks \cup {None} /\ Mine(current[c], c)
  BY <1>3 DEF ChildInv, ChildrenTyped, Correlated, Bound
<1> HIDE DEF c
<1>5. /\ truth' \in [ChildMessages -> Tasks \cup {None}] /\ truth'[m] # None
      /\ \A n \in ChildMessages : n # m => truth'[n] = truth[n]
      /\ truth'[m] = truth[m] \/ (truth[m] = None /\ truth'[m] = current[c])
  BY <1>1, <1>2, <1>4
<1>6. Mine(truth'[m], C!MessageChild[m])
  BY <1>2, <1>4, <1>5 DEF c
<1>7. \A n \in ChildMessages : Mine(truth'[n], C!MessageChild[n]) /\ (truth[n] # None => truth'[n] # None)
  <2> SUFFICES ASSUME NEW n \in ChildMessages
               PROVE  Mine(truth'[n], C!MessageChild[n]) /\ (truth[n] # None => truth'[n] # None)
    OBVIOUS
  <2>1. CASE n = m
    BY <1>5, <1>6, <2>1
  <2>2. CASE n # m
    BY <1>2, <1>5, <2>2
  <2>. QED
    BY <2>1, <2>2
<1>. QED
  BY <1>1, <1>5, <1>7

\* What an action does to the messages it is not about.
LEMMA OtherSame ==
    ASSUME NEW n, Orderly(children, n), OutOrWaits(children, n),
           children'.emitted[n] = children.emitted[n], children'.held[n] = children.held[n],
           children'.owner[n] = children.owner[n],
           \A k \in Nat : <<n, k>> \in children'.seen <=> <<n, k>> \in children.seen,
           n \in children'.allowed <=> n \in children.allowed,
           children.pending \subseteq children'.pending,
           childEnded' = childEnded, childSent'[n] = childSent[n], arrived'[n] = arrived[n],
           n \in accepted' => n \in accepted
    PROVE  Orderly(children, n)' /\ OutOrWaits(children, n)'
<1>1. Out(children, n)' = Out(children, n) /\ Kept(children, n)' = Kept(children, n)
  BY DEF Out, Kept
<1>2. Orderly(children, n)'
  BY <1>1 DEF Orderly
<1>3. C!IsPending(children, n) => C!IsPending(children, n)'
  BY DEF C!IsPending
<1>. QED
  BY <1>1, <1>2, <1>3 DEF OutOrWaits

\* What a message does to the bindings of its child and to what is pending.
LEMMA MessageBinds ==
    ASSUME C!ConstantsOK, ChildInv, NEW m \in ChildMessages, C!Begin(m),
           work' = work, current' = current, childEnded' = childEnded, errors' = errors,
           children'.session = children.session, children'.closed = children.closed,
           children'.child = children.child, children'.errs = children.errs,
           Mine(children'.owner[m], C!MessageChild[m]),
           \A n \in ChildMessages \ {m} : /\ children'.owner[n] = children.owner[n]
                                          /\ children'.emitted[n] = children.emitted[n],
           \A n \in ChildMessages \ {m} : n \in children'.allowed => n \in children.allowed,
           m \in children'.allowed => m \in children.allowed \/ C!OwnerOf(m) # None,
           \A x \in children'.pending : x \in children.pending \/
               (/\ ~x.isErr /\ x.message = m /\ x.child = C!MessageChild[m] /\ x.canCorrelate
                /\ C!TaskForActivity(children, x.child) = None /\ m \notin children'.allowed)
    PROVE  Bound(children)' /\ Waits(children)'
<1>1. /\ children \in ChildState /\ Bound(children) /\ Waits(children)
      /\ \A n \in ChildMessages : OutOrWaits(children, n)
  BY DEF ChildInv, Correlated
<1>2. /\ ~childEnded /\ truth' \in [ChildMessages -> Tasks \cup {None}] /\ truth'[m] # None
      /\ \A n \in ChildMessages : /\ Mine(truth'[n], C!MessageChild[n])
                                  /\ truth[n] # None => truth'[n] # None
                                  /\ n # m => truth'[n] = truth[n]
  BY BeginIs
<1>3. C!TaskChild' = C!TaskChild /\ C!MessageChild' = C!MessageChild
  BY DEF C!TaskChild, C!MessageChild
<1>4. \A t, x : Mine(t, x)' <=> Mine(t, x)
  BY <1>3 DEF Mine
<1>5. \A x : C!TaskForActivity(children', x) = C!TaskForActivity(children, x)
  BY DEF C!TaskForActivity
<1>6. ASSUME NEW n \in ChildMessages
      PROVE  /\ Mine(children'.owner[n], C!MessageChild[n]) /\ Mine(truth'[n], C!MessageChild[n])
             /\ truth'[n] = None => children'.owner[n] = None /\ children'.emitted[n] = <<>>
  <2>1. CASE n = m
    BY <1>2, <2>1
  <2>2. CASE n # m
    BY <1>1, <1>2, <2>2 DEF Bound
  <2>. QED
    BY <2>1, <2>2
<1>7. Bound(children)'
  <2>1. \A x \in Children : Mine(children'.session[x], x) /\ Mine(children'.closed[x], x) /\ Mine(current'[x], x)
    BY <1>1 DEF Bound
  <2>2. \A t \in Tasks : children'.child[t] \in {None, C!TaskChild[t]}
    BY <1>1 DEF Bound
  <2>3. \A e \in errors' : C!TaskChild[e.task] = e.child
    BY <1>1 DEF Bound
  <2>4. \A e \in children'.errs : /\ Mine(e.task, e.child) /\ \E f \in errors' : f.child = e.child
                                  /\ ~childEnded' => e.task # None
    BY <1>1 DEF Bound
  <2>. QED
    BY <1>3, <1>4, <1>6, <2>1, <2>2, <2>3, <2>4 DEF Bound
<1>8. ASSUME NEW x \in children'.pending
      PROVE  /\ x.canCorrelate /\ C!TaskForActivity(children', x.child) = None
             /\ x.isErr => \E f \in errors' : f.child = x.child
             /\ ~x.isErr => /\ x.message \in ChildMessages /\ x.child = C!MessageChild[x.message]
                            /\ x.message \notin children'.allowed /\ truth'[x.message] # None
  <2>1. CASE x \in children.pending
    <3>1. /\ x.canCorrelate /\ C!TaskForActivity(children, x.child) = None
          /\ x.isErr => \E f \in errors : f.child = x.child
          /\ ~x.isErr => /\ x.message \in ChildMessages /\ x.child = C!MessageChild[x.message]
                         /\ x.message \notin children.allowed /\ truth[x.message] # None
      BY <1>1, <2>1 DEF Waits
    <3>2. ~x.isErr => x.message \notin children'.allowed
      <4> SUFFICES ASSUME ~x.isErr, x.message \in children'.allowed PROVE FALSE
        OBVIOUS
      <4>1. x.message = m
        BY <3>1
      <4>2. C!OwnerOf(m) # None /\ children.owner[m] = None
        BY <1>1, <3>1, <4>1 DEF OutOrWaits
      <4>3. C!TaskForActivity(children, C!MessageChild[m]) = None
        BY <3>1, <4>1
      <4>. QED
        BY <4>2, <4>3 DEF C!OwnerOf
    <3>. QED
      BY <1>2, <1>5, <3>1, <3>2
  <2>2. CASE x \notin children.pending
    BY <1>2, <1>5, <2>2
  <2>. QED
    BY <2>1, <2>2
<1>9. Waits(children)'
  BY <1>3, <1>8 DEF Waits, C!TaskForActivity
<1>. QED
  BY <1>7, <1>9

\* handleMessageUpdated, of a message whose Task call is known: it is allowed.
LEMMA MessageAllowed ==
    ASSUME C!ConstantsOK, ChildInv, NEW m \in ChildMessages, C!MessageUpdated(m), C!OwnerOf(m) # None,
           children' = C!Drain([children EXCEPT !.owner[m] = C!OwnerOf(m)], {m}),
           accepted' = accepted \cup {m}
    PROVE  ChildInv'
<1> DEFINE o == C!OwnerOf(m)
           ow == [children.owner EXCEPT ![m] = o]
           b == [children EXCEPT !.owner = ow]
           d == children'
           ms == {m}
           M == ChildMessages \ {m}
<1>1. /\ C!Begin(m) /\ work' = work /\ current' = current /\ childEnded' = childEnded /\ errors' = errors
      /\ childSent' = childSent /\ arrived' = arrived
  BY DEF C!MessageUpdated
<1>2. /\ ChildrenTyped /\ children \in ChildState /\ Bound(children) /\ Waits(children) /\ Room(children)
      /\ \A n \in ChildMessages : Orderly(children, n) /\ OutOrWaits(children, n)
  BY DEF ChildInv, Correlated
<1>3. /\ ~childEnded /\ truth' \in [ChildMessages -> Tasks \cup {None}] /\ truth'[m] # None
  BY <1>1, BeginIs
<1>4. C!MessageChild[m] \in Children /\ MaxPending \in Nat /\ MaxChildHeld \in Nat
  BY <1>2, WorkIs
<1>5. o \in Tasks /\ Mine(o, C!MessageChild[m])
  <2>1. Mine(C!TaskForActivity(children, C!MessageChild[m]), C!MessageChild[m])
    BY <1>2, <1>4 DEF Bound, C!TaskForActivity
  <2>2. C!TaskForActivity(children, C!MessageChild[m]) \in Tasks \cup {None}
    BY <1>2, <1>4, ChildStateIs DEF C!TaskForActivity
  <2>3. children.owner[m] \in Tasks \cup {None} /\ Mine(children.owner[m], C!MessageChild[m])
    BY <1>2, ChildStateIs DEF Bound
  <2>. QED
    BY <2>1, <2>2, <2>3 DEF C!OwnerOf
<1>6. /\ ow \in [ChildMessages -> Tasks \cup {None}] /\ ow[m] = o
      /\ \A n \in M : ow[n] = children.owner[n]
  BY <1>2, <1>5, ChildStateIs
<1>7. d = C!Drain(b, ms)
  <2>1. [children EXCEPT !.owner[m] = o] = b
    BY <1>2 DEF ChildState
  <2>. QED
    BY <2>1
<1> HIDE DEF o, ow, d
<1>8. /\ b \in ChildState /\ b.owner = ow
      /\ b.tracked = children.tracked /\ b.session = children.session /\ b.closed = children.closed
      /\ b.child = children.child /\ b.allowed = children.allowed /\ b.pending = children.pending
      /\ b.errs = children.errs /\ b.held = children.held /\ b.emitted = children.emitted
      /\ b.seen = children.seen
  BY <1>2, <1>6 DEF ChildState
<1> HIDE DEF b, ms
<1>9. Out(b, m) = Out(children, m) /\ Kept(b, m) = Kept(children, m)
  BY <1>8 DEF Out, Kept
<1>10. Ready(b, m)
  <2>1. Orderly(children, m) /\ OutOrWaits(children, m)
    BY <1>2
  <2>2. m \in children.allowed => o = children.owner[m]
    BY <1>3, <2>1 DEF OutOrWaits, C!OwnerOf, o
  <2>3. \A i \in 1..Len(children.emitted[m]) : children.emitted[m][i].task = o
    <3>1. CASE m \in children.allowed
      BY <2>1, <2>2, <3>1 DEF Orderly
    <3>2. CASE m \notin children.allowed
      <4>1. Len(children.emitted[m]) = 0
        BY <2>1, <3>2 DEF OutOrWaits
      <4>. QED
        BY <4>1
    <3>. QED
      BY <3>1, <3>2
  <2>4. Orderly(b, m)
    BY <1>6, <1>8, <1>9, <2>1, <2>3 DEF Orderly
  <2>. QED
    BY <1>8, <2>1, <2>4 DEF Ready, OutOrWaits
<1>11. /\ ms \in SUBSET ChildMessages /\ m \in ms
       /\ \A n \in ms : Ready(b, n)
       /\ \A n \in M : n \notin ms
  BY <1>10 DEF ms
<1>12. /\ d.session = b.session /\ d.closed = b.closed /\ d.child = b.child
       /\ d.pending = b.pending /\ d.owner = b.owner /\ d.errs = b.errs
       /\ d.allowed = b.allowed \cup ms
       /\ d.held = [n \in ChildMessages |-> IF n \in ms THEN <<>> ELSE b.held[n]]
       /\ d.seen = b.seen \cup UNION {{n} \X Kept(b, n) : n \in ms}
       /\ d.emitted = [n \in ChildMessages |->
                          IF n \in ms THEN b.emitted[n] \o C!Told(b, n) ELSE b.emitted[n]]
  <2>1. b \in ChildState /\ ms \in SUBSET ChildMessages
    BY <1>8, <1>11
  <2>. QED
    BY ONLY <1>7, <2>1, DrainFields
<1>13. d.held[m] = <<>> /\ Orderly(d, m) /\ Out(b, m) \cup Kept(b, m) \subseteq Out(d, m)
  BY <1>7, <1>8, <1>10, <1>11, DrainOne
<1>14. d \in ChildState
  BY <1>7, <1>8, <1>10, <1>11, DrainTyped
<1>15. \A n \in M : /\ d.held[n] = children.held[n] /\ d.emitted[n] = children.emitted[n]
                    /\ d.owner[n] = children.owner[n]
                    /\ \A k \in Nat : <<n, k>> \in d.seen <=> <<n, k>> \in children.seen
                    /\ n \in d.allowed <=> n \in children.allowed
  <2> SUFFICES ASSUME NEW n \in M
               PROVE  /\ d.held[n] = children.held[n] /\ d.emitted[n] = children.emitted[n]
                      /\ d.owner[n] = children.owner[n]
                      /\ \A k \in Nat : <<n, k>> \in d.seen <=> <<n, k>> \in children.seen
                      /\ n \in d.allowed <=> n \in children.allowed
    OBVIOUS
  <2>1. n \in ChildMessages /\ n \notin ms
    BY <1>11
  <2>2. \A k \in Nat : <<n, k>> \in d.seen <=> <<n, k>> \in children.seen
    BY <1>8, <1>12, <2>1
  <2>3. d.held[n] = children.held[n] /\ d.emitted[n] = children.emitted[n] /\ d.owner[n] = children.owner[n]
    BY <1>6, <1>8, <1>12, <2>1
  <2>4. n \in d.allowed <=> n \in children.allowed
    BY <1>8, <1>12, <2>1
  <2>. QED
    BY <2>2, <2>3, <2>4
<1> USE DEF d, ms
<1>16. ChildrenTyped'
  BY <1>1, <1>2, <1>3 DEF ChildrenTyped
<1>17. Bound(children)' /\ Waits(children)'
  <2>1. Mine(children'.owner[m], C!MessageChild[m])
    BY <1>5, <1>6, <1>8, <1>12
  <2>2. /\ children'.session = children.session /\ children'.closed = children.closed
        /\ children'.child = children.child /\ children'.errs = children.errs
        /\ children'.pending = children.pending
    BY <1>8, <1>12
  <2>3. /\ \A n \in ChildMessages \ {m} : /\ children'.owner[n] = children.owner[n]
                                          /\ children'.emitted[n] = children.emitted[n]
        /\ \A n \in ChildMessages \ {m} : n \in children'.allowed => n \in children.allowed
    BY <1>15
  <2>. QED
    BY <1>1, <2>1, <2>2, <2>3, MessageBinds
<1>18. Room(children)'
  <2>1. C!Held(d) \subseteq C!Held(children)
    <3>1. \A n \in ChildMessages : DOMAIN d.held[n] \subseteq DOMAIN children.held[n]
      <4>1. DOMAIN <<>> = {}
        OBVIOUS
      <4>. QED
        BY <1>13, <1>15, <4>1
    <3> HIDE DEF d
    <3>. QED
      BY <3>1 DEF C!Held
  <2>2. Room(d)
    BY <1>2, <1>4, <1>8, <1>12, <2>1, RoomShrinks
  <2>. QED
    BY <2>2 DEF Room, C!Held
<1>19. ASSUME NEW n \in ChildMessages PROVE Orderly(children, n)' /\ OutOrWaits(children, n)'
  <2>1. CASE n = m
    <3>1. Orderly(children, m)'
      BY <1>1, <1>13 DEF Orderly, Out, Kept
    <3>2. OutOrWaits(children, m)
      BY <1>2
    <3>3. arrived[m] \subseteq Out(children, m) \cup Kept(children, m)
      BY <3>2 DEF OutOrWaits
    <3>4. Out(children, m)' = Out(d, m) /\ m \in d.allowed /\ d.owner[m] # None
      BY <1>5, <1>6, <1>8, <1>12 DEF Out, o
    <3>5. OutOrWaits(children, m)'
      BY <1>1, <1>9, <1>13, <3>3, <3>4 DEF OutOrWaits
    <3>. QED
      BY <2>1, <3>1, <3>5
  <2>2. CASE n # m
    <3>1. n \in M /\ Orderly(children, n) /\ OutOrWaits(children, n)
      BY <1>2, <2>2
    <3>2. children.pending \subseteq children'.pending /\ (n \in accepted' => n \in accepted)
      BY <1>8, <1>12, <2>2
    <3>3. childSent'[n] = childSent[n] /\ arrived'[n] = arrived[n] /\ childEnded' = childEnded
      BY <1>1
    <3>4. /\ children'.emitted[n] = children.emitted[n] /\ children'.held[n] = children.held[n]
          /\ children'.owner[n] = children.owner[n]
          /\ \A k \in Nat : <<n, k>> \in children'.seen <=> <<n, k>> \in children.seen
          /\ n \in children'.allowed <=> n \in children.allowed
      BY <1>15, <3>1
    <3>. QED
      BY <3>1, <3>2, <3>3, <3>4, OtherSame
  <2>. QED
    BY <2>1, <2>2
<1>. QED
  BY <1>14, <1>16, <1>17, <1>18, <1>19 DEF ChildInv, Correlated

\* A message that waits, or of a child that is not followed: at most it is queued.
LEMMA MessageQueued ==
    ASSUME C!ConstantsOK, ChildInv, NEW m \in ChildMessages, C!MessageUpdated(m),
           \/ children' = children /\ (accepted' = accepted \/ (accepted' = accepted \cup {m} /\ C!IsPending(children, m)))
           \/ /\ C!OwnerOf(m) = None
              /\ children' = C!Queue(children, C!Activity(children, C!MessageChild[m], m, FALSE))
              /\ accepted' = IF C!IsPending(children', m) THEN accepted \cup {m} ELSE accepted
    PROVE  ChildInv'
<1> DEFINE c == C!MessageChild[m]
           a == C!Activity(children, c, m, FALSE)
<1>1. /\ C!Begin(m) /\ work' = work /\ current' = current /\ childEnded' = childEnded /\ errors' = errors
      /\ childSent' = childSent /\ arrived' = arrived
  BY DEF C!MessageUpdated
<1>2. /\ ChildrenTyped /\ children \in ChildState /\ Bound(children) /\ Waits(children) /\ Room(children)
      /\ \A n \in ChildMessages : Orderly(children, n) /\ OutOrWaits(children, n)
  BY DEF ChildInv, Correlated
<1>3. /\ ~childEnded /\ truth' \in [ChildMessages -> Tasks \cup {None}] /\ truth'[m] # None
  BY <1>1, BeginIs
<1>4. c \in Children /\ MaxPending \in Nat /\ MaxChildHeld \in Nat
  BY <1>2, WorkIs
<1>5. IsFiniteSet(children.pending) /\ Cardinality(children.pending) <= MaxPending
  BY <1>2 DEF Room
<1>6. /\ children' \in ChildState
      /\ children'.session = children.session /\ children'.closed = children.closed
      /\ children'.child = children.child /\ children'.errs = children.errs
      /\ children'.allowed = children.allowed /\ children'.owner = children.owner
      /\ children'.held = children.held /\ children'.emitted = children.emitted /\ children'.seen = children.seen
      /\ children.pending \subseteq children'.pending
      /\ IsFiniteSet(children'.pending) /\ Cardinality(children'.pending) <= MaxPending
      /\ \A x \in children'.pending : x \in children.pending \/
            (/\ ~x.isErr /\ x.message = m /\ x.child = c /\ x.canCorrelate
             /\ C!TaskForActivity(children, c) = None /\ m \notin children.allowed)
  <2>1. CASE children' = children
    BY <1>2, <1>5, <2>1
  <2>2. CASE C!OwnerOf(m) = None /\ children' = C!Queue(children, a) /\ children' # children
    <3> DEFINE pe == children.pending \cup {a}
    <3>1. children' = [children EXCEPT !.pending = pe] /\ Cardinality(children.pending) < MaxPending
      BY <2>2, ChildCount DEF C!Queue
    <3>2. children.owner[m] = None /\ C!TaskForActivity(children, c) = None
      BY <2>2 DEF C!OwnerOf
    <3>3. a.child = c /\ ~a.isErr /\ a.message = m /\ a.canCorrelate /\ a \in Waiting
      BY <1>4, <3>2 DEF C!Activity, C!TaskForActivity, Waiting
    <3>4. m \notin children.allowed
      BY <1>2, <1>3, <3>2 DEF OutOrWaits
    <3>5. pe \subseteq Waiting
      BY <1>2, <3>3, ChildStateIs
    <3>6. children.pending \subseteq pe /\ \A x \in pe : x \in children.pending \/ x = a
      OBVIOUS
    <3>7. /\ IsFiniteSet(pe)
          /\ Cardinality(pe) = IF a \in children.pending THEN Cardinality(children.pending)
                               ELSE Cardinality(children.pending) + 1
      BY <1>5, FS_AddElement
    <3> HIDE DEF a, pe, c
    <3>8. Cardinality(pe) <= MaxPending
      BY <1>4, <1>5, <3>1, <3>7, FS_CardinalityType
    <3>9. /\ children' \in ChildState /\ children'.pending = pe
          /\ children'.session = children.session /\ children'.closed = children.closed
          /\ children'.child = children.child /\ children'.errs = children.errs
          /\ children'.allowed = children.allowed /\ children'.owner = children.owner
          /\ children'.held = children.held /\ children'.emitted = children.emitted
          /\ children'.seen = children.seen
      BY <1>2, <3>1, <3>5 DEF ChildState
    <3>. QED
      BY <3>2, <3>3, <3>4, <3>6, <3>7, <3>8, <3>9
  <2>. QED
    BY <2>1, <2>2
<1>7. ChildrenTyped'
  BY <1>1, <1>2, <1>3 DEF ChildrenTyped
<1>8. Bound(children)' /\ Waits(children)'
  <2>1. Mine(children'.owner[m], C!MessageChild[m])
    BY <1>2, <1>6 DEF Bound
  <2>2. \A x \in children'.pending : x \in children.pending \/
            (/\ ~x.isErr /\ x.message = m /\ x.child = C!MessageChild[m] /\ x.canCorrelate
             /\ C!TaskForActivity(children, x.child) = None /\ m \notin children'.allowed)
    BY <1>6
  <2>. QED
    BY <1>1, <1>6, <2>1, <2>2, MessageBinds
<1>9. Room(children)'
  <2>1. C!Held(children)' = C!Held(children)
    BY <1>6 DEF C!Held
  <2>. QED
    BY <1>2, <1>6, <2>1 DEF Room
<1>10. ASSUME NEW n \in ChildMessages PROVE Orderly(children, n)' /\ OutOrWaits(children, n)'
  <2>1. Orderly(children, n) /\ OutOrWaits(children, n)
    BY <1>2
  <2>2. CASE n \in accepted' => n \in accepted
    BY <1>1, <1>6, <2>1, <2>2, OtherSame
  <2>3. CASE n = m /\ C!IsPending(children', m)
    <3>1. Out(children, m)' = Out(children, m) /\ Kept(children, m)' = Kept(children, m)
      BY <1>6 DEF Out, Kept
    <3>2. Orderly(children, m)'
      BY <1>1, <1>6, <2>1, <2>3, <3>1 DEF Orderly
    <3>3. OutOrWaits(children, m)'
      BY <1>1, <1>3, <1>6, <2>1, <2>3, <3>1 DEF OutOrWaits, C!IsPending
    <3>. QED
      BY <2>3, <3>2, <3>3
  <2>4. (n \in accepted' => n \in accepted) \/ (n = m /\ C!IsPending(children', m))
    OBVIOUS
  <2>. QED
    BY <2>2, <2>3, <2>4
<1>. QED
  BY <1>6, <1>7, <1>8, <1>9, <1>10 DEF ChildInv, Correlated

LEMMA ChildMessage ==
    ASSUME C!ConstantsOK, ChildInv, NEW m \in ChildMessages, C!MessageUpdated(m)
    PROVE  ChildInv'
<1>1. \/ children' = children /\ accepted' = accepted
      \/ /\ C!OwnerOf(m) # None /\ accepted' = accepted \cup {m}
         /\ children' = C!Drain([children EXCEPT !.owner[m] = C!OwnerOf(m)], {m})
      \/ /\ C!OwnerOf(m) = None
         /\ accepted' = IF C!IsPending(children', m) THEN accepted \cup {m} ELSE accepted
         /\ children' = IF C!IsPending(children, m) THEN children
                        ELSE C!Queue(children, C!Activity(children, C!MessageChild[m], m, FALSE))
  BY DEF C!MessageUpdated
<1>2. CASE children' = children /\ accepted' = accepted
  BY <1>2, MessageQueued
<1>3. CASE /\ C!OwnerOf(m) # None /\ accepted' = accepted \cup {m}
           /\ children' = C!Drain([children EXCEPT !.owner[m] = C!OwnerOf(m)], {m})
  BY <1>3, MessageAllowed
<1>4. CASE /\ C!OwnerOf(m) = None
           /\ accepted' = IF C!IsPending(children', m) THEN accepted \cup {m} ELSE accepted
           /\ children' = IF C!IsPending(children, m) THEN children
                          ELSE C!Queue(children, C!Activity(children, C!MessageChild[m], m, FALSE))
  <2>1. CASE C!IsPending(children, m)
    <3>1. children' = children /\ accepted' = accepted \cup {m} /\ C!IsPending(children, m)
      BY <1>4, <2>1
    <3>. QED
      BY <3>1, MessageQueued
  <2>2. CASE ~C!IsPending(children, m)
    BY <1>4, <2>2, MessageQueued
  <2>. QED
    BY <2>1, <2>2
<1>. QED
  BY <1>1, <1>2, <1>3, <1>4

\* What a part does to the message it belongs to; the rest stays.
LEMMA PartKeeps ==
    ASSUME C!ConstantsOK, ChildInv, NEW m \in ChildMessages, NEW k \in 1..MaxParts, C!PartUpdated(m, k),
           children' \in ChildState,
           children'.session = children.session, children'.closed = children.closed,
           children'.child = children.child, children'.errs = children.errs,
           children'.allowed = children.allowed, children'.owner = children.owner,
           children'.pending = children.pending,
           \A n \in ChildMessages \ {m} : /\ children'.held[n] = children.held[n]
                                          /\ children'.emitted[n] = children.emitted[n]
                                          /\ \A l \in Nat : <<n, l>> \in children'.seen <=> <<n, l>> \in children.seen,
           IsFiniteSet(C!Held(children')), Cardinality(C!Held(children')) <= MaxChildHeld,
           Orderly(children, m)',
           m \in children.allowed => children'.held[m] = <<>>,
           m \notin children.allowed => children'.emitted[m] = <<>>,
           Out(children, m) \subseteq Out(children', m), Kept(children, m) \subseteq Kept(children', m),
           m \in children.allowed => arrived'[m] = arrived[m] \/ k \in Out(children', m),
           m \notin children.allowed => arrived'[m] = arrived[m] \/ k \in Kept(children', m)
    PROVE  ChildInv'
<1>1. /\ C!Begin(m) /\ work' = work /\ current' = current /\ childEnded' = childEnded /\ errors' = errors
      /\ accepted' = accepted /\ childSent' = [childSent EXCEPT ![m] = k]
      /\ arrived' = [arrived EXCEPT ![m] = @ \cup {k}] \/ arrived' = arrived
  BY DEF C!PartUpdated
<1>2. /\ ChildrenTyped /\ children \in ChildState /\ Bound(children) /\ Waits(children) /\ Room(children)
      /\ \A n \in ChildMessages : Orderly(children, n) /\ OutOrWaits(children, n)
  BY DEF ChildInv, Correlated
<1>3. /\ ~childEnded /\ truth' \in [ChildMessages -> Tasks \cup {None}] /\ truth'[m] # None
  BY <1>1, BeginIs
<1>4. MaxPending \in Nat /\ MaxChildHeld \in Nat /\ MaxParts \in Nat /\ k \in Nat
  BY <1>2, WorkIs
<1>5. /\ arrived \in [ChildMessages -> SUBSET Nat] /\ childSent \in [ChildMessages -> Nat]
      /\ arrived' \in [ChildMessages -> SUBSET Nat] /\ childSent' \in [ChildMessages -> Nat]
      /\ arrived'[m] \subseteq arrived[m] \cup {k}
      /\ \A n \in ChildMessages \ {m} : arrived'[n] = arrived[n] /\ childSent'[n] = childSent[n]
  <2>1. arrived \in [ChildMessages -> SUBSET Nat] /\ childSent \in [ChildMessages -> Nat]
    BY <1>2 DEF ChildrenTyped
  <2>. QED
    BY <1>1, <1>4, <2>1
<1>6. ChildrenTyped'
  BY <1>1, <1>2, <1>3, <1>5 DEF ChildrenTyped
<1>7. Bound(children)' /\ Waits(children)'
  <2>1. Mine(children'.owner[m], C!MessageChild[m])
    BY <1>2 DEF Bound
  <2>. QED
    BY <1>1, <2>1, MessageBinds
<1>8. Room(children)'
  BY <1>2 DEF Room, C!Held
<1>9. ASSUME NEW n \in ChildMessages PROVE Orderly(children, n)' /\ OutOrWaits(children, n)'
  <2>1. Orderly(children, n) /\ OutOrWaits(children, n)
    BY <1>2
  <2>2. CASE n = m
    <3>1. /\ Out(children, m)' = Out(children', m) /\ Kept(children, m)' = Kept(children', m)
          /\ C!IsPending(children, m)' <=> C!IsPending(children, m)
      BY DEF Out, Kept, C!IsPending
    <3>2. /\ m \in children.allowed => children.held[m] = <<>> /\ arrived[m] \subseteq Out(children, m)
                                       /\ children.owner[m] # None
          /\ m \notin children.allowed => children.emitted[m] = <<>> /\ arrived[m] \subseteq Kept(children, m)
                                          /\ children.owner[m] = None
          /\ m \in accepted /\ m \notin children.allowed => C!IsPending(children, m)
      BY <1>3, <2>1, <2>2 DEF OutOrWaits
    <3>3. m \in children.allowed => arrived'[m] \subseteq Out(children', m)
      BY <1>5, <3>2
    <3>4. m \notin children.allowed => arrived'[m] \subseteq Kept(children', m)
      BY <1>5, <3>2
    <3>5. OutOrWaits(children, m)'
      BY <1>1, <1>3, <3>1, <3>2, <3>3, <3>4 DEF OutOrWaits
    <3>. QED
      BY <2>2, <3>5
  <2>3. CASE n # m
    <3>1. n \in ChildMessages \ {m}
      BY <2>3
    <3>2. childSent'[n] = childSent[n] /\ arrived'[n] = arrived[n]
      BY <1>5, <3>1
    <3>3. children.pending \subseteq children'.pending /\ (n \in accepted' => n \in accepted)
      BY <1>1
    <3>4. childEnded' = childEnded /\ (n \in children'.allowed <=> n \in children.allowed)
          /\ children'.owner[n] = children.owner[n]
      BY <1>1
    <3>5. /\ children'.emitted[n] = children.emitted[n] /\ children'.held[n] = children.held[n]
          /\ \A l \in Nat : <<n, l>> \in children'.seen <=> <<n, l>> \in children.seen
      BY <3>1
    <3>. QED
      BY <2>1, <3>2, <3>3, <3>4, <3>5, OtherSame
  <2>. QED
    BY <2>2, <2>3
<1>. QED
  BY <1>6, <1>7, <1>8, <1>9 DEF ChildInv, Correlated

LEMMA ChildPart ==
    ASSUME C!ConstantsOK, ChildInv, NEW m \in ChildMessages, NEW k \in 1..MaxParts, C!PartUpdated(m, k)
    PROVE  ChildInv'
<1> DEFINE out == children.emitted[m]
           kept == children.held[m]
<1>1. /\ ~childEnded /\ childSent' = [childSent EXCEPT ![m] = k] /\ k \in {childSent[m], childSent[m] + 1}
      /\ arrived' = IF C!MessageChild[m] \in children.tracked /\ (m \in children.allowed \/ children'.held # children.held)
                    THEN [arrived EXCEPT ![m] = @ \cup {k}] ELSE arrived
  BY DEF C!PartUpdated, C!Begin
<1>2. \/ C!MessageChild[m] \notin children.tracked /\ children' = children
      \/ C!MessageChild[m] \in children.tracked /\ m \in children.allowed /\ children' = C!EmitPart(children, m, k)
      \/ m \notin children.allowed /\ children' = C!BufferPart(children, m, k)
  BY DEF C!PartUpdated
<1>3. /\ ChildrenTyped /\ children \in ChildState /\ Room(children)
      /\ Orderly(children, m) /\ OutOrWaits(children, m)
  BY DEF ChildInv, Correlated
<1>4. MaxPending \in Nat /\ MaxChildHeld \in Nat /\ MaxParts \in Nat /\ k \in Nat
  BY <1>3, WorkIs
<1>5. childSent[m] \in Nat /\ childSent'[m] = k /\ childSent[m] <= k
  BY <1>1, <1>3, <1>4 DEF ChildrenTyped
<1>6. IsFiniteSet(C!Held(children)) /\ Cardinality(C!Held(children)) <= MaxChildHeld
      /\ Cardinality(C!Held(children)) \in Nat
  BY <1>3, FS_CardinalityType DEF Room
<1>7. /\ out \in Seq(Tagged) /\ Len(out) \in Nat
      /\ kept \in Seq(Nat) /\ Len(kept) \in Nat /\ DOMAIN kept = 1..Len(kept)
      /\ \A i \in 1..Len(kept) : kept[i] \in Nat
  <2>1. out \in Seq(Tagged) /\ kept \in Seq(Nat)
    BY <1>3, ChildStateIs
  <2> HIDE DEF out, kept
  <2>2. \A i \in 1..Len(kept) : kept[i] \in Nat
    BY <2>1, InSeq
  <2>. QED
    BY <2>1, <2>2
<1>8. /\ Out(children, m) \subseteq 0..childSent[m] /\ Kept(children, m) \subseteq 0..childSent[m]
      /\ \A i, j \in 1..Len(out) : i < j => out[i].part < out[j].part
      /\ \A i \in 1..Len(out) : out[i].task = children.owner[m]
      /\ \A l \in Nat : <<m, l>> \in children.seen <=> l \in Out(children, m)
      /\ \A i, j \in 1..Len(kept) : i < j => kept[i] <= kept[j]
  BY <1>3 DEF Orderly
<1>9. 0..childSent[m] \subseteq 0..k
  BY <1>4, <1>5
<1>10. CASE children' = children /\ (arrived' = arrived \/ (m \in children.allowed /\ k \in Out(children, m)))
  <2>1. Out(children, m)' = Out(children, m) /\ Kept(children, m)' = Kept(children, m)
    BY <1>10 DEF Out, Kept
  <2>2. Out(children, m) \subseteq 0..childSent'[m] /\ Kept(children, m) \subseteq 0..childSent'[m]
    BY <1>5, <1>8, <1>9
  <2>3. Orderly(children, m)'
    BY <1>8, <1>10, <2>1, <2>2 DEF Orderly
  <2>4. /\ m \in children.allowed => children'.held[m] = <<>>
        /\ m \notin children.allowed => children'.emitted[m] = <<>>
    BY <1>3, <1>10 DEF OutOrWaits
  <2>5. /\ m \in children.allowed => arrived'[m] = arrived[m] \/ k \in Out(children', m)
        /\ m \notin children.allowed => arrived'[m] = arrived[m] \/ k \in Kept(children', m)
    BY <1>10
  <2>. QED
    BY <1>3, <1>6, <1>10, <2>3, <2>4, <2>5, PartKeeps
<1>11. CASE /\ C!MessageChild[m] \in children.tracked /\ m \in children.allowed
            /\ children' = C!EmitPart(children, m, k) /\ <<m, k>> \notin children.seen
  <2> DEFINE e == [part |-> k, task |-> children.owner[m]]
             se == children.seen \cup {<<m, k>>}
             em == [children.emitted EXCEPT ![m] = Append(@, e)]
  <2>1. children' = [children EXCEPT !.seen = se, !.emitted = em]
    BY <1>3, <1>11 DEF C!EmitPart, ChildState
  <2>2. e \in Tagged /\ e.part = k /\ e.task = children.owner[m]
    BY <1>3, <1>4, ChildStateIs DEF Tagged
  <2>3. /\ se \subseteq ChildMessages \X Nat
        /\ \A n \in ChildMessages, l \in Nat : <<n, l>> \in se <=> <<n, l>> \in children.seen \/ (n = m /\ l = k)
    BY <1>3, <1>4, ChildStateIs
  <2>4. /\ em \in [ChildMessages -> Seq(Tagged)] /\ em[m] = Append(out, e)
        /\ \A n \in ChildMessages \ {m} : em[n] = children.emitted[n]
    <3>1. Append(out, e) \in Seq(Tagged)
      BY <1>7, <2>2
    <3>. QED
      BY <1>3, <3>1, ChildStateIs
  <2> HIDE DEF se, em, e
  <2>5. /\ children' \in ChildState /\ children'.seen = se /\ children'.emitted = em
        /\ children'.session = children.session /\ children'.closed = children.closed
        /\ children'.child = children.child /\ children'.errs = children.errs
        /\ children'.allowed = children.allowed /\ children'.owner = children.owner
        /\ children'.pending = children.pending /\ children'.held = children.held
    BY <1>3, <2>1, <2>3, <2>4 DEF ChildState
  <2> DEFINE q == children'.emitted[m]
  <2>6. /\ q = Append(out, e) /\ Len(q) = Len(out) + 1 /\ q[Len(out) + 1] = e
        /\ \A i \in 1..Len(out) : q[i] = out[i]
    <3>1. q = Append(out, e)
      BY <2>4, <2>5
    <3> HIDE DEF q, out
    <3>. QED
      BY <1>7, <2>2, <3>1
  <2> HIDE DEF q, out
  <2>7. \A i \in 1..Len(q) : i \in 1..Len(out) \/ i = Len(out) + 1
    BY <1>7, <2>6
  <2>8. /\ \A i \in 1..Len(q) : q[i].part \in Out(children, m) \cup {k}
        /\ k \in {q[i].part : i \in 1..Len(q)}
        /\ \A l \in Out(children, m) : \E i \in 1..Len(q) : q[i].part = l
    <3>1. \A i \in 1..Len(out) : out[i].part \in Out(children, m)
      BY DEF Out, out
    <3>2. \A l \in Out(children, m) : \E i \in 1..Len(out) : out[i].part = l
      BY DEF Out, out
    <3>3. Len(out) + 1 \in 1..Len(q) /\ \A i \in 1..Len(out) : i \in 1..Len(q)
      BY <1>7, <2>6
    <3>4. \A i \in 1..Len(q) : q[i].part \in Out(children, m) \cup {k}
      BY <2>2, <2>6, <2>7, <3>1
    <3>5. k \in {q[i].part : i \in 1..Len(q)}
      BY <2>2, <2>6, <3>3
    <3>6. \A l \in Out(children, m) : \E i \in 1..Len(q) : q[i].part = l
      BY <2>6, <3>2, <3>3
    <3>. QED
      BY <3>4, <3>5, <3>6
  <2>9. Out(children', m) = Out(children, m) \cup {k} /\ Kept(children', m) = Kept(children, m)
    <3>1. Out(children', m) = {q[i].part : i \in 1..Len(q)}
      BY DEF Out, q
    <3>2. Kept(children', m) = Kept(children, m)
      BY <2>5 DEF Kept
    <3>. QED
      BY <2>8, <3>1, <3>2
  <2>10. \A i \in 1..Len(out) : out[i].part \in Nat /\ out[i].part < k
    <3> SUFFICES ASSUME NEW i \in 1..Len(out) PROVE out[i].part \in Nat /\ out[i].part < k
      OBVIOUS
    <3>1. out[i].part \in Out(children, m)
      BY DEF Out, out
    <3>2. out[i].part \in 0..k
      BY <1>8, <1>9, <3>1
    <3>3. k \notin Out(children, m)
      BY <1>4, <1>8, <1>11
    <3>. QED
      BY <1>4, <3>1, <3>2, <3>3
  <2>11. \A i, j \in 1..Len(q) : i < j => q[i].part < q[j].part
    <3> SUFFICES ASSUME NEW i \in 1..Len(q), NEW j \in 1..Len(q), i < j PROVE q[i].part < q[j].part
      OBVIOUS
    <3>1. i \in 1..Len(out)
      BY <1>7, <2>6, <2>7
    <3>2. CASE j \in 1..Len(out)
      BY <1>8, <2>6, <3>1, <3>2 DEF out
    <3>3. CASE j = Len(out) + 1
      BY <2>2, <2>6, <2>10, <3>1, <3>3
    <3>. QED
      BY <2>7, <3>2, <3>3
  <2>12. \A i \in 1..Len(q) : q[i].task = children.owner[m]
    BY <1>8, <2>2, <2>6, <2>7 DEF out
  <2>13. \A l \in Nat : <<m, l>> \in se <=> l \in Out(children', m)
    BY <1>8, <2>3, <2>9
  <2>14. Out(children', m) \subseteq 0..k /\ Kept(children', m) \subseteq 0..k
    BY <1>4, <1>8, <1>9, <2>9
  <2>15. Orderly(children, m)'
    <3>1. Out(children, m)' = Out(children', m) /\ Kept(children, m)' = Kept(children', m)
      BY DEF Out, Kept
    <3>. QED
      BY <1>5, <1>8, <2>5, <2>11, <2>12, <2>13, <2>14, <3>1 DEF Orderly, q
  <2>16. children'.held[m] = <<>>
    BY <1>3, <1>11, <2>5 DEF OutOrWaits
  <2>17. C!Held(children') = C!Held(children)
    BY <2>5 DEF C!Held
  <2>18. \A n \in ChildMessages \ {m} : /\ children'.held[n] = children.held[n]
                                        /\ children'.emitted[n] = children.emitted[n]
                                        /\ \A l \in Nat : <<n, l>> \in children'.seen <=> <<n, l>> \in children.seen
    BY <2>3, <2>4, <2>5
  <2>19. Out(children, m) \subseteq Out(children', m) /\ Kept(children, m) \subseteq Kept(children', m)
         /\ k \in Out(children', m)
    BY <2>9
  <2>20. /\ m \in children.allowed => children'.held[m] = <<>>
         /\ m \notin children.allowed => children'.emitted[m] = <<>>
         /\ m \in children.allowed => arrived'[m] = arrived[m] \/ k \in Out(children', m)
         /\ m \notin children.allowed => arrived'[m] = arrived[m] \/ k \in Kept(children', m)
    BY <1>11, <2>16, <2>19
  <2>21. IsFiniteSet(C!Held(children')) /\ Cardinality(C!Held(children')) <= MaxChildHeld
    BY <1>6, <2>17
  <2>. QED
    BY <2>5, <2>15, <2>18, <2>19, <2>20, <2>21, PartKeeps
<1>12. CASE m \notin children.allowed /\ children' = C!BufferPart(children, m, k) /\ C!HeldTotal(children) < MaxChildHeld
  <2> DEFINE he == [children.held EXCEPT ![m] = Append(@, k)]
  <2>1. children' = [children EXCEPT !.held = he]
    BY <1>3, <1>12 DEF C!BufferPart, ChildState
  <2>2. /\ he \in [ChildMessages -> Seq(Nat)] /\ he[m] = Append(kept, k)
        /\ \A n \in ChildMessages \ {m} : he[n] = children.held[n]
    <3>1. Append(kept, k) \in Seq(Nat)
      BY <1>4, <1>7
    <3>. QED
      BY <1>3, <3>1, ChildStateIs
  <2> HIDE DEF he
  <2>3. /\ children' \in ChildState /\ children'.held = he
        /\ children'.session = children.session /\ children'.closed = children.closed
        /\ children'.child = children.child /\ children'.errs = children.errs
        /\ children'.allowed = children.allowed /\ children'.owner = children.owner
        /\ children'.pending = children.pending /\ children'.emitted = children.emitted
        /\ children'.seen = children.seen
    BY <1>3, <2>1, <2>2 DEF ChildState
  <2> DEFINE q == children'.held[m]
  <2>4. /\ q = Append(kept, k) /\ Len(q) = Len(kept) + 1 /\ q[Len(kept) + 1] = k
        /\ DOMAIN q = 1..(Len(kept) + 1) /\ \A i \in 1..Len(kept) : q[i] = kept[i]
    <3>1. q = Append(kept, k)
      BY <2>2, <2>3
    <3> HIDE DEF q, kept
    <3>. QED
      BY <1>4, <1>7, <3>1
  <2> HIDE DEF q, kept
  <2>5. \A i \in 1..Len(q) : i \in 1..Len(kept) \/ i = Len(kept) + 1
    BY <1>7, <2>4
  <2>6. /\ \A i \in 1..Len(q) : q[i] \in Kept(children, m) \cup {k}
        /\ k \in {q[i] : i \in 1..Len(q)}
        /\ \A l \in Kept(children, m) : \E i \in 1..Len(q) : q[i] = l
    <3>1. \A i \in 1..Len(kept) : kept[i] \in Kept(children, m)
      BY DEF Kept, kept
    <3>2. \A l \in Kept(children, m) : \E i \in 1..Len(kept) : kept[i] = l
      BY DEF Kept, kept
    <3>3. Len(kept) + 1 \in 1..Len(q) /\ \A i \in 1..Len(kept) : i \in 1..Len(q)
      BY <1>7, <2>4
    <3>4. \A i \in 1..Len(q) : q[i] \in Kept(children, m) \cup {k}
      BY <2>4, <2>5, <3>1
    <3>5. k \in {q[i] : i \in 1..Len(q)}
      BY <2>4, <3>3
    <3>6. \A l \in Kept(children, m) : \E i \in 1..Len(q) : q[i] = l
      BY <2>4, <3>2, <3>3
    <3>. QED
      BY <3>4, <3>5, <3>6
  <2>7. Kept(children', m) = Kept(children, m) \cup {k} /\ Out(children', m) = Out(children, m)
    <3>1. Kept(children', m) = {q[i] : i \in 1..Len(q)}
      BY DEF Kept, q
    <3>2. Out(children', m) = Out(children, m)
      BY <2>3 DEF Out
    <3>. QED
      BY <2>6, <3>1, <3>2
  <2>8. \A i \in 1..Len(kept) : kept[i] <= k
    <3> SUFFICES ASSUME NEW i \in 1..Len(kept) PROVE kept[i] <= k
      OBVIOUS
    <3>1. kept[i] \in Kept(children, m)
      BY DEF Kept, kept
    <3>2. kept[i] \in 0..k
      BY <1>8, <1>9, <3>1
    <3>. QED
      BY <1>4, <3>2
  <2>9. \A i, j \in 1..Len(q) : i < j => q[i] <= q[j]
    <3> SUFFICES ASSUME NEW i \in 1..Len(q), NEW j \in 1..Len(q), i < j PROVE q[i] <= q[j]
      OBVIOUS
    <3>1. i \in 1..Len(kept)
      BY <1>7, <2>4, <2>5
    <3>2. CASE j \in 1..Len(kept)
      BY <1>8, <2>4, <3>1, <3>2 DEF kept
    <3>3. CASE j = Len(kept) + 1
      BY <2>4, <2>8, <3>1, <3>3
    <3>. QED
      BY <2>5, <3>2, <3>3
  <2>10. Out(children', m) \subseteq 0..k /\ Kept(children', m) \subseteq 0..k
    BY <1>4, <1>8, <1>9, <2>7
  <2>11. Orderly(children, m)'
    <3>1. Out(children, m)' = Out(children', m) /\ Kept(children, m)' = Kept(children', m)
      BY DEF Out, Kept
    <3>. QED
      BY <1>5, <1>8, <2>3, <2>7, <2>9, <2>10, <3>1 DEF Orderly, q
  <2>12. C!Held(children') = C!Held(children) \cup {<<m, Len(kept) + 1>>}
    <3>1. \A n \in ChildMessages \ {m} : DOMAIN children'.held[n] = DOMAIN children.held[n]
      BY <2>2, <2>3
    <3>2. \A i : i \in DOMAIN children'.held[m] <=> i \in DOMAIN children.held[m] \/ i = Len(kept) + 1
      <4>1. \A i : i \in 1..(Len(kept) + 1) <=> i \in 1..Len(kept) \/ i = Len(kept) + 1
        BY <1>7
      <4>. QED
        BY <1>7, <2>4, <4>1 DEF q, kept
    <3>3. \A n, i : <<n, i>> \in C!Held(children') <=> n \in ChildMessages /\ i \in DOMAIN children'.held[n]
      BY DEF C!Held
    <3>4. \A n, i : <<n, i>> \in C!Held(children) <=> n \in ChildMessages /\ i \in DOMAIN children.held[n]
      BY DEF C!Held
    <3>5. \A n, i : <<n, i>> \in C!Held(children') <=> <<n, i>> \in C!Held(children) \cup {<<m, Len(kept) + 1>>}
      BY <3>1, <3>2, <3>3, <3>4
    <3>6. /\ \A x \in C!Held(children') : \E n, i : x = <<n, i>>
          /\ \A x \in C!Held(children) : \E n, i : x = <<n, i>>
      BY DEF C!Held
    <3>. QED
      BY <3>5, <3>6
  <2>13. IsFiniteSet(C!Held(children')) /\ Cardinality(C!Held(children')) <= MaxChildHeld
    <3>1. Cardinality(C!Held(children)) < MaxChildHeld
      BY <1>12, ChildCount DEF C!HeldTotal
    <3>2. /\ IsFiniteSet(C!Held(children'))
          /\ \/ Cardinality(C!Held(children')) = Cardinality(C!Held(children))
             \/ Cardinality(C!Held(children')) = Cardinality(C!Held(children)) + 1
      <4> DEFINE H == C!Held(children)
                 x == <<m, Len(kept) + 1>>
      <4>1. IsFiniteSet(H) /\ C!Held(children') = H \cup {x}
        BY <1>6, <2>12
      <4> HIDE DEF H, x
      <4>2. IsFiniteSet(H \cup {x})
            /\ Cardinality(H \cup {x}) = IF x \in H THEN Cardinality(H) ELSE Cardinality(H) + 1
        BY <4>1, FS_AddElement
      <4>. QED
        BY <4>1, <4>2 DEF H
    <3>. QED
      BY <1>4, <1>6, <3>1, <3>2
  <2>14. children'.emitted[m] = <<>>
    BY <1>3, <1>12, <2>3 DEF OutOrWaits
  <2>15. \A n \in ChildMessages \ {m} : /\ children'.held[n] = children.held[n]
                                        /\ children'.emitted[n] = children.emitted[n]
                                        /\ \A l \in Nat : <<n, l>> \in children'.seen <=> <<n, l>> \in children.seen
    BY <2>2, <2>3
  <2>16. Out(children, m) \subseteq Out(children', m) /\ Kept(children, m) \subseteq Kept(children', m)
         /\ k \in Kept(children', m)
    BY <2>7
  <2>17. /\ m \in children.allowed => children'.held[m] = <<>>
         /\ m \notin children.allowed => children'.emitted[m] = <<>>
         /\ m \in children.allowed => arrived'[m] = arrived[m] \/ k \in Out(children', m)
         /\ m \notin children.allowed => arrived'[m] = arrived[m] \/ k \in Kept(children', m)
    BY <1>12, <2>14, <2>16
  <2>. QED
    BY <2>3, <2>11, <2>13, <2>15, <2>16, <2>17, PartKeeps
<1>13. CASE C!MessageChild[m] \notin children.tracked /\ children' = children
  BY <1>1, <1>10, <1>13
<1>14. CASE m \in children.allowed /\ children' = C!EmitPart(children, m, k) /\ <<m, k>> \in children.seen
  <2>1. children' = children /\ k \in Out(children, m)
    BY <1>4, <1>8, <1>14 DEF C!EmitPart
  <2>. QED
    BY <1>10, <1>14, <2>1
<1>15. CASE m \notin children.allowed /\ children' = C!BufferPart(children, m, k)
            /\ ~(C!HeldTotal(children) < MaxChildHeld)
  <2>1. children' = children
    BY <1>15 DEF C!BufferPart
  <2>2. arrived' = arrived
    BY <1>1, <1>15, <2>1
  <2>. QED
    BY <1>10, <2>1, <2>2
<1>. QED
  BY <1>2, <1>11, <1>12, <1>13, <1>14, <1>15

\* Every exit from the stream flushes what is pending.
LEMMA ChildEnd ==
    ASSUME C!ConstantsOK, ChildInv, C!End
    PROVE  ChildInv'
<1> DEFINE R == children.pending
           b == [children EXCEPT !.pending = {}]
           ms == Messaged(R)
           d == children'
<1>1. /\ childEnded' = TRUE /\ work' = work /\ current' = current /\ childSent' = childSent
      /\ truth' = truth /\ accepted' = accepted /\ arrived' = arrived /\ errors' = errors
      /\ d = C!EmitPending(b, R)
  BY DEF C!End, C!Flush
<1>2. /\ ChildrenTyped /\ children \in ChildState /\ Bound(children) /\ Waits(children) /\ Room(children)
      /\ \A n \in ChildMessages : Orderly(children, n) /\ OutOrWaits(children, n)
  BY DEF ChildInv, Correlated
<1>3. R \subseteq Waiting /\ MaxPending \in Nat /\ MaxChildHeld \in Nat
  BY <1>2, ChildStateIs, WorkIs
<1> HIDE DEF d
<1>4. /\ b \in ChildState /\ b.pending = {}
      /\ b.session = children.session /\ b.closed = children.closed /\ b.child = children.child
      /\ b.allowed = children.allowed /\ b.owner = children.owner /\ b.errs = children.errs
      /\ b.held = children.held /\ b.emitted = children.emitted /\ b.seen = children.seen
  BY <1>2 DEF ChildState
<1> HIDE DEF b
<1>5. \A m : /\ Out(b, m) = Out(children, m) /\ Kept(b, m) = Kept(children, m)
             /\ Orderly(children, m) => Orderly(b, m)
  BY <1>4 DEF Out, Kept, Orderly
<1>6. \A x \in R : ~x.isErr => /\ x.message \in ChildMessages /\ x.message \notin children.allowed
                               /\ truth[x.message] # None
  BY <1>2 DEF Waits
<1>7. \A m \in ms : /\ m \in ChildMessages /\ m \notin children.allowed /\ truth[m] # None
  BY <1>6 DEF Messaged
<1>8. \A m \in ms : Ready(b, m)
  <2> SUFFICES ASSUME NEW m \in ms PROVE Ready(b, m)
    OBVIOUS
  <2>1. m \in ChildMessages /\ m \notin children.allowed /\ Orderly(children, m) /\ OutOrWaits(children, m)
    BY <1>2, <1>7
  <2>. QED
    BY <1>4, <1>5, <2>1 DEF Ready, OutOrWaits
<1>9. /\ d \in ChildState
      /\ d.session = b.session /\ d.closed = b.closed /\ d.child = b.child
      /\ d.pending = b.pending /\ d.owner = b.owner
      /\ d.allowed = b.allowed \cup ms /\ d.errs = b.errs \cup Errors(b, R)
      /\ \A m \in ms : d.held[m] = <<>> /\ Orderly(d, m) /\ Out(b, m) \cup Kept(b, m) \subseteq Out(d, m)
      /\ \A m \in ChildMessages \ ms :
            /\ d.held[m] = b.held[m] /\ d.emitted[m] = b.emitted[m]
            /\ Out(d, m) = Out(b, m) /\ Kept(d, m) = Kept(b, m) /\ (Orderly(b, m) => Orderly(d, m))
      /\ C!Held(d) \subseteq C!Held(b)
  <2>1. \A x \in R : ~x.isErr => x.message \in ChildMessages /\ Ready(b, x.message)
    BY <1>6, <1>8 DEF Messaged
  <2>2. R \in SUBSET Waiting
    BY <1>3
  <2>. QED
    BY <1>1, <1>4, <2>1, <2>2, PendingOut
<1>10. C!TaskChild' = C!TaskChild /\ C!MessageChild' = C!MessageChild /\ \A t, x : Mine(t, x)' <=> Mine(t, x)
  BY <1>1 DEF C!TaskChild, C!MessageChild, Mine
<1>11. ASSUME NEW e \in d.errs PROVE Mine(e.task, e.child) /\ \E f \in errors : f.child = e.child
  <2>1. CASE e \in children.errs
    BY <1>2, <2>1 DEF Bound
  <2>2. CASE e \in Errors(b, R)
    <3>1. PICK x \in R : x.isErr /\ e = [child |-> x.child, task |-> C!TaskForPending(b, x)]
      BY <2>2 DEF Errors
    <3>2. x.canCorrelate /\ C!TaskForActivity(children, x.child) = None /\ \E f \in errors : f.child = x.child
      BY <1>2, <3>1 DEF Waits
    <3>3. e.child = x.child /\ e.task = None
      BY <1>4, <3>1, <3>2 DEF C!TaskForPending, C!TaskForActivity
    <3>. QED
      BY <3>2, <3>3 DEF Mine
  <2>. QED
    BY <1>4, <1>9, <2>1, <2>2
<1>12. ASSUME NEW m \in ChildMessages
       PROVE  /\ Mine(d.owner[m], C!MessageChild[m]) /\ Mine(truth[m], C!MessageChild[m])
              /\ truth[m] = None => d.owner[m] = None /\ d.emitted[m] = <<>>
  <2>1. /\ Mine(children.owner[m], C!MessageChild[m]) /\ Mine(truth[m], C!MessageChild[m])
        /\ truth[m] = None => children.owner[m] = None /\ children.emitted[m] = <<>>
    BY <1>2 DEF Bound
  <2>2. m \in ms => truth[m] # None
    BY <1>7
  <2> HIDE DEF ms
  <2>3. m \notin ms => d.emitted[m] = children.emitted[m]
    BY <1>4, <1>9
  <2>. QED
    BY <1>4, <1>9, <2>1, <2>2, <2>3
<1>13. Bound(children)'
  <2>1. \A x \in Children : Mine(d.session[x], x) /\ Mine(d.closed[x], x) /\ Mine(current[x], x)
    BY <1>2, <1>4, <1>9 DEF Bound
  <2>2. /\ \A t \in Tasks : d.child[t] \in {None, C!TaskChild[t]}
        /\ \A e \in errors : C!TaskChild[e.task] = e.child
    BY <1>2, <1>4, <1>9 DEF Bound
  <2>. QED
    BY <1>1, <1>10, <1>11, <1>12, <2>1, <2>2 DEF Bound, d
<1>14. Waits(children)' /\ ChildrenTyped'
  BY <1>1, <1>2, <1>4, <1>9 DEF Waits, ChildrenTyped, d
<1>15. Room(children)'
  <2>1. d.pending \subseteq children.pending /\ C!Held(d) \subseteq C!Held(children)
    BY <1>4, <1>9 DEF C!Held
  <2>2. Room(d)
    BY <1>2, <1>3, <2>1, RoomShrinks
  <2>. QED
    BY <2>2 DEF Room, C!Held, d
<1>16. ASSUME NEW m \in ChildMessages PROVE Orderly(children, m)' /\ OutOrWaits(children, m)'
  <2>1. Orderly(children, m) /\ OutOrWaits(children, m)
    BY <1>2
  <2>2. /\ m \in children.allowed => children.held[m] = <<>> /\ arrived[m] \subseteq Out(children, m)
        /\ m \notin children.allowed => /\ children.emitted[m] = <<>> /\ arrived[m] \subseteq Kept(children, m)
                                        /\ children.owner[m] = None
        /\ m \in accepted /\ m \notin children.allowed => m \in ms
    BY <2>1 DEF OutOrWaits, C!IsPending, Messaged
  <2> HIDE DEF ms
  <2>3. /\ Orderly(d, m)
        /\ m \in d.allowed => d.held[m] = <<>> /\ arrived[m] \subseteq Out(d, m)
        /\ m \notin d.allowed => d.emitted[m] = <<>> /\ arrived[m] \subseteq Kept(d, m) /\ d.owner[m] = None
        /\ m \in accepted => m \in d.allowed
    <3>1. CASE m \in ms
      BY <1>4, <1>5, <1>7, <1>9, <2>2, <3>1
    <3>2. CASE m \notin ms
      <4>1. /\ d.held[m] = children.held[m] /\ d.emitted[m] = children.emitted[m]
            /\ Out(d, m) = Out(children, m) /\ Kept(d, m) = Kept(children, m) /\ Orderly(d, m)
            /\ (m \in d.allowed <=> m \in children.allowed) /\ d.owner[m] = children.owner[m]
        BY <1>4, <1>5, <1>9, <2>1, <3>2
      <4>. QED
        BY <2>2, <3>2, <4>1
    <3>. QED
      BY <3>1, <3>2
  <2>4. Out(children, m)' = Out(d, m) /\ Kept(children, m)' = Kept(d, m)
    BY DEF Out, Kept, d
  <2>5. Orderly(children, m)'
    BY <1>1, <2>3, <2>4 DEF Orderly, d
  <2>6. OutOrWaits(children, m)'
    BY <1>1, <2>3, <2>4 DEF OutOrWaits, d
  <2>. QED
    BY <2>5, <2>6
<1>. QED
  BY <1>9, <1>13, <1>14, <1>15, <1>16 DEF ChildInv, Correlated, d

LEMMA ChildInit ==
    ASSUME C!ConstantsOK, C!Init
    PROVE  ChildInv
<1>1. /\ childEnded = FALSE /\ work \in Workloads
      /\ current = [c \in Children |-> None] /\ childSent = [m \in ChildMessages |-> 0]
      /\ truth = [m \in ChildMessages |-> None] /\ accepted = {} /\ errors = {}
      /\ arrived = [m \in ChildMessages |-> {}]
  BY DEF C!Init
<1>2. /\ children.tracked = {} /\ children.session = [c \in Children |-> None]
      /\ children.child = [t \in Tasks |-> None] /\ children.closed = [c \in Children |-> None]
      /\ children.owner = [m \in ChildMessages |-> None] /\ children.pending = {} /\ children.allowed = {}
      /\ children.held = [m \in ChildMessages |-> <<>>] /\ children.seen = {}
      /\ children.emitted = [m \in ChildMessages |-> <<>>] /\ children.errs = {}
  BY DEF C!Init
<1>3. children \in ChildState
  <2>1. /\ [m \in ChildMessages |-> <<>>] \in [ChildMessages -> Seq(Nat)]
        /\ [m \in ChildMessages |-> <<>>] \in [ChildMessages -> Seq(Tagged)]
    OBVIOUS
  <2>. QED
    BY <2>1 DEF C!Init, ChildState
<1>4. ChildrenTyped
  BY <1>1 DEF ChildrenTyped
<1>5. MaxPending \in Nat /\ MaxChildHeld \in Nat
  BY <1>4, WorkIs
<1>6. Bound(children)
  BY <1>1, <1>2 DEF Bound, Mine
<1>7. Room(children)
  <2>1. C!Held(children) = {}
    BY <1>2 DEF C!Held
  <2>. QED
    BY <1>2, <1>5, <2>1, FS_EmptySet DEF Room
<1>8. ASSUME NEW m \in ChildMessages PROVE Orderly(children, m) /\ OutOrWaits(children, m)
  <2>1. children.emitted[m] = <<>> /\ children.held[m] = <<>> /\ Len(<<>>) = 0
    BY <1>2
  <2>2. Out(children, m) = {} /\ Kept(children, m) = {}
    BY <2>1 DEF Out, Kept
  <2>3. Orderly(children, m)
    BY <1>2, <2>1, <2>2 DEF Orderly
  <2>. QED
    BY <1>1, <1>2, <2>1, <2>2, <2>3 DEF OutOrWaits
<1>. QED
  BY <1>2, <1>3, <1>4, <1>6, <1>7, <1>8 DEF ChildInv, Correlated, Waits

LEMMA ChildStep ==
    ASSUME C!ConstantsOK, ChildInv, [C!Next]_(C!vars)
    PROVE  ChildInv'
<1>1. ASSUME NEW c \in Children, C!SessionCreated(c) PROVE ChildInv'
  BY <1>1, ChildCreated
<1>2. ASSUME NEW c \in Children, C!ChildError(c) PROVE ChildInv'
  BY <1>2, ChildFails
<1>3. ASSUME NEW t \in Tasks, C!StartTask(t) PROVE ChildInv'
  BY <1>3, ChildStart
<1>4. ASSUME NEW t \in Tasks, NEW withChild \in BOOLEAN, NEW over \in BOOLEAN, C!TaskPart(t, withChild, over)
      PROVE  ChildInv'
  BY <1>4, ChildTaskPart
<1>5. ASSUME NEW m \in ChildMessages, C!MessageUpdated(m) PROVE ChildInv'
  BY <1>5, ChildMessage
<1>6. ASSUME NEW m \in ChildMessages, NEW k \in 1..MaxParts, C!PartUpdated(m, k) PROVE ChildInv'
  BY <1>6, ChildPart
<1>7. CASE C!End
  BY <1>7, ChildEnd
<1>8. CASE UNCHANGED C!vars
  <2>1. /\ UNCHANGED <<childEnded, work, current, childSent, truth, accepted, arrived, errors>>
        /\ children' = children /\ ChildrenTyped /\ Correlated(children)
    BY <1>8 DEF C!vars, ChildInv
  <2>2. Correlated(children')
    BY <2>1
  <2>. QED
    BY <2>1, <2>2, OnlyChildren
<1>. QED
  BY <1>1, <1>2, <1>3, <1>4, <1>5, <1>6, <1>7, <1>8 DEF C!Next

\* The parts of a message that are out, as the property counts them.
LEMMA PartsOutIs ==
    ASSUME ChildInv, NEW m \in ChildMessages
    PROVE  /\ DOMAIN children.emitted[m] = 1..Len(children.emitted[m])
           /\ \A i \in 1..Len(children.emitted[m]) : C!PartsOut(m)[i] = children.emitted[m][i].part
           /\ C!ToSet(C!PartsOut(m)) = Out(children, m)
<1>1. children.emitted[m] \in Seq(Tagged)
  BY ChildStateIs DEF ChildInv, Correlated
<1>2. DOMAIN children.emitted[m] = 1..Len(children.emitted[m])
  BY <1>1
<1>3. C!PartsOut(m) = [i \in 1..Len(children.emitted[m]) |-> children.emitted[m][i].part]
  BY <1>2 DEF C!PartsOut
<1>. QED
  BY <1>2, <1>3, ChildCount DEF Out

LEMMA InvWhole ==
    ASSUME ChildInv
    PROVE  ChildrenWhole
<1>1. /\ children \in ChildState /\ Waits(children) /\ Room(children)
      /\ \A m \in ChildMessages : Orderly(children, m) /\ OutOrWaits(children, m)
  BY DEF ChildInv, Correlated
<1>2. C!TypeOK
  BY <1>1, ChildStateIs, ChildCount DEF C!TypeOK, C!HeldTotal, Room
<1>3. C!OnceInOrder
  <2> SUFFICES ASSUME NEW m \in ChildMessages, NEW i \in DOMAIN children.emitted[m],
                      NEW j \in DOMAIN children.emitted[m], i < j
               PROVE  C!PartsOut(m)[i] < C!PartsOut(m)[j]
    BY DEF C!OnceInOrder
  <2>1. i \in 1..Len(children.emitted[m]) /\ j \in 1..Len(children.emitted[m])
    BY PartsOutIs
  <2>2. children.emitted[m][i].part < children.emitted[m][j].part
    BY <1>1, <2>1 DEF Orderly
  <2>. QED
    BY <2>1, <2>2, PartsOutIs
<1>4. C!NothingStranded
  <2> SUFFICES ASSUME childEnded, NEW m \in accepted PROVE arrived[m] \subseteq C!ToSet(C!PartsOut(m))
    BY DEF C!NothingStranded
  <2>1. m \in ChildMessages
    BY DEF ChildInv, ChildrenTyped
  <2>2. arrived[m] \subseteq Out(children, m)
    BY <1>1, <2>1 DEF OutOrWaits
  <2>. QED
    BY <2>1, <2>2, PartsOutIs
<1>5. C!WaitsOnlyForTheUnbound
  BY <1>1 DEF C!WaitsOnlyForTheUnbound, Waits
<1>. QED
  BY <1>2, <1>3, <1>4, <1>5 DEF ChildrenWhole, C!ChildrenWhole

LEMMA InvOwned ==
    ASSUME C!ConstantsOK, ChildInv
    PROVE  ChildrenOwned
<1>1. /\ ChildrenTyped /\ children \in ChildState /\ Bound(children)
      /\ \A m \in ChildMessages : Orderly(children, m) /\ OutOrWaits(children, m)
  BY DEF ChildInv, Correlated
<1>2. \A m \in ChildMessages : \A i \in DOMAIN children.emitted[m] : children.emitted[m][i].task = children.owner[m]
  BY <1>1, PartsOutIs DEF Orderly
<1>3. C!OneOwner
  BY <1>2 DEF C!OneOwner
<1>4. C!RightOwner
  <2> SUFFICES ASSUME \A t, u \in Tasks : C!TaskChild[t] = C!TaskChild[u] => t = u
               PROVE  /\ \A m \in ChildMessages : \A i \in DOMAIN children.emitted[m] :
                            children.emitted[m][i].task \in {None, truth[m]}
                      /\ \A e \in children.errs : e.task = None \/ e \in errors
    BY DEF C!RightOwner
  <2>1. ASSUME NEW m \in ChildMessages, NEW i \in DOMAIN children.emitted[m]
        PROVE  children.emitted[m][i].task \in {None, truth[m]}
    <3>1. /\ Mine(children.owner[m], C!MessageChild[m]) /\ Mine(truth[m], C!MessageChild[m])
          /\ truth[m] = None => children.owner[m] = None
      BY <1>1 DEF Bound
    <3>2. children.owner[m] \in Tasks \cup {None} /\ truth[m] \in Tasks \cup {None}
      BY <1>1, ChildStateIs DEF ChildrenTyped
    <3>3. children.owner[m] # None => children.owner[m] = truth[m]
      BY <3>1, <3>2 DEF Mine
    <3>. QED
      BY <1>2, <2>1, <3>3
  <2>2. ASSUME NEW e \in children.errs, e.task # None PROVE e \in errors
    <3>1. /\ Mine(e.task, e.child) /\ e \in [child : Children, task : Tasks \cup {None}]
          /\ \E f \in errors : f.child = e.child
      BY <1>1, <2>2, ChildStateIs DEF Bound
    <3>2. PICK f \in errors : f.child = e.child
      BY <3>1
    <3>3. f \in [child : Children, task : Tasks] /\ C!TaskChild[f.task] = f.child
      BY <1>1 DEF ChildrenTyped, Bound
    <3>4. f.task = e.task
      BY <2>2, <3>1, <3>2, <3>3 DEF Mine
    <3>5. f = e
      BY <3>1, <3>2, <3>3, <3>4
    <3>. QED
      BY <3>5
  <2>. QED
    BY <2>1, <2>2
<1>5. C!UntaggedOnlyAtTheEnd
  <2> SUFFICES ASSUME ~childEnded
               PROVE  /\ \A m \in ChildMessages : \A i \in DOMAIN children.emitted[m] :
                            children.emitted[m][i].task # None
                      /\ \A e \in children.errs : e.task # None
    BY DEF C!UntaggedOnlyAtTheEnd
  <2>1. ASSUME NEW m \in ChildMessages, NEW i \in DOMAIN children.emitted[m]
        PROVE  children.emitted[m][i].task # None
    <3>1. m \in children.allowed
      <4> SUFFICES ASSUME m \notin children.allowed PROVE FALSE
        OBVIOUS
      <4>1. children.emitted[m] = <<>> /\ DOMAIN <<>> = {}
        BY <1>1 DEF OutOrWaits
      <4>. QED
        BY <2>1, <4>1
    <3>2. children.owner[m] # None
      BY <1>1, <3>1 DEF OutOrWaits
    <3>. QED
      BY <1>2, <2>1, <3>2
  <2>2. \A e \in children.errs : e.task # None
    BY <1>1 DEF Bound
  <2>. QED
    BY <2>1, <2>2
<1>. QED
  BY <1>3, <1>4, <1>5 DEF ChildrenOwned, C!ChildrenOwned

\* What a child session says comes out once, in its order, and by the end of the
\* stream all of it that was not dropped for want of room; nothing waits for a
\* child whose Task call is known (childactivity.go, stream.go:550-585, 692-705).
THEOREM ChildrenComeWhole == C!ConstantsOK => (C!Spec => []ChildrenWhole)
<1> SUFFICES ASSUME C!ConstantsOK PROVE C!Spec => []ChildrenWhole
  OBVIOUS
<1>1. C!Init => ChildInv
  BY ChildInit
<1>2. ChildInv /\ [C!Next]_(C!vars) => ChildInv'
  BY ChildStep
<1>3. ChildInv => ChildrenWhole
  BY InvWhole
<1>. QED
  BY <1>1, <1>2, <1>3, PTL DEF C!Spec

\* And under one Task call, the one its child worked for when it began, unless a
\* call resumed the session of another; without one only from the flush at the
\* end (childactivity.go:8-9, 105-107, stream.go:580-585).
THEOREM ChildrenAreOwned == C!ConstantsOK => (C!Spec => []ChildrenOwned)
<1> SUFFICES ASSUME C!ConstantsOK PROVE C!Spec => []ChildrenOwned
  OBVIOUS
<1>1. C!Init => ChildInv
  BY ChildInit
<1>2. ChildInv /\ [C!Next]_(C!vars) => ChildInv'
  BY ChildStep
<1>3. ChildInv => ChildrenOwned
  BY InvOwned
<1>. QED
  BY <1>1, <1>2, <1>3, PTL DEF C!Spec

=============================================================================
