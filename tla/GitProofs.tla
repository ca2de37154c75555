------------------------------ MODULE GitProofs ------------------------------
(***************************************************************************)
(* Proofs about what the bridge does with git: the push command, the       *)
(* credential helper, and the identity and signing of commits, for any     *)
(* prompts, helpers, hosts, repositories and commands.  The three modules  *)
(* share no state; the first two are instances of Git, and what they need  *)
(* of their constants is a hypothesis of each theorem.                     *)
(***************************************************************************)
EXTENDS Git, SequenceTheorems, WellFoundedInduction, TLAPS

---------------------------------------------------------------------------
(* Push. *)

pushRun == <<process, stderr, expired, delayed>>

\* A set of numbers that is not empty has a least one.
Least(I) == CHOOSE i \in I : \A j \in I : i <= j
LEMMA LeastExists ==
    ASSUME NEW I \in SUBSET Nat, I # {}
    PROVE  Least(I) \in I
<1>1. \E i \in I : \A j \in I : ~(<<j, i>> \in OpToRel(<, Nat))
  BY NatLessThanWellFounded, WFMin
<1>2. PICK i \in I : \A j \in I : ~(j < i)
  BY <1>1 DEF OpToRel
<1>3. \A j \in I : i <= j
  BY <1>2
<1>. QED
  BY <1>3 DEF Least

\* Find returns a place of the manifest whose entry names the spec's repository.
LEMMA FoundFits ==
    ASSUME P!ConstantsOK, NEW s, P!Find(s) # 0
    PROVE  /\ P!Find(s) \in DOMAIN Manifest
           /\ Key[Manifest[P!Find(s)].owner] = Key[s.owner]
           /\ Key[Manifest[P!Find(s)].name] = Key[s.name]
<1> DEFINE I == {i \in 1..Len(Manifest) : Key[Manifest[i].owner] = Key[s.owner]
                                          /\ Key[Manifest[i].name] = Key[s.name]}
<1>1. Len(Manifest) \in Nat /\ DOMAIN Manifest = 1..Len(Manifest)
  BY DEF P!ConstantsOK
<1>2. P!Find(s) = IF I # {} THEN Least(I) ELSE 0
  BY DEF P!Find, P!SelectInSeq, P!Min, Least
<1>3. I # {} /\ I \in SUBSET Nat
  BY <1>1, <1>2
<1>4. Least(I) \in I
  BY <1>3, LeastExists
<1>. QED
  BY <1>1, <1>2, <1>3, <1>4

\* The first checkout of the workspace is there.
LEMMA RepoDirThere ==
    ASSUME P!ConstantsOK, P!FindRepoDir # None
    PROVE  P!FindRepoDir \in there
<1> DEFINE I == {i \in 1..Len(Clones) : Clones[i] \in there}
           first == IF I # {} THEN Least(I) ELSE 0
<1>1. Len(Clones) \in Nat
  BY DEF P!ConstantsOK
<1>2. P!FindRepoDir = IF RepoName \in there THEN RepoName ELSE IF first = 0 THEN None ELSE Clones[first]
  BY DEF P!FindRepoDir, P!SelectInSeq, P!Min, Least
<1>3. CASE RepoName \in there
  BY <1>2, <1>3
<1>4. CASE RepoName \notin there
  <2>1. first # 0 /\ P!FindRepoDir = Clones[first]
    BY <1>2, <1>4
  <2>2. I # {} /\ I \in SUBSET Nat
    BY <1>1, <2>1
  <2>3. Least(I) \in I
    BY <2>2, LeastExists
  <2>. QED
    BY <2>1, <2>2, <2>3
<1>. QED
  BY <1>3, <1>4

\* The checkout d is the one a spec asks for.
Asked(s, d) ==
    /\ s.present /\ (s.owner = Absent <=> s.name = Absent)
    /\ s.owner # Absent =>
         \E j \in DOMAIN Manifest : /\ Manifest[j].path = d
                                    /\ Key[Manifest[j].name] = Key[s.name]
                                    /\ Key[Manifest[j].owner] = Key[s.owner]

\* Where there is a checkout for a command, it is in the workspace, and the one asked for.
LEMMA CheckoutAsked ==
    ASSUME P!ConstantsOK, NEW s \in Specs, P!Checkout(s) # None
    PROVE  P!Checkout(s) \in there /\ Asked(s, P!Checkout(s))
<1>1. P!Valid(s) /\ s.present /\ (s.owner = Absent <=> s.name = Absent)
  BY DEF P!Checkout, P!Valid, P!ConstantsOK
<1>2. CASE ~P!Named(s)
  BY <1>1, <1>2, RepoDirThere DEF P!Checkout, P!Named, Asked
<1>3. CASE P!Named(s)
  <2>1. P!Find(s) # 0 /\ P!Checkout(s) = P!Here(Manifest[P!Find(s)].path)
    BY <1>1, <1>3 DEF P!Checkout
  <2>2. P!Checkout(s) = Manifest[P!Find(s)].path /\ P!Checkout(s) \in there
    BY <2>1 DEF P!Here
  <2>. QED
    BY <1>1, <2>1, <2>2, FoundFits DEF Asked
<1>. QED
  BY <1>2, <1>3

PushDirs == P!ToSet(Clones) \cup {None}
PushAnswers == [ok : BOOLEAN, took : PushDirs, spec : Specs, dir : PushDirs]
PushTyped ==
    /\ there \subseteq P!ToSet(Clones) /\ count \in Nat
    /\ place \in {"idle", "git", "waited", "answer"}
    /\ spec \in Specs /\ dir \in PushDirs /\ remote \in PushDirs
    /\ process \in {"none", "running", "ok", "failed"}
    /\ stderr \in BOOLEAN /\ expired \in {"no", "deadline", "shutdown"} /\ delayed \in BOOLEAN /\ error \in BOOLEAN
    /\ answers \in Seq(PushAnswers)

\* The command at work: its checkout is the one asked for, nothing else is pushed,
\* and what looks like a success so far is one.
PushAtWork ==
    /\ place # "idle" => remote \in {None, dir} /\ (dir # None => Asked(spec, dir))
    /\ place \in {"git", "waited"} => dir # None /\ process # "none"
    /\ place \in {"git", "waited"} /\ process = "ok" => remote # None
    /\ place = "waited" /\ ~error => process = "ok"
    /\ place = "answer" /\ ~error => remote # None

PushInv == PushTyped /\ PushAtWork /\ P!TypeOK /\ P!CompleteMeansPushed /\ P!OnlyTheNamed

LEMMA PushInit == ASSUME P!ConstantsOK, P!Init PROVE PushInv
<1>1. /\ there \in SUBSET P!ToSet(Clones) /\ count = 0 /\ place = "idle" /\ spec \in Specs
      /\ dir = None /\ process = "none" /\ remote = None /\ answers = <<>>
      /\ stderr = FALSE /\ expired = "no" /\ delayed = FALSE /\ error = FALSE
  BY DEF P!Init
<1>2. PushTyped
  <2>1. None \in PushDirs /\ <<>> \in Seq(PushAnswers)
    BY DEF PushDirs
  <2>. QED
    BY <1>1, <2>1 DEF PushTyped
<1>3. PushAtWork
  BY <1>1 DEF PushAtWork
<1>4. P!TypeOK /\ P!CompleteMeansPushed /\ P!OnlyTheNamed
  BY <1>1 DEF P!TypeOK, P!CompleteMeansPushed, P!OnlyTheNamed
<1>. QED
  BY <1>2, <1>3, <1>4 DEF PushInv

LEMMA PushStep == ASSUME P!ConstantsOK, PushInv, [P!Next]_(P!vars) PROVE PushInv'
<1> USE DEF PushInv, P!run
<1>1. ASSUME NEW s \in Specs, P!HandlePush(s) PROVE PushInv'
  <2>1. /\ dir' = P!Checkout(s) /\ spec' = s /\ remote' = None /\ count' = count + 1
        /\ error' = (dir' = None) /\ UNCHANGED <<there, answers>> /\ place = "idle"
    BY <1>1 DEF P!HandlePush
  <2>2. dir' # None => dir' \in there /\ Asked(s, dir')
    BY <2>1, CheckoutAsked
  <2>3. CASE dir' = None
    <3>1. place' = "answer" /\ UNCHANGED <<process, stderr, expired, delayed>> /\ error'
      BY <1>1, <2>1, <2>3 DEF P!HandlePush
    <3>. QED
      BY <2>1, <2>3, <3>1 DEF PushTyped, PushDirs, PushAtWork, P!TypeOK, P!CompleteMeansPushed, P!OnlyTheNamed
  <2>4. CASE dir' # None
    <3>1. place' = "git" /\ process' = "running" /\ stderr' = TRUE /\ expired' = "no" /\ delayed' = FALSE
      BY <1>1, <2>4 DEF P!HandlePush
    <3>2. PushTyped'
      <4>1. dir' \in PushDirs /\ remote' \in PushDirs
        BY <2>1, <2>2, <2>4 DEF PushTyped, PushDirs
      <4>2. error' = FALSE
        BY <2>1, <2>4
      <4>3. spec' \in Specs /\ count' \in Nat /\ UNCHANGED <<there, answers>>
        BY <2>1 DEF PushTyped
      <4>. QED
        BY <3>1, <4>1, <4>2, <4>3 DEF PushTyped
    <3>3. PushAtWork'
      BY <2>1, <2>2, <2>4, <3>1 DEF PushAtWork
    <3>4. P!TypeOK' /\ P!CompleteMeansPushed' /\ P!OnlyTheNamed'
      BY <2>1, <2>2, <2>4, <3>1 DEF PushTyped, P!TypeOK, P!CompleteMeansPushed, P!OnlyTheNamed
    <3>. QED
      BY <3>2, <3>3, <3>4
  <2>. QED
    BY <2>3, <2>4
<1>2. CASE P!RemoteTakes \/ P!GitEnds \/ P!StderrCloses \/ P!Deadline \/ P!WaitDelay
  <2>1. /\ UNCHANGED <<there, count, place, spec, dir, answers, error>>
        /\ place \in {"git", "waited"}
    BY <1>2 DEF P!RemoteTakes, P!GitEnds, P!StderrCloses, P!Deadline, P!WaitDelay
  <2>2. PushTyped'
    BY <1>2 DEF P!RemoteTakes, P!GitEnds, P!StderrCloses, P!Deadline, P!WaitDelay, PushTyped
  <2>3. PushAtWork'
    BY <1>2 DEF P!RemoteTakes, P!GitEnds, P!StderrCloses, P!Deadline, P!WaitDelay, PushTyped, PushAtWork
  <2>. QED
    BY <2>1, <2>2, <2>3 DEF P!TypeOK, P!CompleteMeansPushed, P!OnlyTheNamed
<1>3. CASE P!RunReturns \/ P!CheckDeadline
  <2>1. PushTyped'
    BY <1>3 DEF P!RunReturns, P!CheckDeadline, P!RunFails, PushTyped
  <2>2. ASSUME P!RunReturns PROVE PushAtWork'
    <3>1. /\ place = "git" /\ place' = "waited" /\ process # "running"
          /\ (~error' => process # "failed") /\ UNCHANGED <<dir, spec, process, remote>>
      BY <2>2 DEF P!RunReturns, P!RunFails
    <3>2. process \in {"ok", "failed"} \/ process = "none"
      BY <3>1 DEF PushTyped
    <3>3. ~error' => process = "ok"
      BY <3>1, <3>2 DEF PushAtWork
    <3>. QED
      BY <3>1, <3>3 DEF PushAtWork
  <2>3. ASSUME P!CheckDeadline PROVE PushAtWork'
    <3>1. /\ place = "waited" /\ place' = "answer"
          /\ (~error' => ~error) /\ UNCHANGED <<dir, spec, process, remote>>
      BY <2>3 DEF P!CheckDeadline
    <3>. QED
      BY <3>1 DEF PushAtWork
  <2>. QED
    BY <1>3, <2>1, <2>2, <2>3 DEF P!RunReturns, P!CheckDeadline, P!TypeOK, P!CompleteMeansPushed, P!OnlyTheNamed
<1>4. CASE P!Answer
  <2> DEFINE a == [ok |-> ~error, took |-> remote, spec |-> spec, dir |-> dir]
  <2>1. /\ answers' = Append(answers, a) /\ place' = "idle" /\ process' = "none" /\ place = "answer"
        /\ UNCHANGED <<there, count, spec, dir, stderr, expired, delayed, error, remote>>
    BY <1>4 DEF P!Answer
  <2>2. a \in PushAnswers
    BY DEF PushTyped, PushAnswers
  <2>3. a.ok = ~error /\ a.took = remote /\ a.spec = spec
    OBVIOUS
  <2> HIDE DEF a
  <2>4. /\ answers' \in Seq(PushAnswers) /\ Len(answers') = Len(answers) + 1 /\ Len(answers) \in Nat
        /\ DOMAIN answers' = 1..(Len(answers) + 1) /\ DOMAIN answers = 1..Len(answers)
        /\ \A i \in 1..Len(answers) : answers'[i] = answers[i]
        /\ answers'[Len(answers) + 1] = a
    BY <2>1, <2>2, AppendProperties DEF PushTyped
  <2>5. PushTyped' /\ PushAtWork' /\ P!TypeOK'
    BY <2>1, <2>4 DEF PushTyped, PushAtWork, P!TypeOK
  <2>6. P!CompleteMeansPushed'
    <3>1. a.ok => a.took # None
      BY <2>1, <2>3 DEF PushAtWork
    <3>. QED
      BY <2>4, <3>1 DEF P!CompleteMeansPushed
  <2>7. P!OnlyTheNamed'
    <3>1. remote # None => Asked(spec, remote)
      BY <2>1 DEF PushAtWork
    <3>. QED
      BY <2>3, <2>4, <3>1 DEF Asked, P!OnlyTheNamed
  <2>. QED
    BY <2>5, <2>6, <2>7
<1>5. CASE P!Workspace \/ UNCHANGED P!vars
  <2>1. /\ UNCHANGED <<count, place, spec, dir, process, stderr, expired, delayed, error, remote, answers>>
        /\ (there' = there \/ place = "idle") /\ there' \subseteq P!ToSet(Clones)
    BY <1>5 DEF P!Workspace, P!vars, PushTyped
  <2>. QED
    BY <2>1 DEF PushTyped, PushAtWork, P!TypeOK, P!CompleteMeansPushed, P!OnlyTheNamed
<1>. QED
  BY <1>1, <1>2, <1>3, <1>4, <1>5 DEF P!Next, P!Finishing

\* push_complete is sent only for a branch the remote took, a spec that names a
\* repository is pushed from that member's checkout or not at all, and each command
\* has one answer, whatever git, its deadline and the agent do.
THEOREM PushIsAsAsked == P!ConstantsOK => (P!Spec => []PushedAsAsked)
<1> SUFFICES ASSUME P!ConstantsOK PROVE P!Spec => []PushedAsAsked
  OBVIOUS
<1>1. P!Init => PushInv
  BY PushInit
<1>2. PushInv /\ [P!Next]_(P!vars) => PushInv'
  BY PushStep
<1>3. PushInv => PushedAsAsked
  BY DEF PushInv, PushedAsAsked, P!PushedAsAsked
<1>. QED
  BY <1>1, <1>2, <1>3, PTL DEF P!Spec

---------------------------------------------------------------------------
(* The credential helper. *)

AnyCreds == [host : Hosts, brokered : 1..MaxTime, expires : Nat]
Stored == [Hosts -> AnyCreds \cup {None}]
Helpers == [at : {"broker", "write", "answer"}, host : Hosts, cache : Stored,
            creds : AnyCreds \cup {None}, reused : Nat, alone : BOOLEAN]

\* Every credential of c is of its host, and no newer than the last one brokered.
NoNewer(c) ==
    \A h \in Hosts : c[h] # None => c[h].host = h /\ last[h] # None /\ c[h].brokered <= last[h].brokered

CacheTyped ==
    /\ now \in 1..MaxTime /\ file \in Stored /\ last \in Stored /\ troubled \subseteq Hosts
    /\ DOMAIN helper = Procs
    /\ \A p \in Procs : helper[p] # K!Idle =>
         /\ helper[p] \in Helpers
         /\ helper[p].at # "broker" => helper[p].creds \in AnyCreds /\ helper[p].creds.host = helper[p].host
         /\ \/ helper[p].reused = 0
            \/ helper[p].at = "answer" /\ helper[p].reused + Buffer < helper[p].creds.expires

\* What a helper read, and what it was given, is no newer than the last brokered.
CacheRight ==
    /\ NoNewer(file)
    /\ \A h \in Hosts : last[h] # None => last[h].brokered <= now
    /\ \A p \in Procs : K!Busy(p) => NoNewer(helper[p].cache)
    /\ \A p \in Procs : helper[p].at = "write" =>
         /\ last[helper[p].host] # None
         /\ helper[p].creds.brokered <= last[helper[p].host].brokered

\* A helper that is alone has the file as it is, asks for a host the file has
\* nothing fresh for, and has the newest credential when it writes.
Alone ==
    \A p \in Procs : K!Busy(p) /\ helper[p].alone =>
        /\ \A q \in Procs \ {p} : ~K!Busy(q)
        /\ helper[p].cache = file
        /\ helper[p].at = "broker" =>
             file[helper[p].host] = None \/ K!CredExpired(file[helper[p].host])
        /\ helper[p].at = "write" => last[helper[p].host] = helper[p].creds

CacheInv == CacheTyped /\ CacheRight /\ Alone /\ K!CachedForTheNext

LEMMA CacheBasics ==
    ASSUME K!ConstantsOK
    PROVE  /\ None \notin AnyCreds /\ K!Empty \in Stored
           /\ \A h \in Hosts : K!Empty[h] = None
           /\ K!Idle.at = "idle" /\ Buffer \in Nat /\ MaxTime \in Nat \ {0}
           /\ Lifetimes \subseteq Nat
<1>1. 1..MaxTime \subseteq Nat
  BY DEF K!ConstantsOK
<1>2. AnyCreds \subseteq [host : Hosts, brokered : Nat, expires : Nat]
  BY <1>1 DEF AnyCreds
<1>. QED
  BY <1>2 DEF K!ConstantsOK, K!Empty, K!Idle, Stored

\* A helper at work is what CacheTyped says of it.
LEMMA Working ==
    ASSUME K!ConstantsOK, CacheTyped, NEW p \in Procs, helper[p].at \in {"broker", "write", "answer"}
    PROVE  helper[p] # K!Idle /\ helper[p] \in Helpers
<1>1. helper[p] # K!Idle
  BY CacheBasics
<1>. QED
  BY <1>1 DEF CacheTyped

LEMMA CacheInit == ASSUME K!ConstantsOK, K!Init PROVE CacheInv
<1>1. CacheTyped
  BY CacheBasics DEF K!Init, CacheTyped
<1>2. CacheRight /\ Alone
  BY CacheBasics DEF K!Init, CacheRight, NoNewer, Alone, K!Busy
<1>3. K!CachedForTheNext
  BY DEF K!Init, K!CachedForTheNext
<1>. QED
  BY <1>1, <1>2, <1>3 DEF CacheInv

\* A helper starts: it finds what it can use, or it does not.
LEMMA CacheStart ==
    ASSUME K!ConstantsOK, CacheInv, NEW p \in Procs, NEW h \in Hosts, K!Start(p, h)
    PROVE  CacheInv'
<1>1. PICK read \in {file, K!Empty} :
        LET hit == read[h] # None /\ ~K!CredExpired(read[h])
            new == [at |-> IF hit THEN "answer" ELSE "broker", host |-> h,
                    cache |-> IF hit THEN K!Empty ELSE read, creds |-> IF hit THEN read[h] ELSE None,
                    reused |-> IF hit THEN now ELSE 0,
                    alone |-> ~hit /\ read = file /\ \A q \in Procs : ~K!Busy(q)]
        IN helper' = [q \in Procs |-> IF q = p THEN new
                                      ELSE IF hit THEN helper[q] ELSE [helper[q] EXCEPT !.alone = FALSE]]
  BY DEF K!Start
<1> DEFINE hit == read[h] # None /\ ~K!CredExpired(read[h])
           n == helper'[p]
<1>2. helper[p] = K!Idle /\ UNCHANGED <<now, file, last, troubled>>
  BY DEF K!Start, K!past
<1>3. read \in Stored /\ NoNewer(read) /\ now \in Nat /\ Buffer \in Nat
  BY CacheBasics DEF CacheInv, CacheTyped, CacheRight, NoNewer
<1>4. CASE hit
  <2>1. /\ DOMAIN helper' = Procs /\ \A q \in Procs \ {p} : helper'[q] = helper[q]
        /\ n = [at |-> "answer", host |-> h, cache |-> K!Empty, creds |-> read[h],
                reused |-> now, alone |-> FALSE]
    BY <1>1, <1>4
  <2>2. read[h] \in AnyCreds /\ read[h].host = h /\ now + Buffer < read[h].expires
    <3>1. read[h] \in AnyCreds /\ read[h].host = h
      BY <1>3, <1>4 DEF Stored, NoNewer
    <3>. QED
      BY <1>3, <1>4, <3>1 DEF K!CredExpired, AnyCreds
  <2>3. /\ n.at = "answer" /\ n.host = h /\ n.creds = read[h] /\ n.reused = now /\ n # K!Idle
        /\ n \in Helpers
    BY <1>3, <2>1, <2>2, CacheBasics DEF Helpers
  <2> HIDE DEF n, hit
  <2>4. CacheTyped'
    <3>1. ASSUME NEW q \in Procs, helper'[q] # K!Idle
          PROVE  /\ helper'[q] \in Helpers
                 /\ helper'[q].at # "broker" =>
                      helper'[q].creds \in AnyCreds /\ helper'[q].creds.host = helper'[q].host
                 /\ \/ helper'[q].reused = 0
                    \/ helper'[q].at = "answer" /\ helper'[q].reused + Buffer < helper'[q].creds.expires
      <4>1. CASE q = p
        BY <2>2, <2>3, <4>1 DEF n
      <4>2. CASE q # p
        BY <2>1, <3>1, <4>2 DEF CacheInv, CacheTyped
      <4>. QED
        BY <4>1, <4>2
    <3>. QED
      BY <1>2, <2>1, <3>1 DEF CacheInv, CacheTyped, Stored, AnyCreds, Helpers, K!Idle, K!Empty
  <2>5. ~K!Busy(p) /\ ~K!Busy(p)' /\ \A q \in Procs \ {p} : (K!Busy(q)' <=> K!Busy(q))
    BY <1>2, <2>1, <2>3, CacheBasics DEF K!Busy, n
  <2>6. CacheRight'
    BY <1>2, <2>1, <2>3, <2>5 DEF CacheInv, CacheRight, NoNewer, n
  <2>7. Alone'
    BY <1>2, <2>1, <2>5 DEF CacheInv, Alone, K!CredExpired
  <2>8. K!CachedForTheNext'
    BY <1>2, <2>1, CacheBasics DEF CacheInv, K!CachedForTheNext
  <2>. QED
    BY <2>4, <2>6, <2>7, <2>8 DEF CacheInv
<1>5. CASE ~hit
  <2>1. /\ DOMAIN helper' = Procs
        /\ \A q \in Procs \ {p} : helper'[q] = [helper[q] EXCEPT !.alone = FALSE]
        /\ n = [at |-> "broker", host |-> h, cache |-> read, creds |-> None, reused |-> 0,
                alone |-> read = file /\ \A q \in Procs : ~K!Busy(q)]
    BY <1>1, <1>5
  <2>2. /\ n.at = "broker" /\ n.host = h /\ n.cache = read /\ n # K!Idle /\ n \in Helpers /\ n.reused = 0
        /\ n.alone => read = file /\ \A q \in Procs : ~K!Busy(q)
    <3>1. CASE read = file /\ \A q \in Procs : ~K!Busy(q)
      <4>1. n = [at |-> "broker", host |-> h, cache |-> read, creds |-> None, reused |-> 0, alone |-> TRUE]
        BY <2>1, <3>1
      <4>. QED
        BY <1>3, <3>1, <4>1, CacheBasics DEF Helpers
    <3>2. CASE ~(read = file /\ \A q \in Procs : ~K!Busy(q))
      <4>1. n = [at |-> "broker", host |-> h, cache |-> read, creds |-> None, reused |-> 0, alone |-> FALSE]
        BY <2>1, <3>2
      <4>. QED
        BY <1>3, <4>1, CacheBasics DEF Helpers
    <3>. QED
      BY <3>1, <3>2
  <2>3. read[h] = None \/ K!CredExpired(read[h])
    BY <1>5
  <2> HIDE DEF n, hit
  <2>4. ASSUME NEW q \in Procs \ {p}
        PROVE  /\ helper[q] = K!Idle => helper'[q] = K!Idle
               /\ helper[q] # K!Idle =>
                    /\ helper'[q] \in Helpers /\ helper'[q] # K!Idle /\ ~helper'[q].alone
                    /\ helper'[q].at = helper[q].at /\ helper'[q].host = helper[q].host
                    /\ helper'[q].cache = helper[q].cache /\ helper'[q].creds = helper[q].creds
                    /\ helper'[q].reused = helper[q].reused
    <3>1. CASE helper[q] = K!Idle
      BY <2>1, <3>1 DEF K!Idle
    <3>2. CASE helper[q] # K!Idle
      <4>1. helper[q] \in Helpers
        BY <3>2 DEF CacheInv, CacheTyped
      <4>2. helper'[q] = [helper[q] EXCEPT !.alone = FALSE]
        BY <2>1
      <4>3. /\ helper'[q] \in Helpers /\ helper'[q].alone = FALSE
            /\ helper'[q].at = helper[q].at /\ helper'[q].host = helper[q].host
            /\ helper'[q].cache = helper[q].cache /\ helper'[q].creds = helper[q].creds
            /\ helper'[q].reused = helper[q].reused
        BY <4>1, <4>2 DEF Helpers
      <4>4. helper'[q].at # "idle"
        BY <4>3 DEF Helpers
      <4>. QED
        BY <3>2, <4>3, <4>4, CacheBasics
    <3>. QED
      BY <3>1, <3>2
  <2>5. CacheTyped'
    <3>1. ASSUME NEW q \in Procs, helper'[q] # K!Idle
          PROVE  /\ helper'[q] \in Helpers
                 /\ helper'[q].at # "broker" =>
                      helper'[q].creds \in AnyCreds /\ helper'[q].creds.host = helper'[q].host
                 /\ \/ helper'[q].reused = 0
                    \/ helper'[q].at = "answer" /\ helper'[q].reused + Buffer < helper'[q].creds.expires
      BY <2>2, <2>4, <3>1 DEF CacheInv, CacheTyped, n
    <3>. QED
      BY <1>2, <2>1, <3>1 DEF CacheInv, CacheTyped, Stored, AnyCreds, Helpers, K!Idle, K!Empty
  <2>6. \A q \in Procs \ {p} : /\ helper'[q].at = helper[q].at
                               /\ (K!Busy(q)' <=> K!Busy(q))
                               /\ K!Busy(q) => helper[q] # K!Idle
    BY <2>4, CacheBasics DEF K!Busy
  <2>7. CacheRight'
    <3>1. ASSUME NEW q \in Procs, K!Busy(q)' PROVE NoNewer(helper[q].cache)'
      <4>0. \A g \in Hosts : read[g] # None =>
               read[g].host = g /\ last'[g] # None /\ read[g].brokered <= last'[g].brokered
        BY <1>2, <1>3 DEF NoNewer
      <4>1. CASE q = p
        BY <2>2, <4>0, <4>1 DEF NoNewer, n
      <4>2. CASE q # p
        <5>1. K!Busy(q)
          BY <2>6, <3>1, <4>2 DEF K!Busy
        <5>2. helper'[q].cache = helper[q].cache
          BY <2>4, <2>6, <4>2, <5>1
        <5>3. NoNewer(helper[q].cache)
          BY <5>1 DEF CacheInv, CacheRight
        <5>. QED
          BY <1>2, <5>2, <5>3 DEF NoNewer
      <4>. QED
        BY <4>1, <4>2
    <3>2. ASSUME NEW q \in Procs, helper'[q].at = "write"
          PROVE  /\ q # p /\ helper[q].at = "write" /\ helper'[q].host = helper[q].host
                 /\ helper'[q].creds = helper[q].creds
      <4>1. q # p
        BY <2>2, <3>2 DEF n
      <4>. QED
        BY <2>4, <2>6, <3>2, <4>1, CacheBasics
    <3>. QED
      BY <1>2, <3>1, <3>2 DEF CacheInv, CacheRight, NoNewer
  <2>8. Alone'
    <3>1. ASSUME NEW q \in Procs \ {p}, K!Busy(q)' PROVE ~helper'[q].alone /\ ~n.alone
      <4>1. K!Busy(q) /\ helper[q] # K!Idle
        BY <2>6, <3>1 DEF K!Busy
      <4>2. ~helper'[q].alone
        BY <2>4, <4>1
      <4>3. ~n.alone
        BY <2>2, <4>1
      <4>. QED
        BY <4>2, <4>3
    <3>2. n.alone => \A q \in Procs \ {p} : ~K!Busy(q)'
      BY <3>1
    <3>3. \A c : K!CredExpired(c)' <=> K!CredExpired(c)
      BY <1>2 DEF K!CredExpired
    <3>. QED
      BY <1>2, <2>2, <2>3, <3>1, <3>2, <3>3 DEF Alone, n, K!CredExpired
  <2>9. K!CachedForTheNext'
    <3>1. \A q \in Procs : helper[q].at = "write" =>
            q # p /\ helper'[q].at = "write" /\ helper'[q].host = helper[q].host
      BY <1>2, <2>4, <2>6, CacheBasics
    <3>. QED
      BY <1>2, <3>1 DEF CacheInv, K!CachedForTheNext
  <2>. QED
    BY <2>5, <2>7, <2>8, <2>9 DEF CacheInv
<1>. QED
  BY <1>4, <1>5

\* The control plane answers, or does not.
LEMMA CacheBroker ==
    ASSUME K!ConstantsOK, CacheInv, NEW p \in Procs, K!Broker(p)
    PROVE  CacheInv'
<1>1. /\ helper[p].at = "broker" /\ helper[p] # K!Idle /\ helper[p] \in Helpers /\ K!Busy(p)
      /\ UNCHANGED <<now, file, troubled>>
      /\ DOMAIN helper = Procs /\ file \in Stored /\ last \in Stored
  BY Working DEF CacheInv, CacheTyped, K!Broker, K!Busy
<1>2. helper[p].host \in Hosts /\ helper[p].cache \in Stored
  BY <1>1 DEF Helpers
<1>3. CASE helper' = [helper EXCEPT ![p] = K!Idle] /\ UNCHANGED last
  <2>1. helper'[p] = K!Idle /\ DOMAIN helper' = Procs /\ \A q \in Procs \ {p} : helper'[q] = helper[q]
    BY <1>1, <1>3
  <2>2. CacheTyped'
    BY <1>1, <1>3, <2>1 DEF CacheInv, CacheTyped, Stored, AnyCreds, Helpers, K!Idle, K!Empty
  <2>3. ~K!Busy(p)' /\ \A q \in Procs \ {p} : K!Busy(q)' <=> K!Busy(q)
    BY <2>1, CacheBasics DEF K!Busy
  <2>4. CacheRight'
    BY <1>1, <1>3, <2>1, <2>3, CacheBasics DEF CacheInv, CacheRight, NoNewer
  <2>5. Alone'
    BY <1>1, <1>3, <2>1, <2>3 DEF CacheInv, Alone, K!CredExpired
  <2>6. K!CachedForTheNext'
    BY <1>1, <1>3, <2>1 DEF CacheInv, K!CachedForTheNext
  <2>. QED
    BY <2>2, <2>4, <2>5, <2>6 DEF CacheInv
<1>4. ASSUME NEW t \in Lifetimes, NEW c,
             c = [host |-> helper[p].host, brokered |-> now, expires |-> IF t = 0 THEN 0 ELSE now + t],
             helper' = [helper EXCEPT ![p].creds = c, ![p].at = "write"],
             last' = [last EXCEPT ![helper[p].host] = c]
      PROVE  CacheInv'
  <2> DEFINE n == helper'[p]
             host == helper[p].host
  <2>1. c \in AnyCreds /\ c.brokered = now /\ c.host = host /\ now \in Nat /\ c # None
    BY <1>2, <1>4, CacheBasics DEF CacheInv, CacheTyped, AnyCreds
  <2>2. /\ n.at = "write" /\ n.host = host /\ n.cache = helper[p].cache /\ n.creds = c /\ n # K!Idle
        /\ n \in Helpers /\ n.alone = helper[p].alone /\ n.reused = 0
    <3>0. helper[p].reused = 0
      BY <1>1 DEF CacheInv, CacheTyped
    <3>1. n = [helper[p] EXCEPT !.creds = c, !.at = "write"]
      BY <1>1, <1>4
    <3>2. /\ n.at = "write" /\ n.host = host /\ n.cache = helper[p].cache /\ n.creds = c
          /\ n \in Helpers /\ n.alone = helper[p].alone /\ n.reused = 0
      BY <1>1, <2>1, <3>0, <3>1 DEF Helpers
    <3>. QED
      BY <3>2, CacheBasics
  <2>3. DOMAIN helper' = Procs /\ \A q \in Procs \ {p} : helper'[q] = helper[q]
    BY <1>1, <1>4
  <2>4. host \in Hosts /\ last'[host] = c /\ last' \in Stored /\ \A h \in Hosts \ {host} : last'[h] = last[h]
    BY <1>1, <1>2, <1>4, <2>1 DEF Stored
  <2> HIDE DEF n, host
  <2>5. CacheTyped'
    <3>1. ASSUME NEW q \in Procs, helper'[q] # K!Idle
          PROVE  /\ helper'[q] \in Helpers
                 /\ helper'[q].at # "broker" =>
                      helper'[q].creds \in AnyCreds /\ helper'[q].creds.host = helper'[q].host
                 /\ \/ helper'[q].reused = 0
                    \/ helper'[q].at = "answer" /\ helper'[q].reused + Buffer < helper'[q].creds.expires
      BY <2>1, <2>2, <2>3, <3>1 DEF CacheInv, CacheTyped, n
    <3>. QED
      BY <1>1, <2>3, <2>4, <3>1 DEF CacheInv, CacheTyped, Stored, AnyCreds, Helpers, K!Idle, K!Empty
  <2>6. ASSUME NEW x \in Stored, NoNewer(x)
        PROVE  \A h \in Hosts : x[h] # None =>
                 x[h].host = h /\ last'[h] # None /\ x[h].brokered <= last'[h].brokered
    <3> SUFFICES ASSUME NEW h \in Hosts, x[h] # None
                 PROVE  x[h].host = h /\ last'[h] # None /\ x[h].brokered <= last'[h].brokered
      OBVIOUS
    <3>1. x[h].host = h /\ last[h] # None /\ x[h].brokered <= last[h].brokered /\ last[h].brokered <= now
      BY <2>6 DEF NoNewer, CacheInv, CacheRight
    <3>2. x[h].brokered \in Nat /\ last[h].brokered \in Nat
      BY <1>1, <3>1 DEF Stored, AnyCreds
    <3>. QED
      BY <2>1, <2>4, <3>1, <3>2
  <2>0. K!Busy(p)' /\ \A q \in Procs \ {p} : K!Busy(q)' <=> K!Busy(q)
    BY <2>2, <2>3 DEF K!Busy, n
  <2>7. CacheRight'
    <3>1. NoNewer(file)'
      BY <1>1, <2>6 DEF CacheInv, CacheRight, NoNewer
    <3>2. \A h \in Hosts : last'[h] # None => last'[h].brokered <= now'
      BY <1>1, <2>1, <2>4 DEF CacheInv, CacheRight
    <3>3. ASSUME NEW q \in Procs, K!Busy(q)' PROVE NoNewer(helper[q].cache)'
      <4>1. K!Busy(q) /\ helper'[q].cache = helper[q].cache
        BY <1>1, <2>0, <2>2, <2>3, <3>3 DEF n
      <4>2. helper[q].cache \in Stored /\ NoNewer(helper[q].cache)
        <5>1. helper[q] \in Helpers
          BY <4>1, Working DEF CacheInv, K!Busy
        <5>. QED
          BY <4>1, <5>1 DEF CacheInv, CacheRight, Helpers
      <4>3. \A h \in Hosts : helper[q].cache[h] # None =>
               /\ helper[q].cache[h].host = h /\ last'[h] # None
               /\ helper[q].cache[h].brokered <= last'[h].brokered
        BY <2>6, <4>2
      <4>. QED
        BY <4>1, <4>3 DEF NoNewer
    <3>4. ASSUME NEW q \in Procs, helper'[q].at = "write"
          PROVE  /\ last'[helper'[q].host] # None
                 /\ helper'[q].creds.brokered <= last'[helper'[q].host].brokered
      <4>1. CASE q = p
        BY <2>1, <2>2, <2>4, <4>1 DEF n
      <4>2. CASE q # p
        <5>1. helper[q].at = "write" /\ helper'[q] = helper[q]
          BY <2>3, <3>4, <4>2
        <5>2. helper[q].host \in Hosts /\ helper[q].creds \in AnyCreds
          BY <5>1, Working DEF CacheInv, CacheTyped, Helpers
        <5>3. /\ last[helper[q].host] # None
              /\ helper[q].creds.brokered <= last[helper[q].host].brokered
              /\ last[helper[q].host].brokered <= now
          BY <5>1, <5>2 DEF CacheInv, CacheRight
        <5>4. last[helper[q].host].brokered \in Nat /\ helper[q].creds.brokered \in Nat
          BY <1>1, <5>2, <5>3 DEF Stored, AnyCreds
        <5>. QED
          BY <2>1, <2>4, <5>1, <5>2, <5>3, <5>4
      <4>. QED
        BY <4>1, <4>2
    <3>. QED
      BY <3>1, <3>2, <3>3, <3>4 DEF CacheRight
  <2>8. Alone'
    <3> SUFFICES ASSUME NEW q \in Procs, K!Busy(q)', helper'[q].alone
                 PROVE  /\ \A r \in Procs \ {q} : ~K!Busy(r)'
                        /\ helper'[q].cache = file'
                        /\ helper'[q].at = "broker" =>
                             file'[helper'[q].host] = None \/ K!CredExpired(file[helper[q].host])'
                        /\ helper'[q].at = "write" => last'[helper'[q].host] = helper'[q].creds
      BY DEF Alone
    <3>1. K!Busy(q) /\ helper[q].alone
      BY <1>1, <2>0, <2>2, <2>3 DEF n
    <3>2. (\A r \in Procs \ {q} : ~K!Busy(r)) /\ helper[q].cache = file
      BY <3>1 DEF CacheInv, Alone
    <3>3. q = p
      BY <1>1, <3>2
    <3>. QED
      BY <1>1, <2>0, <2>2, <2>4, <3>2, <3>3 DEF n
  <2>9. K!CachedForTheNext'
    <3>1. \A q \in Procs : helper[q].at = "write" =>
            helper'[q].at = "write" /\ helper'[q].host = helper[q].host
      BY <1>1, <2>3
    <3>2. helper'[p].at = "write" /\ helper'[p].host = host
      BY <2>2 DEF n
    <3>. QED
      BY <1>1, <2>4, <3>1, <3>2 DEF CacheInv, K!CachedForTheNext
  <2>. QED
    BY <2>5, <2>7, <2>8, <2>9 DEF CacheInv
<1>. QED
  BY <1>3, <1>4 DEF K!Broker

\* A helper that is alone has nothing fresh to use.
LEMMA CacheReused ==
    ASSUME K!ConstantsOK, CacheInv, NEW p \in Procs, helper[p].at = "broker", helper[p].alone,
           helper[p].host \notin troubled, last[helper[p].host] # None
    PROVE  last[helper[p].host].expires = 0 \/ last[helper[p].host].expires <= now + Buffer
<1>1. helper[p].host \in Hosts /\ K!Busy(p)
  BY Working DEF CacheInv, Helpers, K!Busy
<1>2. \A q \in Procs : helper[q].at # "write"
  BY <1>1 DEF CacheInv, Alone, K!Busy
<1>3. file[helper[p].host] = last[helper[p].host]
  BY <1>1, <1>2 DEF CacheInv, K!CachedForTheNext
<1>4. K!CredExpired(last[helper[p].host])
  BY <1>1, <1>3 DEF CacheInv, Alone
<1>5. last[helper[p].host].expires \in Nat /\ now \in Nat /\ Buffer \in Nat
  BY <1>1, CacheBasics DEF CacheInv, CacheTyped, Stored, AnyCreds
<1>. QED
  BY <1>4, <1>5 DEF K!CredExpired

\* The file is replaced, or writing it fails.
LEMMA CacheWrite ==
    ASSUME K!ConstantsOK, CacheInv, NEW p \in Procs, K!Write(p)
    PROVE  CacheInv'
<1>1. /\ helper[p].at = "write" /\ helper[p] # K!Idle /\ helper[p] \in Helpers /\ K!Busy(p)
      /\ helper' = [helper EXCEPT ![p].at = "answer", ![p].cache = K!Empty, ![p].alone = FALSE]
      /\ UNCHANGED <<now, last>>
      /\ DOMAIN helper = Procs /\ file \in Stored /\ last \in Stored /\ troubled \subseteq Hosts
      /\ helper[p].creds \in AnyCreds /\ helper[p].creds.host = helper[p].host
  BY Working DEF CacheInv, CacheTyped, K!Write, K!Busy
<1> DEFINE n == helper'[p]
           host == helper[p].host
<1>2. host \in Hosts /\ helper[p].cache \in Stored
  BY <1>1 DEF Helpers
<1>3. /\ n.at = "answer" /\ n.host = host /\ n.creds = helper[p].creds /\ n # K!Idle /\ n \in Helpers
      /\ n.reused = helper[p].reused
      /\ DOMAIN helper' = Procs /\ \A q \in Procs \ {p} : helper'[q] = helper[q]
  <2>1. n = [helper[p] EXCEPT !.at = "answer", !.cache = K!Empty, !.alone = FALSE]
    BY <1>1
  <2>2. /\ n.at = "answer" /\ n.host = host /\ n.creds = helper[p].creds /\ n \in Helpers
        /\ n.reused = helper[p].reused
    BY <1>1, <2>1, CacheBasics DEF Helpers
  <2>. QED
    BY <1>1, <2>2, CacheBasics
<1>4. \/ /\ file' = [helper[p].cache EXCEPT ![host] = helper[p].creds]
         /\ troubled' = IF helper[p].alone THEN troubled \ {host} ELSE Hosts
      \/ UNCHANGED file /\ troubled' = troubled \cup {host}
  BY DEF K!Write, K!Updated
<1> HIDE DEF n, host
<1>5. file' \in Stored /\ troubled' \subseteq Hosts /\ NoNewer(file')
  <2>1. NoNewer(file) /\ NoNewer(helper[p].cache) /\ last[host] # None /\ helper[p].creds.brokered <= last[host].brokered
    BY <1>1 DEF CacheInv, CacheRight, host
  <2>2. helper[p].creds.host = host
    BY <1>1 DEF host
  <2>. QED
    BY <1>1, <1>2, <1>4, <2>1, <2>2 DEF Stored, NoNewer
<1>0. ~K!Busy(p)' /\ \A q \in Procs \ {p} : K!Busy(q)' <=> K!Busy(q)
  BY <1>3 DEF K!Busy, n
<1>6. CacheTyped'
  <2>1. ASSUME NEW q \in Procs, helper'[q] # K!Idle
        PROVE  /\ helper'[q] \in Helpers
               /\ helper'[q].at # "broker" =>
                    helper'[q].creds \in AnyCreds /\ helper'[q].creds.host = helper'[q].host
               /\ \/ helper'[q].reused = 0
                  \/ helper'[q].at = "answer" /\ helper'[q].reused + Buffer < helper'[q].creds.expires
    <3>1. CASE q = p
      BY <1>1, <1>3, <3>1, Working DEF CacheInv, CacheTyped, n, host
    <3>2. CASE q # p
      BY <1>3, <2>1, <3>2 DEF CacheInv, CacheTyped
    <3>. QED
      BY <3>1, <3>2
  <2>. QED
    BY <1>1, <1>3, <1>5, <2>1 DEF CacheInv, CacheTyped, Stored, AnyCreds, Helpers, K!Idle, K!Empty
<1>7. CacheRight'
  BY <1>0, <1>1, <1>3, <1>5 DEF CacheInv, CacheRight, NoNewer, n
<1>8. Alone'
  <2>1. \A q \in Procs : K!Busy(q)' => q # p /\ ~helper'[q].alone
    BY <1>0, <1>1, <1>3 DEF CacheInv, Alone
  <2>. QED
    BY <2>1 DEF Alone
<1>9. K!CachedForTheNext'
  <2> SUFFICES ASSUME NEW h \in Hosts \ troubled',
                      \A q \in Procs : helper'[q].at = "write" => helper'[q].host # h
               PROVE  file'[h] = last'[h]
    BY DEF K!CachedForTheNext
  <2>1. \A q \in Procs \ {p} : helper[q].at = "write" => helper[q].host # h
    BY <1>3
  <2>2. h # host /\ h \notin troubled => file[h] = last[h]
    BY <2>1 DEF CacheInv, K!CachedForTheNext, host
  <2>3. CASE helper[p].alone /\ file' = [helper[p].cache EXCEPT ![host] = helper[p].creds] /\ troubled' = troubled \ {host}
    <3>1. helper[p].cache = file /\ last[host] = helper[p].creds
      BY <1>1, <2>3 DEF CacheInv, Alone, host
    <3>. QED
      BY <1>1, <1>2, <2>2, <2>3, <3>1 DEF Stored
  <2>4. CASE UNCHANGED file /\ troubled' = troubled \cup {host}
    BY <1>1, <2>2, <2>4
  <2>. QED
    BY <1>4, <2>3, <2>4
<1>. QED
  BY <1>6, <1>7, <1>8, <1>9 DEF CacheInv

\* The credential is handed to git.
LEMMA CacheAnswer ==
    ASSUME K!ConstantsOK, CacheInv, NEW p \in Procs, K!Answer(p)
    PROVE  CacheInv'
<1>1. /\ helper[p].at = "answer" /\ helper' = [helper EXCEPT ![p] = K!Idle]
      /\ UNCHANGED <<now, file, last, troubled>> /\ DOMAIN helper = Procs
  BY DEF K!Answer, K!past, CacheInv, CacheTyped
<1>2. helper'[p] = K!Idle /\ DOMAIN helper' = Procs /\ \A q \in Procs \ {p} : helper'[q] = helper[q]
  BY <1>1
<1>3. ~K!Busy(p)' /\ \A q \in Procs \ {p} : K!Busy(q)' <=> K!Busy(q)
  BY <1>2, CacheBasics DEF K!Busy
<1>4. CacheTyped'
  BY <1>1, <1>2 DEF CacheInv, CacheTyped, Stored, AnyCreds, Helpers, K!Idle, K!Empty
<1>5. CacheRight'
  BY <1>1, <1>2, <1>3, CacheBasics DEF CacheInv, CacheRight, NoNewer
<1>6. Alone'
  BY <1>1, <1>2, <1>3 DEF CacheInv, Alone, K!CredExpired
<1>7. K!CachedForTheNext'
  BY <1>1, <1>2 DEF CacheInv, K!CachedForTheNext
<1>. QED
  BY <1>4, <1>5, <1>6, <1>7 DEF CacheInv

LEMMA CacheTick ==
    ASSUME K!ConstantsOK, CacheInv, K!Tick \/ UNCHANGED K!vars
    PROVE  CacheInv'
<1>1. /\ UNCHANGED <<file, helper, last, troubled>>
      /\ now' \in 1..MaxTime /\ now \in 1..MaxTime /\ now <= now'
  BY CacheBasics DEF K!Tick, K!vars, K!past, CacheInv, CacheTyped
<1>2. CacheTyped'
  BY <1>1 DEF CacheInv, CacheTyped, Stored, AnyCreds, Helpers, K!Idle, K!Empty
<1>3. CacheRight'
  <2>1. \A h \in Hosts : last[h] # None => last[h].brokered \in Nat
    BY DEF CacheInv, CacheTyped, Stored, AnyCreds
  <2>. QED
    BY <1>1, <2>1 DEF CacheInv, CacheRight, NoNewer, K!Busy
<1>4. Alone'
  <2>1. \A h \in Hosts : file[h] # None /\ K!CredExpired(file[h]) => K!CredExpired(file[h])'
    <3>1. \A h \in Hosts : file[h] # None => file[h].expires \in Nat
      BY DEF CacheInv, CacheTyped, Stored, AnyCreds
    <3>. QED
      BY <1>1, <3>1, CacheBasics DEF K!CredExpired
  <2>2. \A q \in Procs : K!Busy(q) => helper[q].host \in Hosts
    BY Working DEF CacheInv, Helpers, K!Busy
  <2>3. \A q \in Procs : K!Busy(q)' <=> K!Busy(q)
    BY <1>1 DEF K!Busy
  <2>. QED
    BY <1>1, <2>1, <2>2, <2>3 DEF CacheInv, Alone
<1>5. K!CachedForTheNext'
  BY <1>1 DEF CacheInv, K!CachedForTheNext
<1>. QED
  BY <1>2, <1>3, <1>4, <1>5 DEF CacheInv

\* Whatever overlaps or fails, git is answered with a credential of the host it asked
\* for, and one out of the file had more than the buffer of its life left.  A host that
\* was asked for by a helper alone, the last time since helpers overlapped or the file
\* failed, has its credential in the file, and a helper alone brokers it again only when
\* its life is nearly over or has no end (gitcred.go:24-34).
THEOREM CacheIsOfUse == K!ConstantsOK => (K!Spec => CacheServes)
<1> SUFFICES ASSUME K!ConstantsOK PROVE K!Spec => CacheServes
  OBVIOUS
<1> DEFINE Reused ==
       \A p \in Procs : helper[p].at = "broker" /\ helper'[p].at = "write" /\ helper[p].alone =>
         LET c == last[helper[p].host]
         IN \/ helper[p].host \in troubled \/ c = None
            \/ c.expires = 0 \/ c.expires <= now + Buffer
<1>1. K!Init => CacheInv
  BY CacheInit
<1>2. CacheInv /\ [K!Next]_(K!vars) => CacheInv' /\ [Reused]_(K!vars)
  <2> SUFFICES ASSUME CacheInv, [K!Next]_(K!vars) PROVE CacheInv' /\ Reused
    OBVIOUS
  <2>1. Reused
    BY CacheReused
  <2>2. CacheInv'
    BY CacheStart, CacheBroker, CacheWrite, CacheAnswer, CacheTick DEF K!Next
  <2>. QED
    BY <2>1, <2>2
<1>3. CacheInv => K!TypeOK /\ K!AnswersAreGood /\ K!CachedForTheNext
  <2> SUFFICES ASSUME CacheInv PROVE K!TypeOK /\ K!AnswersAreGood /\ K!CachedForTheNext
    OBVIOUS
  <2>1. K!TypeOK
    <3> SUFFICES ASSUME NEW h \in Hosts, file[h] # None
                 PROVE  file[h] \in K!Creds(h) /\ last[h] # None /\ file[h].brokered <= last[h].brokered
      BY DEF K!TypeOK
    <3>1. file[h] \in AnyCreds /\ file[h].host = h /\ last[h] # None /\ file[h].brokered <= last[h].brokered
      BY DEF CacheInv, CacheTyped, CacheRight, NoNewer, Stored
    <3>. QED
      BY <3>1 DEF AnyCreds, K!Creds
  <2>2. K!AnswersAreGood
    <3> SUFFICES ASSUME NEW p \in Procs, helper[p].at = "answer"
                 PROVE  /\ helper[p].creds \in K!Creds(helper[p].host)
                        /\ helper[p].reused = 0 \/ helper[p].reused + Buffer < helper[p].creds.expires
      BY DEF K!AnswersAreGood
    <3>1. helper[p] # K!Idle
      BY CacheBasics
    <3>2. /\ helper[p].creds \in AnyCreds /\ helper[p].creds.host = helper[p].host
          /\ helper[p].reused = 0 \/ helper[p].reused + Buffer < helper[p].creds.expires
      BY <3>1 DEF CacheInv, CacheTyped
    <3>. QED
      BY <3>2 DEF AnyCreds, K!Creds
  <2>. QED
    BY <2>1, <2>2 DEF CacheInv
<1>. QED
  BY <1>1, <1>2, <1>3, PTL DEF K!Spec, CacheServes, K!CacheServes, K!BrokeredOnceWhileFresh

---------------------------------------------------------------------------
(* Identity and signing. *)

Values == {None, Several, "true", "ssh", "signer"} \cup Keys
         \cup {AgentGitUser.name, AgentGitUser.email, Committer.name, Committer.email}
         \cup {identity[p].name : p \in Prompts} \cup {identity[p].email : p \in Prompts}
States == {"new", "fetch", "lock", "apply", "run", "done", "refused"}

\* What a setting should be for a prompt's commits, whatever order it is written in.
Wanted(p, k) ==
    LET u == EffectiveGitUser(p)
        on == config[p] # Off
    IN CASE k = "user.name" -> u.name
         [] k = "user.email" -> u.email
         [] k \notin {"user.name", "user.email"} /\ ~on -> None
         [] k = "author.name" /\ on -> u.name
         [] k = "author.email" /\ on -> u.email
         [] k = "committer.name" /\ on -> Committer.name
         [] k = "committer.email" /\ on -> Committer.email
         [] k = "gpg.format" /\ on -> "ssh"
         [] k = "gpg.ssh.program" /\ on -> "signer"
         [] k = "user.signingkey" /\ on -> config[p]
         [] k = "commit.gpgsign" /\ on -> "true"

LEMMA SettingsAre ==
    Settings = {"author.name", "author.email", "committer.name", "committer.email",
                "gpg.format", "gpg.ssh.program", "user.signingkey", "commit.gpgsign",
                "user.name", "user.email"}
<1>1. ToSet(Owned) = {"author.name", "author.email", "committer.name", "committer.email",
                      "gpg.format", "gpg.ssh.program", "user.signingkey", "commit.gpgsign"}
  BY DEF Owned, ToSet
<1>. QED
  BY <1>1 DEF Settings

\* Author, name and email: what is written of them is a value a setting may have.
LEMMA UserIsKnown ==
    ASSUME identity \in Identities, NEW p \in Prompts, PromptGitAuthor(p) # Refuse
    PROVE  /\ EffectiveGitUser(p).name \in Values
           /\ EffectiveGitUser(p).email \in Values
           /\ EffectiveGitUser(p) = [name |-> EffectiveGitUser(p).name,
                                     email |-> EffectiveGitUser(p).email]
<1> DEFINE i == identity[p]
           Known(u) == /\ u.name \in Values /\ u.email \in Values
                       /\ u = [name |-> u.name, email |-> u.email]
<1>1. i.mode \in {"agent-only", "attributed-user", "other", "legacy"}
  BY IdentitiesAssumption
<1>2. i.name \in Values /\ i.email \in Values
  BY DEF Values
<1>3. /\ AgentGitUser.name \in Values /\ AgentGitUser.email \in Values
      /\ Committer.name \in Values /\ Committer.email \in Values
  BY DEF Values
<1>4. Known(AgentGitUser)
  <2>1. AgentGitUser = [name |-> AgentGitUser.name, email |-> AgentGitUser.email]
    BY DEF AgentGitUser
  <2>. QED
    BY <1>3, <2>1
<1>5. Known(Committer)
  <2>1. Committer = [name |-> Committer.name, email |-> Committer.email]
    BY CommitterAssumption
  <2>. QED
    BY <1>3, <2>1
<1>6. PromptGitAuthor(p) # None => Known(PromptGitAuthor(p))
  <2>1. CASE i.mode = "agent-only"
    BY <2>1 DEF PromptGitAuthor
  <2>2. CASE i.mode = "attributed-user"
    <3>1. PromptGitAuthor(p) = [name |-> i.name, email |-> i.email]
      BY <2>2 DEF PromptGitAuthor
    <3>. QED
      BY <3>1, <1>2
  <2>3. CASE i.mode = "legacy"
    <3> DEFINE n == OrDefault(i.name, AgentGitUser.name)
               e == OrDefault(i.email, AgentGitUser.email)
    <3>1. PromptGitAuthor(p) = None \/ PromptGitAuthor(p) = [name |-> n, email |-> e]
      BY <2>3 DEF PromptGitAuthor
    <3>2. n \in Values /\ e \in Values
      BY <1>2, <1>3 DEF OrDefault
    <3>3. Known([name |-> n, email |-> e])
      BY <3>2
    <3>. QED
      BY <3>1, <3>3
  <2>4. CASE i.mode = "other"
    BY <2>4 DEF PromptGitAuthor
  <2>. QED
    BY <1>1, <2>1, <2>2, <2>3, <2>4
<1>. QED
  BY <1>4, <1>5, <1>6 DEF EffectiveGitUser

\* The list of writes says of every setting what it should be, and nothing else.
Right(p, w) == w \in Settings \X Values /\ w[2] = Wanted(p, w[1])

LEMMA InSeq ==
    ASSUME NEW S, NEW s \in Seq(S)
    PROVE  \A i \in 1..Len(s) : s[i] \in S
OBVIOUS

\* Six writes, or eight, and two more.
LEMMA SixAndTwo ==
    ASSUME NEW S, NEW s \in Seq(S), NEW t \in Seq(S)
    PROVE  Len(s) = 6 /\ Len(t) = 2 =>
             /\ s \o t \in Seq(S) /\ Len(s \o t) = 8
             /\ \A i \in 1..6 : (s \o t)[i] = s[i]
             /\ (s \o t)[7] = t[1] /\ (s \o t)[8] = t[2]
<1>1. /\ s \o t \in Seq(S) /\ Len(s \o t) = Len(s) + Len(t)
      /\ \A i \in 1..Len(s) : (s \o t)[i] = s[i]
      /\ \A i \in 1..Len(t) : (s \o t)[Len(s) + i] = t[i]
  OBVIOUS
<1>. QED
  BY <1>1

LEMMA EightAndTwo ==
    ASSUME NEW S, NEW s \in Seq(S), NEW t \in Seq(S)
    PROVE  Len(s) = 8 /\ Len(t) = 2 =>
             /\ s \o t \in Seq(S) /\ Len(s \o t) = 10
             /\ \A i \in 1..8 : (s \o t)[i] = s[i]
             /\ (s \o t)[9] = t[1] /\ (s \o t)[10] = t[2]
<1>1. /\ s \o t \in Seq(S) /\ Len(s \o t) = Len(s) + Len(t)
      /\ \A i \in 1..Len(s) : (s \o t)[i] = s[i]
      /\ \A i \in 1..Len(t) : (s \o t)[Len(s) + i] = t[i]
  OBVIOUS
<1>. QED
  BY <1>1

LEMMA WritesAreWanted ==
    ASSUME identity \in Identities, NEW p \in Prompts, PromptGitAuthor(p) # Refuse,
           config[p] \in Keys \cup {Off}
    PROVE  /\ Writes(p) \in Seq(Settings \X Values)
           /\ \A i \in 1..Len(Writes(p)) : Right(p, Writes(p)[i])
           /\ \A k \in Settings : \E i \in 1..Len(Writes(p)) : Writes(p)[i][1] = k
<1> DEFINE W == Writes(p)
           u == EffectiveGitUser(p)
           S == {w \in Settings \X Values : Right(p, w)}
<1>1. u.name \in Values /\ u.email \in Values
  BY UserIsKnown
<1>2. Committer.name \in Values /\ Committer.email \in Values
      /\ None \in Values /\ "true" \in Values /\ "ssh" \in Values /\ "signer" \in Values
      /\ Keys \subseteq Values
  BY DEF Values
<1>3. <<"user.email", u.email>> \in S /\ <<"user.name", u.name>> \in S
  BY <1>1, SettingsAre DEF Right, Wanted
<1>4. User(u) \in Seq(S)
  BY <1>3 DEF User
<1>5. Len(User(u)) = 2 /\ User(u)[1] = <<"user.email", u.email>> /\ User(u)[2] = <<"user.name", u.name>>
  BY DEF User
<1>6. \A w \in S : w \in Settings \X Values /\ Right(p, w)
  OBVIOUS
<1> HIDE DEF S
<1>7. CASE config[p] = Off
  <2>1. Len(Owned) = 8 /\ DOMAIN Owned = 1..8
    BY DEF Owned
  <2>2. \A i \in 1..8 : Owned[i] \in Settings \ {"user.name", "user.email"}
    BY SettingsAre DEF Owned
  <2>3. \A i \in 1..8 : <<Owned[i], None>> \in S
    BY <1>2, <1>7, <2>2 DEF Right, Wanted, S
  <2>4. Unset \in Seq(S)
    BY <2>1, <2>3 DEF Unset
  <2>5. Len(Unset) = 8 /\ \A i \in 1..8 : Unset[i] = <<Owned[i], None>>
    BY <2>1 DEF Unset
  <2>6. W = Unset \o User(u)
    BY <1>7 DEF Writes
  <2> HIDE DEF W
  <2>7. /\ W \in Seq(S) /\ Len(W) = 10
        /\ \A i \in 1..8 : W[i][1] = Owned[i]
        /\ W[9][1] = "user.email" /\ W[10][1] = "user.name"
    <3>1. Len(Unset) = 8 /\ Len(User(u)) = 2 =>
            /\ Unset \o User(u) \in Seq(S) /\ Len(Unset \o User(u)) = 10
            /\ \A i \in 1..8 : (Unset \o User(u))[i] = Unset[i]
            /\ (Unset \o User(u))[9] = User(u)[1] /\ (Unset \o User(u))[10] = User(u)[2]
      BY <1>4, <2>4, EightAndTwo
    <3>. QED
      <4>1. User(u)[1][1] = "user.email" /\ User(u)[2][1] = "user.name" /\ Len(User(u)) = 2
        BY <1>5
      <4>2. /\ W \in Seq(S) /\ Len(W) = 10 /\ \A i \in 1..8 : W[i] = Unset[i]
            /\ W[9] = User(u)[1] /\ W[10] = User(u)[2]
        BY <2>5, <2>6, <3>1, <4>1
      <4>3. \A i \in 1..8 : Unset[i][1] = Owned[i]
        BY <2>5
      <4>. QED
        BY <4>1, <4>2, <4>3
  <2>8. \A k \in Settings \ {"user.name", "user.email"} : \E i \in 1..8 : Owned[i] = k
    <3>1. /\ Owned[1] = "author.name" /\ Owned[2] = "author.email"
          /\ Owned[3] = "committer.name" /\ Owned[4] = "committer.email"
          /\ Owned[5] = "gpg.format" /\ Owned[6] = "gpg.ssh.program"
          /\ Owned[7] = "user.signingkey" /\ Owned[8] = "commit.gpgsign"
      BY DEF Owned
    <3>. QED
      BY <3>1, SettingsAre
  <2>9. \A i \in 1..Len(W) : W[i] \in S
    BY <2>7, InSeq
  <2>10. W \in Seq(Settings \X Values)
    BY <1>6, <2>7
  <2>11. \A k \in Settings : \E i \in 1..Len(W) : W[i][1] = k
    <3> SUFFICES ASSUME NEW k \in Settings PROVE \E i \in 1..10 : W[i][1] = k
      BY <2>7
    <3>1. CASE k = "user.email" \/ k = "user.name"
      BY <2>7, <3>1
    <3>2. CASE k \notin {"user.name", "user.email"}
      <4>1. PICK i \in 1..8 : Owned[i] = k
        BY <2>8, <3>2
      <4>. QED
        BY <2>7, <4>1
    <3>. QED
      BY <3>1, <3>2
  <2>. QED
    BY <1>6, <2>9, <2>10, <2>11 DEF W
<1>8. CASE config[p] # Off
  <2> DEFINE G == Signing(config[p])
             A == Author(u)
  <2>1. /\ G[1] = <<"commit.gpgsign", "true">> /\ G[2] = <<"committer.email", Committer.email>>
        /\ G[3] = <<"committer.name", Committer.name>> /\ G[4] = <<"gpg.format", "ssh">>
        /\ G[5] = <<"gpg.ssh.program", "signer">> /\ G[6] = <<"user.signingkey", config[p]>>
    BY DEF Signing
  <2>2. Len(G) = 6 /\ Len(A) = 2
    BY DEF Signing, Author
  <2>3. A[1] = <<"author.email", u.email>> /\ A[2] = <<"author.name", u.name>>
    BY DEF Author
  <2>4. /\ <<"commit.gpgsign", "true">> \in S /\ <<"committer.email", Committer.email>> \in S
        /\ <<"committer.name", Committer.name>> \in S /\ <<"gpg.format", "ssh">> \in S
        /\ <<"gpg.ssh.program", "signer">> \in S /\ <<"user.signingkey", config[p]>> \in S
    BY <1>2, <1>8, SettingsAre DEF Right, Wanted, S
  <2>5. <<"author.email", u.email>> \in S /\ <<"author.name", u.name>> \in S
    BY <1>1, <1>8, SettingsAre DEF Right, Wanted, S
  <2>6. G \in Seq(S)
    BY <2>4 DEF Signing
  <2>7. A \in Seq(S)
    BY <2>5 DEF Author
  <2>8. W = (G \o A) \o User(u)
    BY <1>8 DEF Writes
  <2> HIDE DEF G, A, W
  <2>9. Len(G) = 6 /\ Len(A) = 2 =>
          /\ G \o A \in Seq(S) /\ Len(G \o A) = 8
          /\ \A i \in 1..6 : (G \o A)[i] = G[i]
          /\ (G \o A)[7] = A[1] /\ (G \o A)[8] = A[2]
    BY <2>6, <2>7, SixAndTwo
  <2>10. G \o A \in Seq(S)
    BY <2>9, <2>2
  <2>11. Len(G \o A) = 8 /\ Len(User(u)) = 2 =>
          /\ (G \o A) \o User(u) \in Seq(S) /\ Len((G \o A) \o User(u)) = 10
          /\ \A i \in 1..8 : ((G \o A) \o User(u))[i] = (G \o A)[i]
          /\ ((G \o A) \o User(u))[9] = User(u)[1] /\ ((G \o A) \o User(u))[10] = User(u)[2]
    <3> DEFINE signed == G \o A
    <3>1. signed \in Seq(S) /\ User(u) \in Seq(S)
      BY <1>4, <2>10
    <3> HIDE DEF signed, u
    <3>2. Len(signed) = 8 /\ Len(User(u)) = 2 =>
            /\ signed \o User(u) \in Seq(S) /\ Len(signed \o User(u)) = 10
            /\ \A i \in 1..8 : (signed \o User(u))[i] = signed[i]
            /\ (signed \o User(u))[9] = User(u)[1] /\ (signed \o User(u))[10] = User(u)[2]
      BY <3>1, EightAndTwo
    <3> QED
      BY <3>2 DEF signed
  <2>12. W \in Seq(S) /\ Len(W) = 10
    BY <1>5, <2>8, <2>9, <2>11, <2>2
  <2>13. \A i \in 1..Len(W) : W[i] \in S
    BY <2>12, InSeq
  <2>14. W \in Seq(Settings \X Values)
    BY <1>6, <2>12
  <2>15. /\ W[1][1] = "commit.gpgsign" /\ W[2][1] = "committer.email" /\ W[3][1] = "committer.name"
         /\ W[4][1] = "gpg.format" /\ W[5][1] = "gpg.ssh.program" /\ W[6][1] = "user.signingkey"
         /\ W[7][1] = "author.email" /\ W[8][1] = "author.name"
         /\ W[9][1] = "user.email" /\ W[10][1] = "user.name"
    BY <1>5, <2>1, <2>3, <2>8, <2>9, <2>11, <2>2
  <2>16. \A k \in Settings : \E i \in 1..Len(W) : W[i][1] = k
    BY <2>15, <2>12, SettingsAre
  <2>. QED
    BY <1>6, <2>13, <2>14, <2>16 DEF W
<1>. QED
  BY <1>7, <1>8

\* The ordinary types.
IdentityTyped ==
    /\ identity \in Identities /\ git \in [Settings -> Values]
    /\ state \in [Prompts -> States] /\ config \in [Prompts -> Keys \cup {Off}]
    /\ server \in Keys \cup {Off} /\ todo \in [Prompts -> Seq(Settings \X Values)]
    /\ holder \in Prompts \cup {None} /\ touched \subseteq Prompts
    /\ overlapped \in BOOLEAN /\ DOMAIN commits = Prompts

\* signingMu is held by the prompt that writes, which is one that may.
Locked ==
    /\ \A p \in Prompts : state[p] = "apply" <=> holder = p
    /\ \A p \in Prompts : state[p] \in {"fetch", "lock", "apply", "run", "done"} => PromptGitAuthor(p) # Refuse

\* Every setting is as the holder wants it or has a write left, and the writes
\* left are of what it wants.
OnTheWay ==
    \A p \in Prompts : state[p] = "apply" =>
       /\ \A i \in 1..Len(todo[p]) : Right(p, todo[p][i])
       /\ \A k \in Settings : git[k] = Wanted(p, k) \/ \E i \in 1..Len(todo[p]) : todo[p][i][1] = k

\* Of prompts one after another, the one in progress is alone, and the settings
\* are its until it is over or its agent edits them.
OneAtATime ==
    ~overlapped =>
       /\ \A p, q \in InProgress : p = q
       /\ \A p \in Prompts : state[p] = "run" /\ p \notin touched => \A k \in Settings : git[k] = Wanted(p, k)

\* What is committed is of a prompt that has run, as it asked.
Attributed ==
    /\ \A p \in Prompts : state[p] \in {"new", "fetch", "lock", "apply"} => commits[p] = {}
    /\ CommitsAsAsked

Identified == IdentityTyped /\ Locked /\ OnTheWay /\ OneAtATime /\ Attributed

\* What is wanted is settled once the configuration is fetched.
LEMMA WantedFrame ==
    ASSUME UNCHANGED identity
    PROVE  /\ Values' = Values
           /\ \A p \in Prompts : PromptGitAuthor(p)' = PromptGitAuthor(p)
           /\ \A p \in Prompts : config'[p] = config[p] =>
                /\ EffectiveGitUser(p)' = EffectiveGitUser(p)
                /\ \A k : Wanted(p, k)' = Wanted(p, k)
                /\ \A w : Right(p, w)' <=> Right(p, w)
<1>1. Values' = Values
  BY DEF Values
<1>2. ASSUME NEW p \in Prompts PROVE PromptGitAuthor(p)' = PromptGitAuthor(p)
  BY DEF PromptGitAuthor
<1>3. ASSUME NEW p \in Prompts, config'[p] = config[p]
      PROVE  EffectiveGitUser(p)' = EffectiveGitUser(p)
  BY <1>2, <1>3 DEF EffectiveGitUser
<1>4. ASSUME NEW p \in Prompts, config'[p] = config[p], NEW k
      PROVE  Wanted(p, k)' = Wanted(p, k)
  BY <1>3, <1>4 DEF Wanted
<1>5. ASSUME NEW p \in Prompts, config'[p] = config[p], NEW w
      PROVE  Right(p, w)' <=> Right(p, w)
  BY <1>1, <1>4, <1>5 DEF Right
<1>. QED
  BY <1>1, <1>2, <1>3, <1>4, <1>5

LEMMA IdentityInit == Init => Identified
<1> SUFFICES ASSUME Init PROVE Identified
  OBVIOUS
<1>1. IdentityTyped
  <2>1. None \in Values
    BY DEF Values
  <2>2. \A p \in Prompts : todo[p] = <<>> /\ state[p] = "new" /\ config[p] = Off
    BY DEF Init
  <2>3. <<>> \in Seq(Settings \X Values)
    OBVIOUS
  <2>. QED
    BY <2>1, <2>2, <2>3 DEF Init, IdentityTyped, States
<1>2. Locked
  BY NoneAssumption DEF Init, Locked
<1>3. OnTheWay /\ OneAtATime /\ Attributed
  BY DEF Init, OnTheWay, OneAtATime, InProgress, Attributed, CommitsAsAsked
<1>. QED
  BY <1>1, <1>2, <1>3 DEF Identified

\* The steps of a prompt that leave the settings and the lists of writes alone.
LEMMA IdentityQuiet ==
    ASSUME Identified, NEW p \in Prompts, NEW s \in States,
           state' = [state EXCEPT ![p] = s], s \notin {"apply", "new", "fetch", "lock", "run"},
           state[p] \notin {"new", "refused"} \/ s = "refused",
           holder' = (IF state[p] = "apply" THEN None ELSE holder),
           UNCHANGED <<git, envVars, config, todo, touched, commits>>,
           overlapped' \in BOOLEAN, overlapped => overlapped'
    PROVE  Identified'
<1>1. IdentityTyped'
  BY WantedFrame DEF Identified, IdentityTyped, envVars
<1>2. Locked'
  <2>1. \A q \in Prompts : state'[q] = IF q = p THEN s ELSE state[q]
    BY DEF Identified, IdentityTyped
  <2>2. \A q \in Prompts : state'[q] = "apply" <=> holder' = q
    BY <2>1, NoneAssumption DEF Identified, Locked
  <2>3. \A q \in Prompts : state'[q] \in {"fetch", "lock", "apply", "run", "done"} => PromptGitAuthor(q) # Refuse
    BY <2>1 DEF Identified, IdentityTyped, Locked, States
  <2>4. \A q \in Prompts : PromptGitAuthor(q)' = PromptGitAuthor(q)
    BY WantedFrame DEF envVars
  <2>. QED
    BY <2>2, <2>3, <2>4 DEF Locked
<1>3. OnTheWay'
  BY WantedFrame DEF Identified, IdentityTyped, OnTheWay, envVars
<1>4. OneAtATime'
  BY WantedFrame DEF Identified, IdentityTyped, OneAtATime, InProgress, envVars
<1>5. Attributed'
  BY WantedFrame DEF Identified, IdentityTyped, Attributed, CommitsAsAsked, envVars
<1>. QED
  BY <1>1, <1>2, <1>3, <1>4, <1>5 DEF Identified

LEMMA IdentityStart ==
    ASSUME Identified, NEW p \in Prompts, Start(p)
    PROVE  Identified'
<1>1. CASE PromptGitAuthor(p) = Refuse
  <2>1. state' = [state EXCEPT ![p] = "refused"] /\ overlapped' \in BOOLEAN /\ (overlapped => overlapped')
    BY <1>1 DEF Start, Refused, Identified, IdentityTyped
  <2>. QED
    BY <2>1, IdentityQuiet DEF Start, States
<1>2. CASE PromptGitAuthor(p) # Refuse
  <2>0. state' = [state EXCEPT ![p] = "fetch"]
    BY <1>2 DEF Start
  <2>1. IdentityTyped'
    BY <2>0 DEF Start, Identified, IdentityTyped, envVars, States, Values
  <2>2. Locked'
    BY <1>2, <2>0, WantedFrame DEF Start, Identified, IdentityTyped, Locked, envVars
  <2>3. OnTheWay'
    BY <2>0, WantedFrame DEF Start, Identified, IdentityTyped, OnTheWay, envVars
  <2>4. OneAtATime'
    <3> SUFFICES ASSUME ~overlapped'
                 PROVE  /\ \A q, r \in InProgress' : q = r
                        /\ \A q \in Prompts : state'[q] # "run"
      BY DEF OneAtATime
    <3>1. InProgress = {}
      BY DEF Start
    <3>2. \A q \in Prompts \ {p} : state'[q] = state[q]
      BY <2>0 DEF Identified, IdentityTyped
    <3>3. state'[p] = "fetch"
      BY <2>0 DEF Identified, IdentityTyped
    <3>4. \A q \in Prompts \ {p} : q \notin InProgress' /\ state'[q] # "run"
      BY <3>1, <3>2 DEF InProgress
    <3>. QED
      BY <3>3, <3>4 DEF InProgress
  <2>5. Attributed'
    BY <2>0, WantedFrame DEF Start, Identified, IdentityTyped, Attributed, CommitsAsAsked, envVars
  <2>. QED
    BY <2>1, <2>2, <2>3, <2>4, <2>5 DEF Identified
<1>. QED
  BY <1>1, <1>2

LEMMA IdentityFetch ==
    ASSUME Identified, NEW p \in Prompts, Fetch(p)
    PROVE  Identified'
<1>1. CASE Refused(p)
  BY <1>1, IdentityQuiet DEF Fetch, Refused, States, historyVars, Identified, IdentityTyped, Locked
<1>2. CASE config' = [config EXCEPT ![p] = server] /\ state' = [state EXCEPT ![p] = "lock"]
  <2>1. IdentityTyped'
    BY <1>2 DEF Fetch, Identified, IdentityTyped, envVars, historyVars, States, Values
  <2>2. Locked'
    BY <1>2, WantedFrame DEF Fetch, Identified, IdentityTyped, Locked, envVars, historyVars
  <2>3. OnTheWay'
    BY <1>2, WantedFrame DEF Fetch, Identified, IdentityTyped, OnTheWay, envVars, historyVars
  <2>4. OneAtATime'
    BY <1>2, WantedFrame DEF Fetch, Identified, IdentityTyped, OneAtATime, InProgress, envVars, historyVars
  <2>5. Attributed'
    BY <1>2, WantedFrame DEF Fetch, Identified, IdentityTyped, Attributed, CommitsAsAsked, envVars, historyVars
  <2>. QED
    BY <2>1, <2>2, <2>3, <2>4, <2>5 DEF Identified
<1>. QED
  BY <1>1, <1>2 DEF Fetch

LEMMA IdentityLock ==
    ASSUME Identified, NEW p \in Prompts, Lock(p)
    PROVE  Identified'
<1>1. CASE Refused(p) /\ UNCHANGED <<todo, holder>>
  BY <1>1, IdentityQuiet DEF Lock, Refused, States, historyVars, Identified, IdentityTyped
<1>2. CASE /\ todo' = [todo EXCEPT ![p] = Writes(p)] /\ holder' = p
           /\ state' = [state EXCEPT ![p] = "apply"]
  <2>0. /\ Writes(p) \in Seq(Settings \X Values)
        /\ \A i \in 1..Len(Writes(p)) : Right(p, Writes(p)[i])
        /\ \A k \in Settings : \E i \in 1..Len(Writes(p)) : Writes(p)[i][1] = k
    BY WritesAreWanted DEF Lock, Identified, IdentityTyped, Locked
  <2>1. IdentityTyped'
    BY <1>2, <2>0, WantedFrame DEF Lock, Identified, IdentityTyped, envVars, historyVars, States
  <2>2. Locked'
    BY <1>2, WantedFrame, NoneAssumption DEF Lock, Identified, IdentityTyped, Locked, envVars, historyVars
  <2>3. OnTheWay'
    <3>1. \A q \in Prompts : state'[q] = "apply" => q = p
      BY <1>2, NoneAssumption DEF Lock, Identified, IdentityTyped, Locked
    <3>2. todo'[p] = Writes(p) /\ git' = git
      BY <1>2 DEF Lock, Identified, IdentityTyped
    <3>3. \A w : Right(p, w)' <=> Right(p, w)
      BY WantedFrame DEF Lock, envVars
    <3>. QED
      BY <2>0, <3>1, <3>2, <3>3 DEF OnTheWay
  <2>4. OneAtATime'
    BY <1>2, WantedFrame DEF Lock, Identified, IdentityTyped, OneAtATime, InProgress, envVars, historyVars
  <2>5. Attributed'
    BY <1>2, WantedFrame DEF Lock, Identified, IdentityTyped, Attributed, CommitsAsAsked, envVars, historyVars
  <2>. QED
    BY <2>1, <2>2, <2>3, <2>4, <2>5 DEF Identified
<1>. QED
  BY <1>1, <1>2 DEF Lock

LEMMA IdentityWrite ==
    ASSUME Identified, NEW p \in Prompts, Write(p)
    PROVE  Identified'
<1> DEFINE w == todo[p][1]
<1>0. todo[p] \in Seq(Settings \X Values) /\ todo[p] # <<>>
  BY DEF Write, Identified, IdentityTyped
<1>1. w \in Settings \X Values /\ Right(p, w) /\ 1 \in 1..Len(todo[p])
  BY <1>0 DEF Write, Identified, OnTheWay
<1>2. /\ Tail(todo[p]) \in Seq(Settings \X Values) /\ Len(Tail(todo[p])) = Len(todo[p]) - 1
      /\ \A i \in 1..Len(Tail(todo[p])) : Tail(todo[p])[i] = todo[p][i + 1]
  BY <1>0
<1>3. git' = [git EXCEPT ![w[1]] = w[2]] /\ todo' = [todo EXCEPT ![p] = Tail(todo[p])]
  BY DEF Write
<1> HIDE DEF w
<1>4. w[1] \in Settings /\ w[2] \in Values /\ w[2] = Wanted(p, w[1])
  BY <1>1 DEF Right
<1>5. IdentityTyped'
  BY <1>2, <1>3, <1>4, WantedFrame DEF Write, Identified, IdentityTyped, envVars, historyVars
<1>6. Locked'
  BY WantedFrame DEF Write, Identified, IdentityTyped, Locked, envVars, historyVars
<1>7. OnTheWay'
  <2>1. \A q \in Prompts : state'[q] = "apply" => q = p
    BY NoneAssumption DEF Write, Identified, IdentityTyped, Locked
  <2>2. todo'[p] = Tail(todo[p])
    BY <1>3 DEF Identified, IdentityTyped
  <2>3. \A i \in 1..Len(todo'[p]) : Right(p, todo'[p][i])
    BY <1>0, <1>2, <2>2 DEF Identified, OnTheWay, Write
  <2>4. ASSUME NEW k \in Settings
        PROVE  git'[k] = Wanted(p, k) \/ \E i \in 1..Len(todo'[p]) : todo'[p][i][1] = k
    <3>1. CASE k = w[1]
      BY <1>3, <1>4, <3>1 DEF Identified, IdentityTyped
    <3>2. CASE k # w[1]
      <4>1. git'[k] = git[k]
        BY <1>3, <1>4, <3>2 DEF Identified, IdentityTyped
      <4>2. git[k] = Wanted(p, k) \/ \E i \in 1..Len(todo[p]) : todo[p][i][1] = k
        BY DEF Write, Identified, OnTheWay
      <4>3. ASSUME NEW i \in 1..Len(todo[p]), todo[p][i][1] = k
            PROVE  \E j \in 1..Len(todo'[p]) : todo'[p][j][1] = k
        <5>1. i # 1
          BY <3>2, <4>3 DEF w
        <5>2. i - 1 \in 1..Len(Tail(todo[p])) /\ i - 1 + 1 = i
          BY <1>0, <1>2, <5>1
        <5>. QED
          BY <1>2, <2>2, <4>3, <5>2
      <4>. QED
        BY <4>1, <4>2, <4>3
    <3>. QED
      BY <3>1, <3>2
  <2>5. \A v, k : (Right(p, v)' <=> Right(p, v)) /\ Wanted(p, k)' = Wanted(p, k)
    BY WantedFrame DEF Write, envVars
  <2>. QED
    BY <2>1, <2>3, <2>4, <2>5 DEF OnTheWay
<1>8. OneAtATime'
  <2> SUFFICES ASSUME ~overlapped' PROVE OneAtATime'
    BY DEF OneAtATime
  <2>1. state' = state /\ ~overlapped
    BY DEF Write, historyVars
  <2>2. \A q, r \in InProgress : q = r
    BY <2>1 DEF Identified, OneAtATime
  <2>3. InProgress' = InProgress /\ p \in InProgress
    BY <2>1 DEF InProgress, Write
  <2>4. \A q \in Prompts : state'[q] # "run"
    BY <2>1, <2>2, <2>3 DEF InProgress, Write
  <2>. QED
    BY <2>2, <2>3, <2>4 DEF OneAtATime
<1>9. Attributed'
  BY WantedFrame DEF Write, Identified, IdentityTyped, Attributed, CommitsAsAsked, envVars, historyVars
<1>. QED
  BY <1>5, <1>6, <1>7, <1>8, <1>9 DEF Identified

LEMMA IdentityApplied ==
    ASSUME Identified, NEW p \in Prompts, Applied(p)
    PROVE  Identified' /\ \A k \in Settings : git[k] = Wanted(p, k)
<1>1. \A k \in Settings : git[k] = Wanted(p, k)
  BY DEF Applied, Identified, OnTheWay
<1>2. IdentityTyped'
  BY WantedFrame DEF Applied, Identified, IdentityTyped, envVars, historyVars, States
<1>3. Locked'
  BY WantedFrame, NoneAssumption DEF Applied, Identified, IdentityTyped, Locked, envVars, historyVars
<1>4. OnTheWay'
  BY WantedFrame DEF Applied, Identified, IdentityTyped, OnTheWay, envVars, historyVars
<1>5. OneAtATime'
  BY <1>1, WantedFrame DEF Applied, Identified, IdentityTyped, OneAtATime, InProgress, envVars, historyVars
<1>6. Attributed'
  BY WantedFrame DEF Applied, Identified, IdentityTyped, Attributed, CommitsAsAsked, envVars, historyVars
<1>. QED
  BY <1>1, <1>2, <1>3, <1>4, <1>5, <1>6 DEF Identified

\* With every setting as the prompt wants it, a commit is as it asked.
LEMMA CommitIsAsked ==
    ASSUME Identified, NEW p \in Prompts, PromptGitAuthor(p) # Refuse,
           \A k \in Settings : git[k] = Wanted(p, k)
    PROVE  /\ [name |-> Either("author.name", "user.name"),
               email |-> Either("author.email", "user.email")] = EffectiveGitUser(p)
           /\ (IF Signed THEN git["user.signingkey"] ELSE Off) = config[p]
           /\ Signed <=> config[p] # Off
<1> DEFINE u == EffectiveGitUser(p)
<1>1. u = [name |-> u.name, email |-> u.email]
  BY UserIsKnown DEF Identified, IdentityTyped
<1>2. /\ git["author.name"] = Wanted(p, "author.name") /\ git["author.email"] = Wanted(p, "author.email")
      /\ git["user.name"] = Wanted(p, "user.name") /\ git["user.email"] = Wanted(p, "user.email")
      /\ git["commit.gpgsign"] = Wanted(p, "commit.gpgsign") /\ git["gpg.format"] = Wanted(p, "gpg.format")
      /\ git["gpg.ssh.program"] = Wanted(p, "gpg.ssh.program")
      /\ git["user.signingkey"] = Wanted(p, "user.signingkey")
  BY SettingsAre
<1>3. git["user.name"] = u.name /\ git["user.email"] = u.email
  BY <1>2 DEF Wanted
<1>4. CASE config[p] = Off
  <2>1. git["author.name"] = None /\ git["author.email"] = None /\ git["commit.gpgsign"] = None
    BY <1>2, <1>4 DEF Wanted
  <2>. QED
    BY <1>1, <1>3, <1>4, <2>1, NoneAssumption DEF Either, Signed
<1>5. CASE config[p] # Off
  <2>1. /\ git["author.name"] = u.name /\ git["author.email"] = u.email
        /\ git["commit.gpgsign"] = "true" /\ git["gpg.format"] = "ssh" /\ git["gpg.ssh.program"] = "signer"
        /\ git["user.signingkey"] = config[p]
    BY <1>2, <1>5 DEF Wanted
  <2>. QED
    BY <1>1, <1>3, <1>5, <2>1 DEF Either, Signed
<1>. QED
  BY <1>4, <1>5

LEMMA IdentityCommit ==
    ASSUME Identified, NEW p \in Prompts, Commit(p)
    PROVE  Identified'
<1>1. IdentityTyped'
  BY WantedFrame DEF Commit, Identified, IdentityTyped, envVars, historyVars
<1>2. Locked'
  BY WantedFrame DEF Commit, Identified, IdentityTyped, Locked, envVars, historyVars
<1>3. OnTheWay'
  BY WantedFrame DEF Commit, Identified, IdentityTyped, OnTheWay, envVars
<1>4. OneAtATime'
  BY WantedFrame DEF Commit, Identified, IdentityTyped, OneAtATime, InProgress, envVars
<1>5. Attributed'
  <2> DEFINE c == [author |-> [name |-> Either("author.name", "user.name"),
                               email |-> Either("author.email", "user.email")],
                   key |-> IF Signed THEN git["user.signingkey"] ELSE Off]
  <2>1. ~overlapped => c.author = EffectiveGitUser(p) /\ c.key = config[p]
    <3> SUFFICES ASSUME ~overlapped PROVE c.author = EffectiveGitUser(p) /\ c.key = config[p]
      OBVIOUS
    <3>1. \A k \in Settings : git[k] = Wanted(p, k)
      BY DEF Commit, Identified, OneAtATime
    <3>2. PromptGitAuthor(p) # Refuse
      BY DEF Commit, Identified, Locked
    <3>. QED
      BY <3>1, <3>2, CommitIsAsked
  <2>2. commits' = [commits EXCEPT ![p] = commits[p] \cup {c}]
    BY DEF Commit
  <2>3. \A q \in Prompts : EffectiveGitUser(q)' = EffectiveGitUser(q) /\ config'[q] = config[q]
    BY WantedFrame DEF Commit, envVars
  <2> HIDE DEF c
  <2>4. CommitsAsAsked'
    BY <2>1, <2>2, <2>3 DEF Commit, Identified, IdentityTyped, Attributed, CommitsAsAsked
  <2>5. \A q \in Prompts : state'[q] \in {"new", "fetch", "lock", "apply"} => commits'[q] = {}
    BY <2>2 DEF Commit, Identified, IdentityTyped, Attributed
  <2>. QED
    BY <2>4, <2>5 DEF Attributed
<1>. QED
  BY <1>1, <1>2, <1>3, <1>4, <1>5 DEF Identified

LEMMA IdentityDrift ==
    ASSUME Identified, NEW p \in Prompts, Drift(p)
    PROVE  Identified'
<1>1. PICK k \in {"commit.gpgsign", "author.name"} : git' = [git EXCEPT ![k] = Several]
  BY DEF Drift
<1>2. IdentityTyped'
  <2>1. k \in Settings /\ Several \in Values
    BY SettingsAre DEF Values
  <2>. QED
    BY <1>1, <2>1, WantedFrame DEF Drift, Identified, IdentityTyped, envVars, historyVars
<1>3. Locked'
  BY WantedFrame DEF Drift, Identified, IdentityTyped, Locked, envVars, historyVars
<1>4. OnTheWay'
  BY WantedFrame, NoneAssumption DEF Drift, Identified, Locked, OnTheWay, envVars
<1>5. OneAtATime'
  <2> SUFFICES ASSUME ~overlapped' PROVE OneAtATime'
    BY DEF OneAtATime
  <2>1. state' = state /\ ~overlapped /\ p \in touched'
    BY DEF Drift, historyVars
  <2>2. \A q, r \in InProgress : q = r
    BY <2>1 DEF Identified, OneAtATime
  <2>3. InProgress' = InProgress
    BY <2>1 DEF InProgress
  <2>4. \A q \in Prompts : state'[q] = "run" => q = p
    BY <2>1, <2>2 DEF InProgress, Drift
  <2>. QED
    BY <2>1, <2>2, <2>3, <2>4 DEF OneAtATime
<1>6. Attributed'
  BY WantedFrame DEF Drift, Identified, IdentityTyped, Attributed, CommitsAsAsked, envVars, historyVars
<1>. QED
  BY <1>2, <1>3, <1>4, <1>5, <1>6 DEF Identified

LEMMA IdentityElsewhere ==
    ASSUME Identified, ChangeServer \/ UNCHANGED vars
    PROVE  Identified'
<1>0. /\ UNCHANGED <<git, state, config, todo, holder, touched, historyVars, identity>>
      /\ server' \in Keys \cup {Off}
  BY DEF ChangeServer, vars, envVars, Identified, IdentityTyped
<1>1. IdentityTyped'
  BY <1>0, WantedFrame DEF Identified, IdentityTyped, historyVars
<1>2. Locked'
  BY <1>0, WantedFrame DEF Identified, Locked
<1>3. OnTheWay'
  BY <1>0, WantedFrame DEF Identified, OnTheWay
<1>4. OneAtATime'
  BY <1>0, WantedFrame DEF Identified, OneAtATime, InProgress, historyVars
<1>5. Attributed'
  BY <1>0, WantedFrame DEF Identified, Attributed, CommitsAsAsked, historyVars
<1>. QED
  BY <1>1, <1>2, <1>3, <1>4, <1>5 DEF Identified

LEMMA IdentityKept == Identified /\ [Next]_vars => Identified'
<1> SUFFICES ASSUME Identified, [Next]_vars PROVE Identified'
  OBVIOUS
<1>1. ASSUME NEW p \in Prompts, Start(p) PROVE Identified'
  BY <1>1, IdentityStart
<1>2. ASSUME NEW p \in Prompts, Fetch(p) PROVE Identified'
  BY <1>2, IdentityFetch
<1>3. ASSUME NEW p \in Prompts, Lock(p) PROVE Identified'
  BY <1>3, IdentityLock
<1>4. ASSUME NEW p \in Prompts, Write(p) PROVE Identified'
  BY <1>4, IdentityWrite
<1>5. ASSUME NEW p \in Prompts, WriteFails(p) PROVE Identified'
  BY <1>5, IdentityQuiet DEF WriteFails, Refused, States, historyVars, Identified, IdentityTyped
<1>6. ASSUME NEW p \in Prompts, Applied(p) PROVE Identified'
  BY <1>6, IdentityApplied
<1>7. ASSUME NEW p \in Prompts, Finish(p) PROVE Identified'
  BY <1>7, IdentityQuiet DEF Finish, States, historyVars, Identified, IdentityTyped
<1>8. ASSUME NEW p \in Prompts, Commit(p) PROVE Identified'
  BY <1>8, IdentityCommit
<1>9. ASSUME NEW p \in Prompts, Drift(p) PROVE Identified'
  BY <1>9, IdentityDrift
<1>10. CASE ChangeServer \/ UNCHANGED vars
  BY <1>10, IdentityElsewhere
<1>. QED
  BY <1>1, <1>2, <1>3, <1>4, <1>5, <1>6, <1>7, <1>8, <1>9, <1>10 DEF Next, Step

\* Whatever fails, whatever an earlier prompt or an agent left in the settings and
\* whoever waits for signingMu: a prompt's settings are all in place when its agent
\* starts, and of prompts one after another every commit is by whom it named and
\* signed as it was told.
THEOREM CommitsAreRightlyAttributed == Spec => RightlyAttributed
<1> DEFINE AllInPlace ==
      \A p \in Prompts : Applied(p) =>
         LET u == EffectiveGitUser(p)
             on == config[p] # Off
         IN /\ git["user.name"] = u.name /\ git["user.email"] = u.email
            /\ git["author.name"] = IF on THEN u.name ELSE None
            /\ git["author.email"] = IF on THEN u.email ELSE None
            /\ git["user.signingkey"] = IF on THEN config[p] ELSE None
            /\ Signed <=> on
<1>1. Identified => TypeOK /\ CommitsAsAsked
  BY DEF Identified, IdentityTyped, Values, Locked, Attributed, TypeOK
<1>2. Identified => AllInPlace
  <2> SUFFICES ASSUME Identified, NEW p \in Prompts, Applied(p)
               PROVE  LET u == EffectiveGitUser(p)
                          on == config[p] # Off
                      IN /\ git["user.name"] = u.name /\ git["user.email"] = u.email
                         /\ git["author.name"] = IF on THEN u.name ELSE None
                         /\ git["author.email"] = IF on THEN u.email ELSE None
                         /\ git["user.signingkey"] = IF on THEN config[p] ELSE None
                         /\ Signed <=> on
    OBVIOUS
  <2>1. \A k \in Settings : git[k] = Wanted(p, k)
    BY IdentityApplied
  <2>2. Signed <=> config[p] # Off
    BY <2>1, CommitIsAsked DEF Applied, Identified, Locked
  <2>3. /\ git["user.name"] = Wanted(p, "user.name") /\ git["user.email"] = Wanted(p, "user.email")
        /\ git["author.name"] = Wanted(p, "author.name") /\ git["author.email"] = Wanted(p, "author.email")
        /\ git["user.signingkey"] = Wanted(p, "user.signingkey")
    BY <2>1, SettingsAre
  <2>. QED
    BY <2>2, <2>3 DEF Wanted
<1>3. Identified /\ [Next]_vars => [AllInPlace]_vars
  BY <1>2
<1>. QED
  BY <1>1, <1>3, IdentityInit, IdentityKept, PTL DEF Spec, RightlyAttributed, Reconciled
=============================================================================
