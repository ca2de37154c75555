-------------------------- MODULE CredentialCache --------------------------
(***************************************************************************)
(* The git credential helper of internal/sandbox/gitcred.go: each git      *)
(* command starts a process of its own, and the processes share one file   *)
(* of brokered credentials, keyed by host.  A process reads the file,      *)
(* answers with what is fresh in it or else asks the control plane, and    *)
(* then replaces the whole file by a rename: what others wrote since it    *)
(* read is gone.  A credential is its host, the moment it was brokered and *)
(* the moment it expires, 0 for never.                                     *)
(***************************************************************************)
EXTENDS Naturals

CONSTANTS
    Procs, Hosts,
    None,
    Buffer,       \* credExpiryBuffer
    Lifetimes,    \* of brokered credentials; 0 is a credential without expiry
    MaxTime       \* bound on the clock

ConstantsOK ==
    /\ {Buffer} \cup Lifetimes \subseteq Nat /\ MaxTime \in Nat \ {0}
    /\ None \notin [host : Hosts, brokered : Nat, expires : Nat]

VARIABLES
    now, file,   \* the clock, and the file: a credential or None per host
    helper,      \* a helper process at work, or Idle: where it is ("broker", "write" or
                 \* "answer"), its host, the file as it read it, its credential;
                 \* history: when it found that in the file, or 0, and
                 \* whether it is alone, below
    \* history
    last,        \* the credential last brokered for each host
    troubled     \* the hosts not asked for alone since helpers overlapped or the
                 \* file could not be read or written

past == <<last, troubled>>
vars == <<now, file, helper, past>>

Empty == [h \in Hosts |-> None]
Idle == [at |-> "idle", host |-> None, cache |-> Empty, creds |-> None, reused |-> 0, alone |-> FALSE]
Busy(p) == helper[p].at \in {"broker", "write"}

\* Too close to its expiry, or without one.
CredExpired(c) == c.expires = 0 \/ now + Buffer >= c.expires

\* The file is read, or cannot be.  A credential in it that is still good is the
\* answer; else the control plane is asked.  A helper is alone when it read the
\* file and no other one is between reading it and replacing it.
Start(p, h) ==
    /\ helper[p] = Idle
    /\ \E read \in {file, Empty} :
        LET hit == read[h] # None /\ ~CredExpired(read[h])
            new == [at |-> IF hit THEN "answer" ELSE "broker", host |-> h,
                    cache |-> IF hit THEN Empty ELSE read, creds |-> IF hit THEN read[h] ELSE None,
                    reused |-> IF hit THEN now ELSE 0,
                    alone |-> ~hit /\ read = file /\ \A q \in Procs : ~Busy(q)]
        IN helper' = [q \in Procs |-> IF q = p THEN new
                                      ELSE IF hit THEN helper[q] ELSE [helper[q] EXCEPT !.alone = FALSE]]
    /\ UNCHANGED <<now, file, past>>

\* The control plane answers, or the helper ends with an error.
Broker(p) ==
    /\ helper[p].at = "broker"
    /\ \/ \E t \in Lifetimes :
            LET c == [host |-> helper[p].host, brokered |-> now, expires |-> IF t = 0 THEN 0 ELSE now + t]
            IN /\ helper' = [helper EXCEPT ![p].creds = c, ![p].at = "write"]
               /\ last' = [last EXCEPT ![helper[p].host] = c]
       \/ helper' = [helper EXCEPT ![p] = Idle] /\ UNCHANGED last
    /\ UNCHANGED <<now, file, troubled>>

\* writeCredCache puts the map as it was read, with the new credential, in the
\* place of the file; an error leaves the file alone, and is ignored.
Updated_Own(r) == [Empty EXCEPT ![r.host] = r.creds]
Updated(r) == [r.cache EXCEPT ![r.host] = r.creds]
Write(p) ==
    /\ helper[p].at = "write"
    /\ \/ /\ file' = Updated(helper[p])
          /\ troubled' = IF helper[p].alone THEN troubled \ {helper[p].host} ELSE Hosts
       \/ UNCHANGED file /\ troubled' = troubled \cup {helper[p].host}
    /\ helper' = [helper EXCEPT ![p].at = "answer", ![p].cache = Empty, ![p].alone = FALSE]
    /\ UNCHANGED <<now, last>>

\* The credential is written to git, and the process ends.
Answer(p) ==
    /\ helper[p].at = "answer"
    /\ helper' = [helper EXCEPT ![p] = Idle]
    /\ UNCHANGED <<now, file, past>>

Tick ==
    /\ now < MaxTime
    /\ now' = now + 1
    /\ UNCHANGED <<file, helper, past>>

Init ==
    /\ now = 1 /\ file = Empty
    /\ helper = [p \in Procs |-> Idle]
    /\ last = Empty /\ troubled = {}

Next ==
    \/ \E p \in Procs : Broker(p) \/ Write(p) \/ Answer(p) \/ \E h \in Hosts : Start(p, h)
    \/ Tick

Spec == Init /\ [][Next]_vars

---------------------------------------------------------------------------
(* Properties. *)

Creds(h) == [host : {h}, brokered : 1..MaxTime, expires : Nat]

\* The file maps hosts to credentials of their own that were brokered, even when
\* commands overlap and the file cannot be read or written.
TypeOK ==
    \A h \in Hosts : file[h] # None =>
        file[h] \in Creds(h) /\ last[h] # None /\ file[h].brokered <= last[h].brokered

\* Whatever overlaps or fails, git is answered with a credential of the host it
\* asked for, and one out of the file had more than the buffer of its life left
\* (gitcred.go:24-27, 32-34).
AnswersAreGood ==
    \A p \in Procs : helper[p].at = "answer" =>
        LET c == helper[p].creds
        IN c \in Creds(helper[p].host) /\ (helper[p].reused = 0 \/ helper[p].reused + Buffer < c.expires)

\* A helper that is alone brokers a credential only when the last one of its host
\* has less than the buffer of its life left, or no end: one that "has not
\* expired" is reused (gitcred.go:32-33).  So is it again after helpers overlapped
\* or the file failed, once the host was asked for alone.
BrokeredOnceWhileFresh ==
    [][\A p \in Procs : helper[p].at = "broker" /\ helper'[p].at = "write" /\ helper[p].alone =>
         LET c == last[helper[p].host]
         IN \/ helper[p].host \in troubled \/ c = None
            \/ c.expires = 0 \/ c.expires <= now + Buffer]_vars

\* What was brokered last is in the file "for the next invocation"
\* (gitcred.go:33-34), whatever other hosts are asked for meanwhile: a host that
\* lost its entry to an overlap or a failure has one again once asked for alone.
CachedForTheNext ==
    \A h \in Hosts \ troubled :
        (\A p \in Procs : helper[p].at = "write" => helper[p].host # h) => file[h] = last[h]

\* The cache does what it is for, and never harm.
CacheServes == [](TypeOK /\ AnswersAreGood /\ CachedForTheNext) /\ BrokeredOnceWhileFresh

---------------------------------------------------------------------------
(* Statements of the docs that do not hold (README, section 5). *)

\* The helper "brokers a fresh SCM token from the control plane on each git op
\* (no caching)" (README.md:33).
FreshEachTime ==
    \A p \in Procs : helper[p].at = "answer" => helper[p].reused = 0

\* "... and writes it ... for the next invocation", with commands that overlap:
\* writing one host's leaves the others' (gitcred.go:33-34).
OthersKept ==
    [][\A p \in Procs : helper[p].at = "write" /\ helper'[p].at = "answer" =>
         \A h \in Hosts \ {helper[p].host} : file'[h] = file[h]]_vars

\* "We never keep an unbounded token in the cache" (gitcred.go:111-112).
NothingUnbounded == \A h \in Hosts : file[h] # None => file[h].expires # 0
=============================================================================
