--------------------------- MODULE ChildActivity ---------------------------
(***************************************************************************)
(* Output of child sessions within one prompt's stream: the correlator of  *)
(* internal/bridge/childactivity.go and the handlers of stream.go that     *)
(* drive it.  A child session runs on behalf of a Task call of the parent; *)
(* its messages and errors are emitted tagged with that call, and held     *)
(* back until it is known.                                                 *)
(*                                                                         *)
(* s is the state of one prompt (streamState and its correlator), handled  *)
(* by one goroutine; what is concurrent is OpenCode, whose sessions send   *)
(* their events in any order that the environment below allows.  A part is *)
(* a tool state of a child message, numbered in the order of the message.  *)
(* The order of what is pending is left out, as is that of the output of   *)
(* different messages: a message waits once and a child fails once.        *)
(***************************************************************************)
EXTENDS Naturals, FiniteSets, SequencesExt

CONSTANTS
    Children, Tasks, Messages,
    None,        \* no task, no session: the empty string of the code
    Workloads,   \* what OpenCode may be doing: the child session each Task call
                 \* runs (shared when one resumes another) and that of each message
    MaxParts,    \* bound: parts of a message
    MaxPending,  \* maxPendingChildActivity
    MaxHeld      \* maxPendingPartEvents

ConstantsOK ==
    /\ None \notin Children \cup Tasks
    /\ Workloads \subseteq [task : [Tasks -> Children], message : [Messages -> Children]]
    /\ {MaxParts, MaxPending, MaxHeld} \subseteq Nat

VARIABLES
    s,        \* the stream's state
    ended,
    \* OpenCode
    work,     \* its workload
    current,  \* the Task call a child session works for, or last worked for
    finished, \* Task calls that are completed
    sent,     \* how many parts of a message exist
    \* history
    truth,    \* the Task call during which a message began
    accepted, \* messages the correlator authorized or queued
    arrived,  \* the parts of a message handled, for a tracked child and not dropped
    errors    \* children that failed, with the Task call they worked for

vars == <<s, ended, work, current, finished, sent, truth, accepted, arrived, errors>>

TaskChild == work.task
MessageChild == work.message

---------------------------------------------------------------------------
(* The correlator. *)

Track(st, c) == [st EXCEPT !.tracked = @ \cup {c}]

\* A rebind (a task resumed) clears the closed record.
Associate(st, c, t) ==
    [Track(st, c) EXCEPT !.session[c] = t, !.child[t] = c, !.closed[c] = None]

TaskForActivity(st, c) == IF st.session[c] # None THEN st.session[c] ELSE st.closed[c]

\* The binding of a finished task moves to the closed map, if it is the live one.
CloseTask(st, t) ==
    IF st.child[t] # None /\ st.session[st.child[t]] = t
    THEN [st EXCEPT !.session[st.child[t]] = None, !.closed[st.child[t]] = t]
    ELSE st

Activity(st, c, m, isErr) ==
    [child |-> c, message |-> m, isErr |-> isErr, canCorrelate |-> st.closed[c] = None]

IsPending(st, m) == \E a \in st.pending : ~a.isErr /\ a.message = m

\* authorizeOrQueueMessage and queueError, when nothing owns the activity yet.
Queue(st, a) ==
    IF Cardinality(st.pending) < MaxPending THEN [st EXCEPT !.pending = @ \cup {a}] ELSE st

TaskForPending(st, a) == IF a.canCorrelate THEN st.session[a.child] ELSE None

---------------------------------------------------------------------------
(* Parts and errors on their way out. *)

\* handlePart: a tool state goes out once, tagged with its message's task.
EmitPart(st, m, k) ==
    IF <<m, k>> \notin st.seen
    THEN [st EXCEPT !.seen = @ \cup {<<m, k>>},
                    !.emitted[m] = Append(@, [part |-> k, task |-> st.owner[m]])]
    ELSE st

Held(st) == UNION {{m} \X DOMAIN st.held[m] : m \in Messages}
HeldTotal(st) == Cardinality(Held(st))

BufferPart(st, m, k) ==
    IF HeldTotal(st) < MaxHeld THEN [st EXCEPT !.held[m] = Append(@, k)] ELSE st

\* The held parts of a message that have not gone out yet, each where it came
\* first, and what handlePart makes of them in their order.
Fresh(st, m) == {i \in DOMAIN st.held[m] : /\ <<m, st.held[m][i]>> \notin st.seen
                                           /\ \A j \in 1..(i - 1) : st.held[m][j] # st.held[m][i]}
Nth(S, n) == CHOOSE i \in S : Cardinality({j \in S : j <= i}) = n
Told(st, m) == [n \in 1..Cardinality(Fresh(st, m)) |->
                   [part |-> st.held[m][Nth(Fresh(st, m), n)], task |-> st.owner[m]]]

\* drainChildMessage: each of the messages ms is allowed and its held parts go out.
Drain(st, ms) ==
    [st EXCEPT !.allowed = @ \cup ms,
               !.held = [m \in Messages |-> IF m \in ms THEN <<>> ELSE st.held[m]],
               !.seen = @ \cup UNION {{m} \X ToSet(st.held[m]) : m \in ms},
               !.emitted = [m \in Messages |->
                               IF m \in ms THEN st.emitted[m] \o Told(st, m) ELSE st.emitted[m]]]

EmitErrors(st, errs) == [st EXCEPT !.errs = @ \cup errs]

EmitPending(st, activity) ==
    Drain(EmitErrors(st, {[child |-> a.child, task |-> TaskForPending(st, a)] :
                             a \in {b \in activity : b.isErr}}),
          {a.message : a \in {b \in activity : ~b.isErr}})

\* release: what waits for a child that just gained its Task call is bound to
\* it and goes out; the rest stays.
Released(st, c) == {a \in st.pending : a.child = c /\ a.canCorrelate}
BindAll(st, c) ==
    [m \in Messages |-> IF \E a \in Released(st, c) : ~a.isErr /\ a.message = m
                        THEN st.session[c] ELSE st.owner[m]]
Release(st, c) ==
    EmitPending([st EXCEPT !.pending = @ \ Released(st, c), !.owner = BindAll(st, c)],
                Released(st, c))

Flush_Dropped(st) == [st EXCEPT !.pending = {}]
Flush(st) == EmitPending([st EXCEPT !.pending = {}], st.pending)

---------------------------------------------------------------------------
(* The handlers, one per event of the stream. *)

\* session.created, for a child of this session.
SessionCreated(c) ==
    /\ ~ended /\ current[c] # None
    /\ s' = Track(s, c)
    /\ UNCHANGED <<work, ended, current, finished, sent, truth, accepted, arrived, errors>>

\* handlePartUpdated, for a task part of the parent: it may carry the child's
\* id, and it may say that the call is over.
TaskPart(t, withChild, over) ==
    /\ ~ended
    /\ t \in finished \/ current[TaskChild[t]] = t
    /\ t \in finished => over
    /\ finished' = IF over THEN finished \cup {t} ELSE finished
    /\ LET bound == IF withChild
                    THEN Release(Associate(s, TaskChild[t], t), TaskChild[t])
                    ELSE s
       IN s' = IF over THEN CloseTask(bound, t) ELSE bound
    /\ UNCHANGED <<work, ended, current, sent, truth, accepted, arrived, errors>>

Begin(m) ==
    /\ ~ended /\ current[MessageChild[m]] # None
    /\ truth' = IF truth[m] = None THEN [truth EXCEPT ![m] = current[MessageChild[m]]] ELSE truth

\* The owner of a message is remembered when it is first authorized.
OwnerOf_Latest(m) == TaskForActivity(s, MessageChild[m])
OwnerOf(m) == IF s.owner[m] # None THEN s.owner[m] ELSE TaskForActivity(s, MessageChild[m])

\* handleMessageUpdated, for an assistant message of a child.
MessageUpdated(m) ==
    /\ Begin(m)
    /\ \/ MessageChild[m] \notin s.tracked /\ UNCHANGED <<s, accepted>>
       \/ /\ MessageChild[m] \in s.tracked /\ OwnerOf(m) # None
          /\ s' = Drain([s EXCEPT !.owner[m] = OwnerOf(m)], {m})
          /\ accepted' = accepted \cup {m}
       \/ /\ MessageChild[m] \in s.tracked /\ OwnerOf(m) = None
          /\ s' = IF IsPending(s, m) THEN s ELSE Queue(s, Activity(s, MessageChild[m], m, FALSE))
          /\ accepted' = IF IsPending(s', m) THEN accepted \cup {m} ELSE accepted
    /\ UNCHANGED <<work, ended, current, finished, sent, arrived, errors>>

\* handlePartUpdated, for a part of a child message: a new one, or the last again.
PartUpdated(m, k) ==
    /\ Begin(m)
    /\ k \in {sent[m], sent[m] + 1} /\ k \in 1..MaxParts
    /\ sent' = [sent EXCEPT ![m] = k]
    /\ s' = IF MessageChild[m] \notin s.tracked THEN s
            ELSE IF m \in s.allowed THEN EmitPart(s, m, k) ELSE BufferPart(s, m, k)
    /\ arrived' = IF MessageChild[m] \in s.tracked /\ (m \in s.allowed \/ s'.held # s.held)
                  THEN [arrived EXCEPT ![m] = @ \cup {k}] ELSE arrived
    /\ UNCHANGED <<work, ended, current, finished, accepted, errors>>

\* session.error of a child.
ChildError(c) ==
    /\ ~ended /\ current[c] # None
    /\ \A e \in errors : e.child # c
    /\ errors' = errors \cup {[child |-> c, task |-> current[c]]}
    /\ s' = IF c \notin s.tracked THEN s
            ELSE IF TaskForActivity(s, c) = None THEN Queue(s, Activity(s, c, None, TRUE))
            ELSE EmitErrors(s, {[child |-> c, task |-> TaskForActivity(s, c)]})
    /\ UNCHANGED <<work, ended, current, finished, sent, truth, accepted, arrived>>

\* Every exit from the stream flushes what is still held.
End ==
    /\ ~ended
    /\ ended' = TRUE
    /\ s' = Flush(s)
    /\ UNCHANGED <<work, current, finished, sent, truth, accepted, arrived, errors>>

\* OpenCode starts a Task call: its child is new, or its last call is over.
StartTask(t) ==
    /\ ~ended /\ t \notin finished
    /\ current[TaskChild[t]] \in {None} \cup finished
    /\ current' = [current EXCEPT ![TaskChild[t]] = t]
    /\ UNCHANGED <<work, s, ended, finished, sent, truth, accepted, arrived, errors>>

Init ==
    /\ s = [tracked |-> {}, session |-> [c \in Children |-> None], child |-> [t \in Tasks |-> None],
            closed |-> [c \in Children |-> None], owner |-> [m \in Messages |-> None],
            pending |-> {}, allowed |-> {}, held |-> [m \in Messages |-> <<>>], seen |-> {},
            emitted |-> [m \in Messages |-> <<>>], errs |-> {}]
    /\ ended = FALSE /\ work \in Workloads
    /\ current = [c \in Children |-> None] /\ finished = {}
    /\ sent = [m \in Messages |-> 0] /\ truth = [m \in Messages |-> None]
    /\ accepted = {} /\ arrived = [m \in Messages |-> {}] /\ errors = {}

Next ==
    \/ \E c \in Children : SessionCreated(c) \/ ChildError(c)
    \/ \E t \in Tasks : StartTask(t) \/ \E withChild, over \in BOOLEAN : TaskPart(t, withChild, over)
    \/ \E m \in Messages : MessageUpdated(m) \/ \E k \in 1..MaxParts : PartUpdated(m, k)
    \/ End

Spec == Init /\ [][Next]_vars

---------------------------------------------------------------------------
(* Properties. *)

PartsOut(m) == [i \in DOMAIN s.emitted[m] |-> s.emitted[m][i].part]

\* The stream's state keeps its types and its two buffers their limits
\* (childactivity.go:6, stream.go:702).
TypeOK ==
    /\ s.tracked \subseteq Children /\ s.allowed \subseteq Messages
    /\ s.session \in [Children -> Tasks \cup {None}] /\ s.closed \in [Children -> Tasks \cup {None}]
    /\ s.child \in [Tasks -> Children \cup {None}] /\ s.owner \in [Messages -> Tasks \cup {None}]
    /\ Cardinality(s.pending) <= MaxPending
    /\ HeldTotal(s) <= MaxHeld

\* Parts of a message go out once each and in their order, whether they came
\* before or after the message was authorized (stream.go:550-557, 692-699).
OnceInOrder ==
    \A m \in Messages : \A i, j \in DOMAIN s.emitted[m] : i < j => PartsOut(m)[i] < PartsOut(m)[j]

\* Whatever was accepted and not dropped for want of room is out when the
\* stream is over (stream.go:197-200).
NothingStranded ==
    ended => \A m \in accepted : arrived[m] \subseteq ToSet(PartsOut(m))

\* All output of one message has one owner (childactivity.go:105-107).
OneOwner ==
    \A m \in Messages : \A i, j \in DOMAIN s.emitted[m] : s.emitted[m][i].task = s.emitted[m][j].task

\* Activity waits only for a child that never had a Task call, so that it can
\* always be correlated: queueing while a closed binding exists does not happen.
WaitsOnlyForTheUnbound ==
    \A a \in s.pending : a.canCorrelate /\ TaskForActivity(s, a.child) = None

\* An event tagged with a Task call is tagged with the one its child worked for
\* when the activity began (childactivity.go:8-9: it is withheld "until the
\* Task call it belongs to is known"), unless a call resumed another's session.
RightOwner ==
    (\A t, u \in Tasks : TaskChild[t] = TaskChild[u] => t = u) =>
    /\ \A m \in Messages : \A i \in DOMAIN s.emitted[m] : s.emitted[m][i].task \in {None, truth[m]}
    /\ \A e \in s.errs : e.task = None \/ e \in errors

\* What has been emitted is tagged at all as soon as its Task call is known:
\* only the flush at the end emits without one (stream.go:580-585).
UntaggedOnlyAtTheEnd ==
    ~ended => /\ \A m \in Messages : \A i \in DOMAIN s.emitted[m] : s.emitted[m][i].task # None
              /\ \A e \in s.errs : e.task # None

\* What a child session says comes out whole, once and in order.
ChildrenWhole == TypeOK /\ OnceInOrder /\ NothingStranded /\ WaitsOnlyForTheUnbound

\* It comes out under the Task call it belongs to.
ChildrenOwned == OneOwner /\ RightOwner /\ UntaggedOnlyAtTheEnd
=============================================================================
