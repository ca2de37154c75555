---------------------------- MODULE PromptStream ----------------------------
(***************************************************************************)
(* One prompt's event stream, from the subscription to the verdict:        *)
(* streamOpencodeResponse and dispatchSSE of internal/bridge/stream.go,    *)
(* with the attribution of assistant messages (attribution.go).            *)
(*                                                                         *)
(* The stream is read by one goroutine.  Concurrent with it are the two    *)
(* timers (the prompt's deadline and the inactivity timer), the end of the *)
(* bridge, and OpenCode, which persists text before its event is read,     *)
(* sends events of one message in order, of different messages in any, and *)
(* sends those of earlier turns as well (attribution.go:98).               *)
(*                                                                         *)
(* A message has one text part; its text is the sequence of its chunks,    *)
(* 1, 2, ..  A delta event carries one chunk, a full one all so far.       *)
(* Child sessions are the module ChildActivity.                            *)
(***************************************************************************)
EXTENDS Naturals, Sequences, SequencesExt, FiniteSets

CONSTANTS
    Messages,    \* the assistant messages of the session
    Earlier,     \* those of them that are of earlier turns
    Users,       \* its user messages: "prompt", "regenerated", "prior"
    Parent,      \* the user message each answers, before any compaction
    Rewrites,    \* what a compaction may take out of the chain: sets of messages
    Created,     \* [Messages -> Nat], 0 for a message without a usable time
    Summaries,   \* the messages that are compaction summaries
    Started,     \* the prompt's start, in the clock of Created
    MaxChunks,   \* bound: chunks of each text
    MaxHeld,     \* maxPendingPartEvents
    CleanEnd     \* the body may end without an error before the session is idle

ASSUME MessagesAssumption ==
    /\ Earlier \subseteq Messages /\ Summaries \subseteq Messages /\ "none" \notin Users
    /\ Parent \in [Messages -> Users] /\ Rewrites \subseteq SUBSET Messages /\ Created \in [Messages -> Nat]
    /\ "prompt" \in Users
\* An earlier turn's message answers an earlier prompt, and was created before
\* this one.
ASSUME EarlierAssumption ==
    \A m \in Messages :
        /\ m \in Earlier <=> Parent[m] = "prior"
        /\ m \in Earlier => Created[m] <= Started
ASSUME BoundsAssumption == {Started, MaxHeld} \subseteq Nat /\ MaxChunks \in [Messages -> Nat]
ASSUME SwitchesAssumption == CleanEnd \in BOOLEAN

VARIABLES
    pc,        \* "opening", "posting", "reading", "idle", "cleanup" or "done"
    verdict,   \* what the stream returns: "none" until it is known, "ok" for nil
    s,         \* streamState
    deadline, inactive, cancelled, \* promptCtx expired, timer fired, ctx cancelled
    \* OpenCode
    turn,      \* "before", "running" or "over"
    compacted, \* it compacted the session in this turn
    parent,    \* each message's parent, "none" once a compaction rewrote it
    stored,    \* the chunks it has persisted of each message
    sent,      \* the chunks whose events were read
    \* history
    final,     \* what the last fetch listed, <<>> without one
    dropped,   \* messages that lost a held part
    overflowed \* an overflow was announced and no compaction followed

timerVars == <<deadline, inactive, cancelled>>
openCodeVars == <<turn, compacted, parent, stored, sent>>
vars == <<pc, verdict, s, timerVars, openCodeVars, final, dropped, overflowed>>

Text(n) == [i \in 1..n |-> i]

---------------------------------------------------------------------------
(* attribution.go *)

CompactionFallbackAccepts_Inclusive(st, m) == st.compacted /\ Created[m] >= Started
CompactionFallbackAccepts(st, m) == st.compacted /\ Created[m] # 0 /\ Created[m] > Started

\* A summary once tied to the prompt stays so: the compaction may rewrite its
\* parent.
CorrelatedSummary(st, m) == m \in st.summaries \/ (m \in Summaries /\ parent[m] \in st.users)
Disposition(st, m) ==
    IF CorrelatedSummary(st, m) THEN "errorOnly"
    ELSE IF /\ m \notin Summaries
            /\ \/ parent[m] \in st.users
               \/ m \in st.allowed
               \/ CompactionFallbackAccepts(st, m)
         THEN "output" ELSE "reject"

\* What the classification of some messages leaves behind.
Classify(st, ms) ==
    [st EXCEPT !.allowed = @ \cup {m \in ms : Disposition(st, m) = "output"},
               !.summaries = @ \cup {m \in ms : CorrelatedSummary(st, m)}]

---------------------------------------------------------------------------
(* Parts and errors. *)

\* handlePart, for text, of each of the parts in turn: a delta is appended, a
\* full one carries all text so far.
HandleParts(st, m, parts) ==
    LET full == SelectLastInSeq(parts, LAMBDA part : part.full)
        after == [i \in 1..(Len(parts) - full) |-> parts[full + i].chunk]
    IN [st EXCEPT !.shown[m] = (IF full = 0 THEN @ ELSE Text(parts[full].chunk)) \o after]

Held(st) == UNION {{m} \X DOMAIN st.held[m] : m \in Messages}
HeldTotal(st) == Cardinality(Held(st))

\* popPending, and the replay of what it returns.
ReplayHeld(st, m) == HandleParts([st EXCEPT !.held[m] = <<>>], m, st.held[m])

\* parentErrorEventOnce: the first error event of each message text.
ErrorOnce(st, e) == IF e \in ToSet(st.errors) THEN st ELSE [st EXCEPT !.errors = Append(@, e)]

\* emitUnrecoveredOverflow
UnrecoveredOverflow_Never(st) == st
UnrecoveredOverflow(st) ==
    IF st.overflow /\ st.errors = <<>> THEN [st EXCEPT !.errors = <<"overflow">>] ELSE st

\* fetchFinalMessageState: the session's whole history is listed.
Accepted(st, m) == stored[m] > 0 /\ Disposition(st, m) = "output"
Persisted == {m \in Messages : stored[m] > 0}
Fetched(st) ==
    [Classify(st, Persisted) EXCEPT
        !.shown = [m \in Messages |->
            IF Accepted(st, m) /\ stored[m] > Len(@[m]) THEN Text(stored[m]) ELSE @[m]]]

\* The request may fail; then nothing is emitted.
FetchFinal ==
    \/ s' = Fetched(s) /\ final' = stored
    \/ UNCHANGED <<s, final>>

---------------------------------------------------------------------------
(* The stream. *)

PromptDeadlineExceeded == ~cancelled /\ deadline
StreamDone_InactivityOnly == inactive \/ cancelled
StreamDone == deadline \/ inactive \/ cancelled

\* The verdict after the loop, or after a failed subscription.  Deadline,
\* inactivity and a dropped connection fetch what OpenCode persisted.
ReturnWith(v) ==
    /\ verdict' = v
    /\ pc' = IF v \in {"deadline", "inactive", "disconnected"} THEN "cleanup" ELSE "done"
Verdict(readErr) ==
    IF PromptDeadlineExceeded THEN "deadline"
    ELSE IF inactive THEN "inactive"
    ELSE IF readErr /\ cancelled THEN "cancelled"
    ELSE IF readErr THEN "disconnected" ELSE "ok"

Open ==
    /\ pc = "opening"
    /\ \/ ~StreamDone /\ pc' = "posting" /\ UNCHANGED verdict
       \/ ReturnWith(Verdict(TRUE))
       \/ ReturnWith("refused")
    /\ UNCHANGED <<s, timerVars, openCodeVars, final, dropped, overflowed>>

\* postPrompt, under promptCtx: inactivity does not interrupt it.  OpenCode may
\* have taken a prompt whose answer was lost.
Post ==
    /\ pc = "posting"
    /\ \/ pc' = "reading" /\ turn' = "running" /\ UNCHANGED verdict
       \/ /\ ReturnWith(IF PromptDeadlineExceeded THEN "deadline" ELSE "refused")
          /\ turn' \in {turn, "running"}
    /\ UNCHANGED <<s, timerVars, compacted, parent, stored, sent, final, dropped, overflowed>>

Reading == pc = "reading" /\ turn # "before"
Stays == UNCHANGED <<pc, verdict, timerVars, turn, compacted, parent, stored>>

\* message.updated of a user message, whichever turn it began
UserUpdated(u) ==
    /\ Reading
    /\ s' = [s EXCEPT !.users = @ \cup {u}]
    /\ Stays /\ UNCHANGED <<sent, final, dropped, overflowed>>

\* message.updated of an assistant message, possibly with its error
MessageUpdated(m, failed) ==
    /\ Reading /\ stored[m] > 0
    /\ LET disposition == Disposition(s, m)
           seen == IF failed /\ disposition # "reject" THEN ErrorOnce(s, "failed") ELSE s
           classified == Classify(seen, {m})
       IN s' = IF disposition = "output" THEN ReplayHeld(classified, m) ELSE classified
    /\ Stays /\ UNCHANGED <<sent, final, dropped, overflowed>>

\* message.part.updated: forwarded, held for its message, or dropped.  The
\* first chunk is all of the text so far, as a delta or not.
PartUpdated(m, full) ==
    /\ Reading /\ sent[m] < stored[m]
    /\ sent[m] = 0 => full
    /\ sent' = [sent EXCEPT ![m] = @ + 1]
    /\ LET part == [chunk |-> sent[m] + 1, full |-> full]
       IN \/ m \in s.allowed /\ s' = HandleParts(s, m, <<part>>) /\ UNCHANGED dropped
          \/ /\ m \notin s.allowed /\ HeldTotal(s) < MaxHeld
             /\ s' = [s EXCEPT !.held[m] = Append(@, part)] /\ UNCHANGED dropped
          \/ /\ m \notin s.allowed /\ HeldTotal(s) >= MaxHeld
             /\ dropped' = dropped \cup {m} /\ UNCHANGED s
    /\ Stays /\ UNCHANGED <<final, overflowed>>

\* session.error of a context overflow is remembered, any other ends the stream.
ContextOverflow ==
    /\ Reading /\ turn = "running"
    /\ s' = [s EXCEPT !.overflow = TRUE] /\ overflowed' = TRUE
    /\ Stays /\ UNCHANGED <<sent, final, dropped>>
SessionError ==
    /\ Reading
    /\ s' = ErrorOnce(s, "failed")
    /\ ReturnWith(Verdict(FALSE))
    /\ UNCHANGED <<timerVars, openCodeVars, final, dropped, overflowed>>

SessionCompacted ==
    /\ Reading /\ compacted
    /\ s' = [s EXCEPT !.compacted = TRUE, !.overflow = FALSE] /\ overflowed' = FALSE
    /\ Stays /\ UNCHANGED <<sent, final, dropped>>

\* session.idle: the final state is fetched, in which time a timer may fire;
\* only then is the verdict taken.
SessionIdle ==
    /\ Reading /\ turn = "over"
    /\ \/ s' = UnrecoveredOverflow(Fetched(s)) /\ final' = stored
       \/ s' = UnrecoveredOverflow(s) /\ UNCHANGED final
    /\ pc' = "idle"
    /\ UNCHANGED <<verdict, timerVars, openCodeVars, dropped, overflowed>>
FinishIdle ==
    /\ pc = "idle"
    /\ ReturnWith(Verdict(FALSE))
    /\ UNCHANGED <<s, timerVars, openCodeVars, final, dropped, overflowed>>

\* The read fails, or the body ends without an error.
ReadEnds(readErr) ==
    /\ pc = "reading"
    /\ readErr \/ CleanEnd
    /\ ReturnWith(Verdict(readErr))
    /\ UNCHANGED <<s, timerVars, openCodeVars, final, dropped, overflowed>>

\* onPromptDeadline, onStreamInactivity, onStreamTransportError: the first two
\* ask OpenCode to stop.
Cleanup ==
    /\ pc = "cleanup"
    /\ turn' \in IF verdict = "disconnected" THEN {turn} ELSE {turn, "over"}
    /\ FetchFinal
    /\ pc' = "done"
    /\ UNCHANGED <<verdict, timerVars, compacted, parent, stored, sent, dropped, overflowed>>

---------------------------------------------------------------------------
(* Timers, the bridge's end, and OpenCode. *)

Deadline ==
    /\ pc # "done" /\ ~cancelled /\ ~deadline /\ deadline' = TRUE
    /\ UNCHANGED <<pc, verdict, s, inactive, cancelled, openCodeVars, final, dropped, overflowed>>
Inactivity ==
    /\ pc # "done" /\ ~inactive /\ inactive' = TRUE
    /\ UNCHANGED <<pc, verdict, s, deadline, cancelled, openCodeVars, final, dropped, overflowed>>
Cancel ==
    /\ pc # "done" /\ ~cancelled /\ cancelled' = TRUE
    /\ UNCHANGED <<pc, verdict, s, deadline, inactive, openCodeVars, final, dropped, overflowed>>

Write(m) ==
    /\ pc # "done" /\ turn = "running" /\ m \notin Earlier /\ stored[m] < MaxChunks[m]
    /\ stored' = [stored EXCEPT ![m] = @ + 1]
    /\ UNCHANGED <<pc, verdict, s, timerVars, turn, compacted, parent, sent, final, dropped, overflowed>>
\* A compaction takes messages, written or to come, out of the chain.
Compact(rewritten) ==
    /\ pc # "done" /\ turn = "running" /\ ~compacted
    /\ compacted' = TRUE
    /\ parent' = [m \in Messages |-> IF m \in rewritten THEN "none" ELSE parent[m]]
    /\ UNCHANGED <<pc, verdict, s, timerVars, turn, stored, sent, final, dropped, overflowed>>
TurnOver ==
    /\ pc # "done" /\ turn = "running" /\ turn' = "over"
    /\ UNCHANGED <<pc, verdict, s, timerVars, compacted, parent, stored, sent, final, dropped, overflowed>>

Init ==
    /\ pc = "opening" /\ verdict = "none"
    /\ s = [users |-> {"prompt"}, allowed |-> {}, summaries |-> {}, compacted |-> FALSE, overflow |-> FALSE,
            shown |-> [m \in Messages |-> <<>>], held |-> [m \in Messages |-> <<>>], errors |-> <<>>]
    /\ deadline = FALSE /\ inactive = FALSE /\ cancelled = FALSE
    /\ turn = "before" /\ compacted = FALSE /\ parent = Parent
    /\ stored = [m \in Messages |-> IF m \in Earlier THEN MaxChunks[m] ELSE 0]
    /\ sent = [m \in Messages |-> 0]
    /\ final = <<>> /\ dropped = {} /\ overflowed = FALSE

Stream ==
    \/ Open \/ Post \/ FinishIdle \/ Cleanup
    \/ \E readErr \in BOOLEAN : ReadEnds(readErr)
Events ==
    \/ \E u \in Users : UserUpdated(u)
    \/ \E m \in Messages, b \in BOOLEAN : MessageUpdated(m, b) \/ PartUpdated(m, b)
    \/ ContextOverflow \/ SessionError \/ SessionCompacted \/ SessionIdle
Next ==
    \/ Stream \/ Events
    \/ Deadline \/ Inactivity \/ Cancel
    \/ TurnOver \/ \E m \in Messages : Write(m)
    \/ \E rewritten \in Rewrites : Compact(rewritten)

Spec == Init /\ [][Next]_vars

\* Requests are bounded by their timeouts, the read by the contexts above it;
\* the deadline is a timer.
FairSpec ==
    /\ Spec
    /\ WF_vars(Deadline)
    /\ WF_vars(Open \/ Post \/ FinishIdle \/ Cleanup)
    /\ WF_vars(StreamDone /\ ReadEnds(TRUE))

---------------------------------------------------------------------------
(* Properties. *)

Verdicts == {"none", "ok", "deadline", "inactive", "cancelled", "disconnected", "refused"}

\* The stream's state keeps its types, and held parts their limit (stream.go:702).
TypeOK ==
    /\ pc \in {"opening", "posting", "reading", "idle", "cleanup", "done"}
    /\ verdict \in Verdicts /\ (pc = "done" => verdict # "none")
    /\ s.users \subseteq Users /\ s.allowed \subseteq Messages /\ s.summaries \subseteq Summaries /\ dropped \subseteq Messages
    /\ HeldTotal(s) <= MaxHeld
    /\ \A m \in Messages : sent[m] <= stored[m] /\ stored[m] <= MaxChunks[m]

\* Only output of this prompt reaches the transcript, live or from the history
\* that is fetched at the end: no compaction summary, and of an earlier turn
\* nothing unless the stream named that turn's user message, which the bridge
\* takes for this prompt's (attribution.go:73-117, stream.go:467, 726-736).
OnlyOwnOutput ==
    \A m \in Messages : s.shown[m] # <<>> =>
        m \notin Summaries /\ (m \in Earlier => "prior" \in s.users)

\* The last token of a message is its text from the beginning, whatever order
\* its parts and its authorization came in, unless a held part was dropped
\* (stream.go:550-557, 692-710).
NoGaps == \A m \in Messages \ dropped : IsPrefix(s.shown[m], Text(MaxChunks[m]))

\* After a fetch the transcript holds all that OpenCode had persisted of each
\* message whose tie to the prompt was read in time: the message itself, the
\* user message it answers, or the compaction that took it out of the chain;
\* parts that were dropped included (stream.go:712-751).
TieRead(m) ==
    \/ m \in s.allowed
    \/ parent[m] \in s.users
    \/ s.compacted /\ Created[m] > Started
TextComplete ==
    final # <<>> => \A m \in Messages \ Summaries : TieRead(m) => s.shown[m] = Text(final[m])

\* An error is reported once, though it arrives both on its message and as a
\* session error (stream.go:442-445).
ErrorsOnce == Cardinality(ToSet(s.errors)) = Len(s.errors)

\* A stream that returns nil after an overflow that was never compacted has
\* reported an error, and one that recovered has not reported the overflow
\* (stream.go:428-432).
OverflowIsHonest ==
    /\ pc = "done" /\ verdict = "ok" /\ overflowed => s.errors # <<>>
    /\ "overflow" \in ToSet(s.errors) => overflowed

\* A prompt that overran its budget says so, and not that OpenCode was silent:
\* the deadline takes precedence (stream.go:111-116, 202-208).
DeadlineIsNamed == [][deadline /\ ~cancelled /\ verdict = "none" => verdict' # "inactive"]_vars

\* The text shown for a message is never taken back by a shorter one.
TokensOnlyGrow == [][\A m \in Messages : Len(s.shown[m]) <= Len(s'.shown[m])]_vars

\* nil is for an idle session or an error that was reported (stream.go:91-92).
OkIsIdle == verdict = "ok" => turn = "over" \/ s.errors # <<>>

\* The transcript of a prompt: its own output, complete and in order, whatever
\* order the stream brings it in (stream.go:441-562, 692-751; attribution.go).
OwnTranscript == [](TypeOK /\ OnlyOwnOutput /\ NoGaps /\ TextComplete) /\ TokensOnlyGrow

\* What the stream says of the prompt's end is what happened (stream.go:91-208).
VerdictHonest == [](ErrorsOnce /\ OverflowIsHonest /\ OkIsIdle) /\ DeadlineIsNamed

---------------------------------------------------------------------------
(* Statements of the comments that do not hold (README, section 5). *)

\* An earlier turn's output is not replayed as this prompt's (attribution.go:98).
NeverAnEarlierTurn == \A m \in Earlier : s.shown[m] = <<>>

\* What OpenCode had persisted of the prompt is shown in the end, though the
\* stream dropped (stream.go:253-255).
NothingIsLost ==
    final # <<>> => \A m \in Messages \ (Summaries \cup Earlier) : s.shown[m] = Text(final[m])

\* Once the session was seen idle the stream returns nil (stream.go:91).
IdleIsOk == [][pc = "idle" => verdict' \in {"none", "ok"}]_vars
=============================================================================
