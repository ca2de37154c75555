# A verification project for background_agents_bridge

The bridge (`src/`) is the process inside a sandbox that stands between a coding
agent, OpenCode, and a control plane. It keeps one WebSocket to the control
plane, runs prompts against OpenCode over HTTP and server-sent events, forwards
what happens as events, and keeps the control plane's view of the session's
changes up to date. This directory holds TLA+ models of it, the instances TLC
checks, and the theorems TLAPS proves.

```
tlc -workers 2 -config MCEventDelivery_liveness.cfg MCEventDelivery.tla
tlapm DiffWorkerProofs.tla
```

## 1. Inventory

| Component | Source | State it keeps | Operations | Model |
| --- | --- | --- | --- | --- |
| Event delivery | `bridge/send.go`, `bridge/conn.go` | `conn`, `eventBuffer`, `pendingAcks`, all under `b.mu`; the boot warnings file | `sendEvent`, `flushEventBuffer`, `flushPendingAcks`, `ackReceived`, `drainBootWarnings`, `connectAndRun` | `EventDelivery`, `AtLeastOnce` |
| Session diff worker | `sessiondiff/worker.go`, `client.go` | three generations, the count of active prompts, the idle channel, `unsupported`, `closed`, the wake channel, all but the last under `w.mu` | `PromptStarted`, `PromptFinished`, `Request`, `Close`, the goroutine `run` | `DiffWorker` |
| Reconnect loop | `bridge/bridge.go`, `heartbeat.go` | attempt counter, connection aggregates, a heartbeat goroutine per connection | `Run`, backoff, `finalizeConnection`, ping and close | `Reconnect` |
| Command dispatch | `bridge/command.go` | a goroutine per prompt | `handleCommand` and its handlers | each handler in the module of the part it drives |
| Prompt lifecycle | `bridge/prompt.go`, `bridge.go:365` | the cancel function and its generation, under `promptMu` | `startPrompt`, `handlePrompt`, stop, shutdown | `PromptLifecycle` |
| Prompt stream | `bridge/stream.go`, `attribution.go`, `parts.go`, `childactivity.go` | per prompt: allowed messages, held parts, cumulative texts, tool states, child sessions and their owners, timers | `dispatchSSE`, part and child handlers, final-state fetch, `forceEmit` | `PromptStream`, `ChildActivity` |
| OpenCode session | `bridge/session.go`, `opencode.go` | session id in memory and in a file | load, validate, create, stop | `PromptLifecycle` |
| Git identity, signing | `bridge/git.go`, `gitsigning.go` | git's global configuration, under `signingMu` | fetch, apply, clear | `GitIdentity` |
| Push | `bridge/git.go` | none | a pipeline run inline by the read loop | `Push` |
| Attachments | `bridge/attachments.go` | none; a semaphore of two | concurrent download | `Attachments` |
| Identifiers | `bridge/identifier.go` | last time and counter, under a mutex | `ascendingID` | `Identifiers` |
| Diff collection | `sessiondiff/collector.go`, `git.go`, `excludes.go`, `bundle.go` | none | snapshot a checkout, encode within a byte budget | `DiffBundle` |
| Diff baselines | `sessiondiff/baseline.go` | two files | anchor at boot, keep on resume | `Baselines` |
| Managed skills | `skills/` | the skills tree, a journal, a backup | fetch, validate, install, repair | `SkillsInstall` (install and repair) |
| Credential cache | `sandbox/gitcred.go` | one file shared by processes | get | `CredentialCache` |
| Repository manifest | `repomanifest/` | none | parse, look up | `Baselines`, `Push`, `DiffWorker` |
| Configuration, types | `config/`, `gcpmeta/`, `bridge/config.go`, `types.go` | none | decode, defaults | `criticalEventTypes`, `maxEventBufferSize` in `EventDelivery` |
| Sandbox commands | the rest of `sandbox/` | none | one-shot tools | not modelled: no shared state |
| Control plane client | `controlplane/` | none | HTTP calls | not modelled: stateless |
| Entry points | `cmd/bridge/` | none | flags, wiring | not modelled |

### How the parts interact

- `Run` calls `connectAndRun` again and again. One call is one connection: dial,
  `setConn`, announce `ready`, drain the boot warnings, flush the buffer, resend
  what is unacknowledged, start the heartbeat, then read commands until the
  socket fails.
- A `prompt` command starts a goroutine whose context derives from `rootCtx`, so
  it outlives the connection and sends its events on whichever connection there
  is, or into the buffer. Every other command runs on the read loop.
- `startPrompt` brackets a prompt with `PromptStarted` and `PromptFinished` of
  the diff worker and then asks for a refresh. The `refresh_diff` command asks
  for one too. `Run` ends with `cancelPrompt` and `Close`.
- A prompt sets the git identity, makes sure of a session, downloads its images,
  opens OpenCode's event stream and posts itself, in that order, and reads the
  stream until the session is idle or a timer ends it.
- The control plane acknowledges critical events with `ack` commands, which the
  read loop handles in order with all others.
- The supervisor starts the bridge again when it dies. What one process leaves to
  the next is on disk: session id, baselines, skills, credentials, git's
  configuration.

### What is hard, and what makes each part correct

- *Event delivery.* Senders race with the connection goroutine between any two
  of its steps, the socket dies between any two frames, and an ack may be lost
  with its socket or arrive while the same event is being replayed. Correct: no
  critical event is lost short of an eviction; nothing is replayed before
  `ready`; an acknowledged event is gone; an event is in the buffer or waits
  for an ack, never both; non-critical events are never duplicated; a live
  connection leaves nothing behind.
- *Diff worker.* Four kinds of goroutine work on its fields in critical sections
  with gaps between. Correct: no wake-up lost, the idle gate shut while any
  prompt runs and never closed twice, a capture that overlaps a prompt is
  replaced, in the end the control plane shows the newest state.
- *Reconnect.* Counters and the disconnect line once per connection, one socket at
  a time although old heartbeats linger, a dead peer noticed, a terminal answer
  final.
- *Prompt lifecycle.* Exactly one `execution_complete` per prompt, on whichever of
  a dozen paths it ends; a stop reaches the prompt that runs although its
  predecessor still clears up; one session, which a restart finds again.
- *Stream.* Each part once, in order, attributed to the right prompt or child,
  also when it arrives before what authorizes it; one verdict among idle, error,
  inactivity, deadline and cancellation.
- *Files* (skills, baselines, credentials, git configuration). After a crash or
  a failure at any step the next boot finds a complete state.

The hazards are listed with their lines, and with the properties that cover them,
in `PROJECT.json`.

## 2. Plan

The order was by what the system loses when a part is wrong: events first, then
the diff worker, the most concurrent data structure; then prompts, connections, the
stream; then what is on disk; then push, attachments, collection and ids. Each
of these has its module now. What is left:

1. `Bridge` composes the prompts with what the event path promises. Composed with
   `EventDelivery` itself the instance is beyond TLC (over ten million states with
   two prompts), and `DiffWorker`, which has its callers in it, is not part of it: one
   shutdown seen by all three is left.
2. The validation of the skills manifest, the tools of `sandbox/` that read what
   other processes write, session titles.

## 3. Modules

| Module | What it is |
| --- | --- |
| `EventDelivery` | `send.go` and `conn.go` with the network and the control plane |
| `AtLeastOnce` | what the event path promises, without connections, buffers or acks |
| `DiffWorker` | `worker.go` with its callers |
| `Reconnect` | `Run`, the life of a connection as `Run` sees it, heartbeats |
| `PromptLifecycle` | commands that start and end prompts, `handlePrompt`, the session id |
| `Attachments` | the downloads a prompt waits for |
| `PromptStream` | one prompt's stream of the parent session, to its verdict |
| `ChildActivity` | the output of child sessions within it |
| `Identifiers` | message ids |
| `GitIdentity` | author and signing of commits |
| `CredentialCache` | the git credential helper |
| `Push` | the push command |
| `Baselines` | the two files a session's diff baselines live in |
| `SkillsInstall` | the journalled swap of the skills tree and its repair |
| `DiffBundle` | the collection of one refresh |
| `Disk` | `Baselines`, `SkillsInstall` and `DiffBundle` side by side |
| `Bridge` | `PromptLifecycle` over `AtLeastOnce`: prompts and the events that answer them |
| `StreamParts` | `PromptStream`, `ChildActivity` and `Identifiers` side by side |
| `Git` | `GitIdentity`, `CredentialCache` and `Push` side by side |
| `PromptParts` | `PromptLifecycle` and `Attachments` side by side |
| `Sorted` | a set of numbers in order, for `Attachments` and `DiffBundle` |
| `*Proofs` | theorems about the module they are named after, `StreamProofs` about `StreamParts`, `PromptProofs` about `PromptParts` and `Bridge` |
| `MC*` | the instances TLC checks |

### EventDelivery

`pc` is the place of the connection goroutine: `down` (between connections),
`announce`, `boot`, `warn`, `flush`, `resend`, `reading`, then the deferred
`CloseNow` and `clearConn` (`closing`, `clearing`), and `exited`. `conn` is
`b.conn`, as the number of the connection, and `mu` says whether one of the two
flush loops holds `b.mu`: a loop is one step per frame, so the socket can die
between two frames, while nobody else can send. `sendEvent` takes one step,
because it holds `b.mu` throughout.

An event is its type, its message id and a number that tells it from the others
of that kind. `MakeAckID` follows `makeAckID`: type and message id where there
is one, otherwise the random suffix, which is taken to be unique. `pendingAcks` is a
function on the ids, so a second event with an id replaces the first, as in
the Go map. Events whose handlers run inline in the read loop (snapshot, push) are
sent only while it reads; all others at any time.

`up` is the socket, `link` the frames written on the current connection, `rcvd` how
many of them the control plane has read. Writing succeeds as long as the socket is
up and `rootCtx` is not cancelled, so a frame can be written and never read: after
`Break` the unread tail may still arrive, or be lost when the next connection
replaces it. Acks travel only on a live socket and are lost with it. `rcvd`, `acks`,
`Receive` and `Break` are the external part. `emitted`, `received`, `duplicated`,
`evicted` and `acked` are history.

### AtLeastOnce

Callers offer events; an offer may cost one undelivered event its place; an
accepted event that was not dropped is delivered, again perhaps. Until the stop
every accepted event is delivered or dropped. `EventDelivery` maps its history onto
it (`Promise`), and the run `delivery_liveness` checks both halves.

### DiffWorker

One step per critical section of `w.mu`, and one per wait. `pc` walks through
`run` (`select`, `pending`, `stopped`), `waitIdle` (`idle`, `wait`, `recheck`),
`snapshot` and `settle` (`load`, `collect`, `judge`, `upload`, `report`, `mark`).
An idle channel is a number, `closedIdle` the closed ones, and closing a closed one
sets `panicked`. `Request` is two steps, the bump under the lock and the send on
`wake` after it. `Ending` is the end of the bridge's context and then the three
parts of `Close`.

A capture is reduced to what makes it right or wrong: `overlap`, whether a prompt
executed at any time while it was taken, and `before`, the prompts that had
terminated when it was begun. `shown` is the last thing the control plane took in. An
upload is accepted, refused as unsupported, or answered with an error after the
bundle was stored or not. `unheard` records that a generation was settled without
the control plane hearing of it, which `settle` does on purpose when the manifest
lists no repository or the failure report itself fails.

### Reconnect

`pc` is the goroutine of `Run`: the top of the loop, the dial, the announcements,
reading, a command under way, and then `connectAndRun`'s deferred calls one by one,
because a heartbeat may act between any two. Each connection has a heartbeat `hb[n]`,
which picks up `b.conn` when its tick is handled (`target[n]`), so one that outlives
its connection may ping, and close, a later one: `kills` remembers every such close.
A socket is up, dead (the peer is gone without a word), or closed. `outcome`,
`attempts`, the aggregates and the two places that log a disconnect are the code's;
`OverflowAt` is the attempt from which the delay computed by `reconnectDelay` no
longer fits its type.

### PromptLifecycle and Attachments

The read loop starts prompts, stops, shuts down and ends; each prompt's goroutine walks
from `identity` through `session`, `create`, `save`, `write` and `attach` to `stream`
and its ends. `ended` and `endedErr` are handlePrompt's two ways to return: the
completion is emitted already, or is left to `startPrompt`, after it cleared the
cancel function. `saveSessionID` is two steps, since it reads the id under the lock and
writes the file outside it. An answer of OpenCode without an id leaves the bridge without a session
(`nameless`), and the prompt is refused. `Restart` is the death of the process and the next
`loadSessionID`, with OpenCode's sessions alive or gone. `overlapped` marks runs in
which prompts overlap, which the code allows and whose guarantees are weaker.

`Attachments` is what happens at `attach`: the list is checked and cut, each image has a
goroutine behind a semaphore of two, and each outcome is a file part or a warning.

### PromptStream, ChildActivity and Identifiers

`PromptStream` is one goroutine that subscribes, posts, and handles one event per step
against an environment that persists text before its event is read and sends events of
different messages in any order: user messages, assistant messages, parts (delta or
cumulative), errors, overflow and compaction, idle. It may send those of earlier turns too, as
`attribution.go:98` says. A compaction (`Compact`) is OpenCode's step, which takes messages out of the
chain at once; the bridge knows of it when it reads `session.compacted`, or never, if the
stream drops before (`s.compacted`). The end is `FinishIdle` (the final
fetch), a timer, the end of the connection or the end of the bridge, each with its
verdict. Texts are the sequence of their chunks, so a gap or a repetition shows. What the
loop over a message's held parts makes of its text is given in closed form
(`HandleParts`): the text of the last cumulative part, and the deltas behind it.

`ChildActivity` has the correlator and the handlers that drive it: which Task call owns a
child session, what is held until it is known, what the two buffers drop. The
environment knows the truth, for which call a message was made (`truth`), and the
properties compare. What is pending, and the errors that are out, are sets: a message waits at
most once and a child fails at most once, and in which order the messages of a child are
released is left out. Within a message the order of its parts is kept, which is what the
properties are about. The loops of `release` and `flush` appear as what they make of the state
(`Drain`, `EmitErrors`): every pending message is allowed, and its held parts go out once each.

`Identifiers` takes time and counter under the lock and encodes outside it, as the code
does; the width of the counter and of the id are constants.

### GitIdentity, CredentialCache and Push

`GitIdentity` writes git's global settings one key at a time under `signingMu`; each
write may fail, each prompt has fetched its configuration before it waited for the lock,
the server's configuration may change, an agent may edit the settings, and `commits` records
what each prompt's commits carry. `CredentialCache` has processes that read one file, answer
from it or ask the broker, and replace the file; `alone` is a helper that no other one wrote
or read beside, and `troubled` the hosts whose entry an overlap or a failure may have cost. `Push` validates a spec, finds the checkout it names
through the manifest, and runs git under a deadline, with a git that may hang, ignore the
signal, or leave a child that keeps its stderr open.

### Baselines and SkillsInstall

`Baselines` resolves what the manifest does not have, writes manifest and list one
after the other, and dies at any point; either write may fail, and is then passed over, as the
code only logs it. A resume makes the manifest from the list again, the agent commits in
between, and two readers with different ideas of a valid entry read the result. What a capture
used first is kept for the session (`used`) and for the machine (`here`). `lost` and `torn` say
which write is missing, `anew` that a start resolved again what the one before had not written. `SkillsInstall` is a list of file system operations done one at a
time. `fs` is what the process sees of the destination, the staging directory, the backup and
the journal, `unsynced` the changes since the last fsync of their parent, and `maybe` the file
systems of which a power failure leaves one: each change either reached the disk or
did not, so it adds the result to every one of them, and an fsync leaves only `fs`. That
fsync is the parent directory's. The code syncs each file and the parent, and never the staging
directory or those of the skills (`materialize.go:241`), so a power failure may also take entries
of any tree, however old (`Cut`): `lost` are the versions that met this, and what is promised of
a tree is that no step of the process took a file from it (`Untouched`), which without a
power failure is that it is whole. A killed process loses nothing. `exposed` is `aside` after
a rollback that could not put the tree back, which is then the backup, and `void` once a boot has
discarded that, or the power went while a rename was not synced that a removal relied on
(section 5). `NeverPartial`, `Recoverable` and `RollbackKeepsTree` say nothing of a machine that
is `void`; of the file systems that a power failure would leave they say nothing while
`Unsynced` (`Afterwards`).

### DiffBundle

The dozen git commands of one capture are a step each, between which the checkout may
change; what a repository yields is built change by change against the ceilings for files
and bytes that the repositories of a session share, and `boundEncodedBundle` sheds patches and then
files until the whole fits: the encoded size is the number of entries and file records plus the
units of the patches, so both of the code's loops stop at the least number of patches, then of files,
that fits (`Least`). Files and units are counted as sets (`FileRefs`, `PatchUnits`), each unit a file
and a position in its patch, so that the sums over a bundle are cardinalities. There is at least one repository, as the worker asks for none without
(`worker.go:246`).

### Bridge

The composition of `PromptLifecycle` with `AtLeastOnce`, which `EventDelivery` implements:
a step of a prompt's goroutine that emits a completion or an error event hands it over in the
same step, `stopped` is `rootDone`, and the death of the process may take everything that is
not delivered. Other events appear as `Displace`, which costs an undelivered one its place. The
control plane is external: it sends a prompt when the one before is answered or its bridge
has died, as the code's "the in-flight prompt" supposes (`bridge.go:82`, `command.go:68`). What
`PromptLifecycle` promises only where prompts do not overlap holds here without that condition:
the wait for the answer is what keeps prompts apart, although the goroutine of the
answered prompt may still have its cancel function to clear.

## 4. Runs

Each property has a comment at its definition that says what it is about and names the
code; several of them are conjunctions of named parts that one question needs together.

| Run | Instance | What it checks |
| --- | --- | --- |
| `delivery_liveness` | a token and a completion, one boot warning, buffer of 2, 2 connections, fairness | `CriticalRetained`: no critical event is lost short of an eviction. `OneCopy`: an event is buffered or waits for its ack, and once acked is nowhere. `ReplayInOrder`: what is replayed follows `ready`, only critical events are repeated, and on one connection only by the race of a sender with the resend loop. `KeepsPromise`: `EventDelivery` implements `AtLeastOnce`. `Drains`: a live connection leaves nothing behind, buffer and table drain |
| `delivery_eviction` | three critical events of different ids, buffer of 2, 2 connections | `CriticalEvictedLast`: a critical event is evicted only from a buffer full of them, the oldest first |
| `delivery_shared_ack_ids` | two error events of one prompt | violated, section 5 |
| `diff_safety` | 2 prompts, one `refresh_diff`, a shutdown; prompts symmetric | `IdleGate`, `NoLostWakeup`, `ShownIsCurrent`: at rest the control plane shows the newest state, and a spoilt capture is replaced; `SilentOnceUnsupported`; `InFlightSurvivesShutdown` |
| `diff_liveness` | 2 prompts, a shutdown, fairness | `RequestSettles`: every request is settled |
| `diff_mid_execution` | 2 prompts | violated, section 5 |
| `reconnect` | 3 connections, 4 attempts, the overflow at attempt 3, fairness | `OneSocket`; `SummaryIsTrue`: each connection finalized once, the outcome of the last iteration, the backoff of the whole run, nothing after a terminal answer; `PeersAreWatched`: a dead peer is noticed, a heartbeat ends with its connection |
| `prompt` | 2 prompts, 2 stops or deaths, 2 sessions; lists of up to 5 images with a cap of 4 | `HonestCompletion`, `Cancellable`, `SessionKept`; `NothingLostSilently`: each image reaches the agent or is reported; `NoPromptHangs` |
| `stream` | a reply, a compaction summary and an earlier turn's message, whose user message may be repeated, up to 2 chunks each, 2 held parts, a compaction that may rewrite all parents; 2 Task calls, 2 child sessions, 2 messages of 2 parts, buffers of 2; 2 callers, 6 ids, 3 bits of counter | `OwnTranscript`: own output only, no gaps, complete; `VerdictHonest`; `StreamEnds`; `ChildrenWhole`, `ChildrenOwned`; `IncreasingInWindow` |
| `git` | 2 prompts with every pairing of identity modes, 2 keys, one change of the server's; 2 helpers, 2 hosts, a file that may fail; 2 pushes of 7 specs over 2 members and 2 checkouts | `RightlyAttributed`: a commit is by, and signed for, the prompt it was made for; `CacheServes`: good answers whatever overlaps, one brokered credential for helpers one after another, and a cache that recovers; `PushedAsAsked`: what the control plane is told of a push is so, and nothing else was pushed; `AlwaysAnswered` |
| `disk` | 2 repositories, 3 starts; 4 boots of the skills, 2 failures, a power failure; a checkout at rest with every shape of a path; six files in two repositories against every ceiling; a checkout changed once between two commands, with 2 failing commands and a cancellation | `BaselineKept`: the baseline of a machine never moves, the session's only after a write that is missing; `TrustedTree`, `TreeSurvives`; `BundleIsTrue`, `BundleIsBounded`, `OthersShown` |
| `bridge` | 2 prompts, a stop or a death of the bridge, a shutdown, fairness | `PromptsAreAnswered`: each prompt gets one answer, a true one, and gets it unless it is evicted or the bridge ends; a stop reaches whatever is unanswered |

*Independent parts in one run.* `MCPrompt` (an instance of `PromptParts`), `MCStream` (one of `StreamParts`),
`MCGit` (one of `Git`) and `MCDisk` (one of `Disk`) hold two or three
components that share no state. The variable `part` is chosen in the initial state and
only that component moves, so the states of the run are the sum of the components' and
each one's behaviours are all there.

*Why the bounds suffice.* Two connections are the least with a gap to replay
across, and one of them may break at any point of its life, also while it is being
replayed to; an event that survives one gap is in the state it would be in before
the next. A buffer of two with three events in it, next to the `ready` event of a
connection that broke at once, is the least in which the position of the victim
matters. Two prompts are the least that overlap, and a refresh with a prompt in
front of it and one behind it meets every gap of the worker. Three connections let
the heartbeat of the first meet the third. The overflow of the delay is at attempt 34
in the program; nothing depends on which attempt it is, so the instance has it at the
third. Two prompts with two faults between them
meet a restart at every place of the one and a stop at every place of the other. A
message of two chunks is the least whose held part can be out of order, and one
more part than fits a buffer the least that drops one. Three starts are a first
boot, one that is cut, and one that has to live with it; four boots of the skills
are an installed tree, two failed swaps and a repair of both. The checkout that changes does so once,
between any two commands: each command reads it once, so two changes between two reads are one.
Where there is a proof it covers all other sizes.

`MaxConns`, `MaxAttempts`, `MaxRefresh`, `MaxFaults`, `MaxSessions`, `MaxChanges`,
`MaxBoots`, `MaxHead`, `MaxFailures`, `MaxOutages`, `MaxFails`, `MaxTime`,
`MaxTicks`, `MaxIds` and `MaxPushes` bound counters and appear as guards. The last
connection of `EventDelivery` never breaks: `Break` needs `conns < MaxConns`, which
the liveness run uses as "the network is stable in the end".

*Deadlock* is not checked, because every one of these systems stops: after `Exit`
nothing is left to do, a worker may sleep for ever, a prompt is over.

*Fairness.* `ConnectStep`, `WorkerStep`, `RunStep`, `PromptStep` and `Step` are
goroutines that are never blocked for ever (`Bridge` takes over `PromptStep`'s, and with
`Deliver` what `KeepsPromise` shows of the event path): the write, ping and dial contexts have
timeouts; collection, upload and report are bounded by `refreshTimeout`; every stage of
a prompt has its own timeout and the stream has `promptMaxDuration` (`Deadline`);
a download ends by `attachmentDownloadTimeout`; timers and tickers fire (`Tick`,
`P!Deadline`, `P!WaitDelay`), and a ping returns by its timeout. The control plane is
assumed to read and to acknowledge on a live socket (`Receive`, `AckReceived`);
OpenCode and git are assumed to do nothing. Nothing obliges a prompt to start, an
event to be emitted, a socket to break or a shutdown to come. All liveness properties
end with the shutdown: `Run` returns while the write context is cancelled already, so
what is buffered then stays undelivered.

## 5. Where the code and what is said of it differ

Two runs expect a violation:

- `delivery_shared_ack_ids` (`send.go:44`). `makeAckID` gives all error events of
  one prompt the same id, and a prompt can have several, its own and those of its
  child sessions (`stream.go:598`). The second one takes the first one's entry in
  `pendingAcks`; if the connection then breaks before the first was read, it is
  never sent again, although `config.go:70` says that critical events are re-sent
  until acknowledged. `CriticalRetained` and `KeepsPromise` hold in the runs whose
  critical events have distinct ids, and `DistinctAckIds` names that condition.
- `diff_mid_execution` (`worker.go:174`). `waitIdle` and `snapshot` are two critical
  sections. A prompt that starts between them is counted in the attempt's
  activity, so if it ends during the collection and has not yet made its request,
  `isStale` sees nothing, and a capture of a half-written checkout is uploaded. The
  comment at `worker.go:18` excludes that. It heals: `ShownIsCurrent` shows that the
  prompt's own request replaces the capture.

The statements below do not hold either. Each is a definition of its module; TLC refutes
it when it is given as an INVARIANT or PROPERTY in the cfg of the run that instantiates the
module (through an operator of the MC module where that has it as an instance), for the rows
"without" with the condition dropped from the definition. The properties of section 4 say what holds instead.

| Definition | Said at | What the code does |
| --- | --- | --- |
| `PromptLifecycle.LonePromptCancellable` | `command.go:68`, a stop "cancels the in-flight prompt" | a second prompt overwrites the first one's cancel function and clears it when it ends (`bridge.go:371`), so a stop misses the first, which goes on |
| `FileIsCurrent` without `~overlapped` | `session.go:30`, the file is for "restart recovery" | the id is read under the lock and written outside it, and two prompts may both create a session (`prompt.go:57`): the file may end with the older id |
| `PromptLifecycle.CompletedByExit` | `prompt.go:9-16`, a prompt gets "a terminal execution_complete event" | `Run` does not wait for the prompt's goroutine (`bridge.go:220`) |
| `Reconnect.DelayAsDocumented` | `bridge.go:239`, `min(base^attempt, max)` | from attempt 34 on the power does not fit a duration (`bridge.go:242`), the conversion is negative on amd64, and the bridge redials at once; attempts are never reset |
| `Reconnect.ClosesOwnSocketOnly` | `heartbeat.go:8`, "for the life of a single connection" | the loop takes whatever `b.conn` is when its tick is handled (`heartbeat.go:20`) and closes a newer connection |
| `Reconnect.LiveSocketKept` | `heartbeat.go:9`, a failed ping closes the connection | nothing reads the pong while a command runs inline (`heartbeat.go:25`), for a push up to five minutes, and a live connection is closed |
| `ChildActivity.RightOwner` without its condition | `childactivity.go:8`, activity is "withheld until the Task call it belongs to is known" | when a Task call resumes a child session, what comes before the call names its child goes out under the earlier, closed call (`childactivity.go:94`) |
| `PromptStream.IdleIsOk` | `stream.go:91`, nil once the session is idle | the timers are asked first (`stream.go:205`): one that fires during the final fetch fails a prompt whose answer is complete |
| `PromptStream.OkIsIdle` with `CleanEnd = TRUE` | `stream.go:91` | a body that ends without an error leaves the loop with nil (`stream.go:213`), without an idle session or a final fetch |
| `PromptStream.NeverAnEarlierTurn` | `attribution.go:98-101`, prior turns are not "replayed as current output" though OpenCode reports its full history over SSE | every user message on the stream becomes an accepted parent, without a look at its time (`stream.go:467`), so a turn whose user message is repeated is taken for this prompt's |
| `PromptStream.NothingIsLost` | `stream.go:253-255`, after a drop "whatever OpenCode already persisted for this prompt" is flushed, because otherwise its text is lost | if the stream drops before `session.compacted`, or before the user message that a message answers, is read, the fetch rejects the message (`attribution.go:113-117`); `TextComplete` says what is complete |
| `SkillsInstall.AlwaysRecoverable` | `materialize.go:202`, "always recoverable on the next boot" | when the rollback's own rename fails, its error is ignored and the journal removed (`materialize.go:226`), so that the next repair discards the backup |
| `SkillsInstall.RecoversWhole`, and `Recoverable` without `Afterwards` | `materialize.go:202` | staging and skill directories are never synced (`materialize.go:241-256`), so a power failure may take entries of a tree whose files and name are durable; and the repair removes backup or journal without an fsync after the rename they guard (`materialize.go:292`) |
| `Baselines.NeverMoves` | `baseline.go:30`, the baseline "must not move" | manifest and list are written one after the other (`baseline.go:80`), either may fail, and a start that finds the manifest complete never repairs the list |
| `Baselines.ResolvedOnce` | `baseline.go:30-37`, it is resolved "once, at boot, before the agent can touch anything" | a manifest that could not be written has no baseline (`baseline.go:80-82`), and a bridge that is started again on it resolves the HEAD of then |
| `Baselines.BaselineKept` without `UnmixedSupply` | `repomanifest.go:58-60`, a malformed value "degrades to the bridge-side fallback" | a malformed `base_sha` hides a valid `baseSha` from one reader and not from the other (`repomanifest.go:67`) |
| `DiffBundle.OthersAlwaysShown` | `collector.go:77-79`, one broken checkout "never hides the others" | a repository without a baseline fails the whole bundle (`collector.go:92`) |
| `DiffBundle.AlwaysOncePerPath` | `collector.go:194-195`, "one change, not two" | only a path that was deleted is recognised in both lists; one that is removed from the index between two commands is listed twice (`collector.go:198`) |
| `GitIdentity.CommitsAsAsked` without `~overlapped` | `git.go:63-64`, a commit with the wrong author "is worse than a refused prompt" | the settings are the machine's (`gitsigning.go:190`), and a prompt that arrives changes those of the one that runs |
| `CredentialCache.FreshEachTime` | `README.md:33` of the repository, the helper "brokers a fresh SCM token from the control plane on each git op (no caching)" | what is cached and not about to expire is the answer, without a request (`gitcred.go:83-87`), as the code's own comment says (`gitcred.go:32-34`); `CacheServes` follows the code |
| `CredentialCache.OthersKept` | `gitcred.go:32-34`, cached "for the next invocation" | each helper writes back the whole map it read before it asked the broker (`gitcred.go:104`), so what others wrote meanwhile is gone |
| `CredentialCache.NothingUnbounded` | `gitcred.go:111-112`, "we never keep an unbounded token in the cache" | a credential without expiry is stored, and only not read back |
| `Identifiers.IncreasingInWindow` with `StepsBack = TRUE` | `identifier.go:33`, ids increase within a rollover window | any other time, an earlier one too, resets the counter (`identifier.go:55`) |

## 6. Proofs

All proofs are for every value of the constants, under the assumptions that the
modules name: a finite set of prompts for the diff worker, a buffer of at least one event,
events that carry one of the types the code sends, boot warnings that are pairwise
different, a first commit, values for "none" and "malformed" that are not commits, a
committer with a name and an address (`CommitterAssumption`), and messages of an earlier turn
that are not younger than the prompt (`EarlierAssumption`). A component that is reached through
INSTANCE has its assumptions in `ConstantsOK`, which its theorems take as a hypothesis and the
MC module asserts of the instance; they say that "none" is none of the values and that bounds
are numbers. Where the code does not keep a promise under all circumstances, the
theorem's hypothesis is the circumstance, the name of which is in section 5: `DistinctAckIds`,
`UnmixedSupply`, `~StepsBack`, `~CleanEnd`. `overlapped` and the like are conditions
within the properties themselves.

### DiffWorkerProofs

- `TypeCorrect`. `TypeOK` is inductive as it stands; the parts that need one
  another are `settled <= requested`, `idle` and the generations in `attempt`.
- `GateCorrect`. `IdleGate` with `TypeOK` is inductive. That `active` is the
  number of executing prompts gives that the prompt which sees `active = 1` is the
  last one, hence that it closes an open channel and that nobody closes it again.
- `NoWakeupLost`. `NoLostWakeup` with `TypeOK` is inductive: whatever makes a
  refresh due is followed by its token, and the worker takes the token only on its
  way to looking at `pending` again.
- `CapturesCorrect` is the invariant `CaptureInv` that the next ones rest on. Neither
  is inductive: each speaks of what is shown at the end, and what is shown
  was decided by an attempt that began much earlier. `NewestTrigger` ties the
  attempt's trigger to its generation, `AttemptAhead` says the attempt under way is not
  older than what is settled, `Heard` that what is settled was shown, and
  `CapturesSound` that a capture of the newest generation began after the prompts it
  answers for, and that if a prompt overlapped it, that prompt's request is still to come.
- `CurrentOnceQuiet` (`CurrentWhenQuiet`) combines it with `NoLostWakeup` and
  `IdleGate`; `SpoiltCapturesSuperseded` follows from `CapturesSound`; `ShownCurrent`
  is both together, the property the run checks.
- `SilenceKept` rests on `Muted`: once unsupported the worker is never at, or on its
  way to, an upload. `InFlightSurvives` rests on `WorkOutlivesContext`: `workCtx` is
  cancelled only by the end of `Close`.

### EventDeliveryProofs

The proofs rest on lemmas about sequences (what `Append`, `Tail` and `RemoveAt` keep,
for sequences without repetition), about the buffer (`BufferStep`), the table
(`TrackStep`) and one call of `sendEvent` (`SendStep`).

- `TypeCorrect`. `TypeOK` needs `Placed`: a frame that is resent comes from an entry that
  still exists, since no ack is handled while `flushPendingAcks` runs, and the
  announced `ready` is that of the newest connection.
- `PlacesExclusive` (`OneCopy`) is a part of the inductive invariant `Ledger`. What
  makes it inductive is that every event given to `sendEvent` is new
  (`Unannounced` for `ready`, `Unwarned` for the boot warnings), that nothing is
  anywhere that was not given to it (`Known`), and that an entry of the table sits under
  its own id (`Keyed`), so that an ack removes the only copy.
- `NothingCriticalLost` proves `CriticalRetained` under `DistinctAckIds`, the assumption
  the first finding shows to be needed. `Retained` adds `Confirmed`: an ack on
  its way back belongs to an event that was read, so removing its entry loses nothing.
- `PromiseKept` is the refinement of the safety part of `AtLeastOnce`, which needs no
  such assumption. `EvictedGone` says that an evicted event is nowhere, hence is never
  delivered afterwards.
- `ReplayedInOrder` (`ReplayInOrder`) rests on `Replay`. The property speaks of the frames of a
  connection, the code of what is in the buffer, in the table and in `justAdded`; `Wire`
  relates them: nothing but the announcement precedes it (`Announced`), each of the two loops
  runs once, the flush first (`InTurn`), what was flushed is in `justAdded` until the
  resend is over (`FlushedSkipped`), and what is still to be resent went out on this connection by
  a goroutine of its own or not at all (`StillToResend`), which is the one race that
  repeats a frame. `Attached`, that `b.conn` is the newest connection all the while, is what
  makes a direct send part of the same order.
- `NothingLeftBehind` is the invariant half of `Drains`: once the read loop of a live connection
  runs, the buffer is empty and every unacknowledged event was written on this connection.
  `Stock` follows the two loops: what a loop has passed over was sent.
- `EvictsCriticalLast` (`CriticalEvictedLast`) is an action property from `TypeInv`. Its lemmas
  give the position of the victim: the first event that is not critical, or the oldest when
  all are.

### ReconnectProofs

`IInv` is inductive (`InvCorrect`), and the theorems are its consequences:
`TypeOK`; `LifeInv`, which says at each place of the loop whose start is recorded and how
many lines were logged, so that the deferred backstop logs what the read loop did not
(`EachConnectionFinalizedOnce`); `SockInv`, that only the newest connection's socket may be
open, and only between its dial and the deferred `CloseNow`, whichever heartbeat closes it
first (`AtMostOneSocket`); `BackoffInv`, that an attempt lies between two connections
(`BackoffCumulative`); `OutcomeInv`, that a terminal outcome is followed by a
cancelled context (`OutcomeCurrent`, `TerminalStands`). `SummaryTrue` joins them.

### PromptProofs

`TypeOK` is not inductive alone: that a prompt has at most one completion needs
`Completions`, which says at each place of its goroutine whether it has one.
`PromptsCompleteHonestly` then needs that a step appends one true outcome or none
(`OneCompletes`). `StopReachesThePrompt` (`Cancellable`) rests on `Newest`: where prompts do
not overlap, the one without a completion holds the newest generation; and `Generations`, that
no two prompts share one, is why the late `clearPromptCancel` of its predecessor leaves the
cancel function alone. `EndedCancelled` covers the gap between the cleared function and the
completion: only a cancelled prompt gets there. `SessionIsKept` rests on `Session`: the
prompt that is about to create a session is alone and finds none, and the one about to
write the file holds the current id.

`NoImageIsLost` proves `NothingLostSilently` for any list, cap and concurrency and any order in which
the downloads end. `ImagesInv` has what the list came to (`Checked`), the goroutines with
their semaphore (`Downloads`), that the warnings are one for each failed image and one for the
rejected entries together (`Warned`), and the parts (`Built`). That an image has one part or
one warning, and the parts the list's order, follows with `InOrderIsSorted`.

`BridgeRunsPrompts`: every behaviour of the composition is one of `PromptLifecycle`, so its
invariant `IInv` holds. `BridgeAnswersTruly` (`StopReachesIt` and `AnswersAreTrue`, the
safety half of `PromptsAreAnswered`) adds two invariants: `EventsAreTrue`, that a completion is accepted only
of a prompt that has it and an error event only of one that reached its stream and will not
succeed; and `OneAtATime`, which follows from it: a prompt is sent only when the others are
answered, an answered one is completed, so none is in flight.

### DiskProofs

`BaselinesKept` proves `BaselineKept` under `UnmixedSupply`: an entry from the control plane
does not have a malformed `base_sha` beside a valid `baseSha` (section 5). The invariant joins
`Unmixed`, that no later step makes such an entry; `Planned`, what a start that has resolved is
going to write; `HereStands`, that what a capture used stays this machine's, whatever write failed;
and of a session whose files went the way they should (`Straight`): `InStep`, that manifest and
list agree but for what the list is still to be given and what the manifest was not;
`UsedStands`; `GapsFilled`, that a gap is filled before the first commit, in the list if not in
the manifest; and `FromStart`.

`SkillsAreTrusted` and `SkillsSurvive` prove `TrustedTree` and `TreeSurvives` from `SkillsInvariant`,
for any skills and any number of boots, failures and power failures. `SkillInv` has two
halves.

- `DiskInv` is about the directories. `Safe` says of a file system that the last tree installed, or a
  later one, is in place, or is the backup and the journal says so, or a rollback left it there.
  `NeverLost` says it of what the process sees and, unless a removal outran a rename, of
  everything a power failure may leave of the parent directory. Of a tree it says that no step took a
  file from it (`Last`), since a power failure may take entries of any.
  It is not inductive by itself: a removal of the backup is harmless on each of
  those file systems only because a tree in place is in place on all of them until the next rename
  (`InPlace`). `Allowed` collects what has to be so before an operation, and `DiskStep` is
  the lemma that any operation so allowed preserves `DiskInv`.
- `OnItsWay` is about the process. `Repairing`, `Swapping` and `RollingBack` list every position of the
  three phases, each with what is on the disk there, so that what is left to do is allowed
  and possible. `RepairBegins`, `SwapBegins` and `RollbackBegins` show that the lists which the
  code puts together from what it finds are among these, whatever was left behind. `AsideStays` is
  for the rollback whose rename back failed: the tree stays the backup until the next boot.

`BundlesAreTrue` and `OthersAreShown` prove `BundleIsTrue` and `OthersShown` of a collection, for any
number of repositories and paths, any limits, failures and cancellations, and any changes of the
checkouts meanwhile; what is said of checkouts at rest has `edits = 0` in it. `BundleInv` has four
parts beside the types.

- `InTurn`: repositories are taken one after the other, and what ended the collection early.
- `AsGitSays`: with the checkout at rest, each list that was read is what git would say now.
- `BundleTrue`: each finished entry is true of its checkout (`EntryTrue`).
- `Capturing`: the same of the entry being made, taken together with the changes still to
  capture: no path twice in both, both together are what differs, both with what is omitted are what was
  found. Capturing one file moves it from one to the other.

The list of changes is two sorted lists, one after the other. `InOrderIsSorted` (`SortedProofs`) shows
that a finite set of numbers can be put in order, each once, by the rank of each in the set; and
`ChangesListed` that no path is then in both lists, as one that is tracked and untracked is in the overlay or has no
difference. `ShedIsCut` and `DropIsCut` say that cutting a bundle keeps its entries true, whatever number
of patches and files it takes.

`BundlesAreBounded` proves `BundleIsBounded`, from `BundleInv` and the invariant `Budgeted`.

- `InBudget`: while repositories are collected, the files and the patch units in the bundle and what is
  left of each budget are together within the limit of the session. That the bundle is within it
  does not follow step by step: the budgets go down only when a repository is finished.
- `EntryInBudget`: the entry being made and the changes still to capture fit into what is left, and
  the bytes that the entry counts are those its patches add to the bundle. It is why what is taken off
  is never more than there is (`Minus`).
- `CutToFit`: what is sent fits, and was cut where it should be (`CutRight`). `ShedIsRight` gets this from
  the rank of a patch: what is larger than a patch that is shed has a smaller rank
  (`GoneAreLargest`). `DropIsRight` has it for the files: they are dropped only when all patches are
  gone (`SheddingIs`, `AllAreGone`), and a repository loses one only when more are to go than those after it
  hold (`DropsTheLast`).

### GitProofs

- `PushIsAsAsked` (`PushedAsAsked`). `PushAtWork` says at each place of `handlePush` what was
  found and what git has done: the directory is the one the spec asks for, only it can have
  been pushed, and that nothing went wrong by the time of the answer means that git ended well.
- `CacheIsOfUse` (`CacheServes`). `CacheRight` bounds what any helper has read, and so can write
  back, by what was brokered last, and `CacheTyped` keeps the answers good, both
  whatever overlaps. `Alone` is about the helper that no other one is beside: it has
  the file as it is, so the map it writes back is the file with one entry replaced, and it
  asks the broker only when that entry is of no use.
- `CommitsAreRightlyAttributed` (`RightlyAttributed`) rests on `Identified`. `Wanted` gives the
  value each of the settings should have for a prompt, whatever order the code writes them in,
  and `Right` relates a pending write to it. `OnTheWay` is the core: while a prompt holds
  `signingMu`, each setting is as wanted or has a write of the wanted value still to come, so
  that the settings are complete when the list is empty (`Reconciled`). `Locked` keeps other
  prompts' writes out, `OneAtATime` keeps the settings in place until the prompt is over, where
  prompts do not overlap, and `Attributed` carries them into the commits.

### StreamProofs

- `IdsIncreaseInWindow`. The ids that callers have taken increase by time and counter as the lock
  hands them out (`Later`), however late a caller encodes its own (`Encoding`), and the
  counter is the number of ids of this millisecond (`OfTheMillisecond`). Two ids of one window
  are in order as long as no millisecond has more ids than the counter has values (`NotFull`),
  which follows when `MaxIds` is less; and the clock must not step back (`~StepsBack`).
- `TranscriptIsOwn` (`OwnTranscript`). `Own` says that only what the prompt may show is authorized
  (`ForPrompt`): no summary, and of an earlier turn nothing whose user message the stream did not repeat,
  for the fallback after a compaction looks at the time (`EarlierAssumption`). A summary once
  classified stays one (`s.summaries`). `Texts` relates what was shown of a message to what OpenCode has stored and sent: while
  the stream is read, an authorized message shows all that came and one that is not holds all that
  came, in its order, unless the buffer was full (`Followed`). `Counted` bounds the buffer.
- `VerdictIsHonest` (`VerdictHonest`), for a body that does not end without an error. `Judged` says
  that the stream is `idle` only once the turn is over, and that an overflow is among the errors
  by the time of a verdict.
- `ChildrenComeWhole` and `ChildrenAreOwned` both rest on `ChildInv`. For each message, its
  output and what is held of it are in the message's order, have one owner, and are exactly what
  `seen` remembers (`Orderly`), so a message released late adds what is new and nothing
  twice. It is either authorized, with nothing held, or unauthorized, with nothing out; and if the
  correlator accepted it and has not authorized it, it is pending (`OutOrWaits`), so
  a release or the flush at the end reaches it. `Waits` says that only the activity of a child
  without any Task call, live or closed, is pending: hence a release
  never passes anything over. `Bound` says that whatever a child or a message is bound to is a call
  of that child, from which ownership follows; where one call resumes another's session it does
  not (section 5). `Room` keeps the limits.

### What stays with TLC

Liveness (`KeepsPromise`'s and `PromptsAreAnswered`'s second halves, `Drains`' temporal half, `RequestSettles`,
`PeersAreWatched`, `NoPromptHangs`, `StreamEnds`, `AlwaysAnswered`) needs fairness and ENABLED, which the
prover does not handle. Every other property of a passing run is stated by a theorem.

## 7. Not modelled

- The tools of `sandbox/` other than the credential helper, and the client of
  `controlplane/`: one request, one rendering, no state between two calls that
  another actor shares. The entry points: flags and wiring.
- `config/`, `gcpmeta/` and the types: decoding and defaults. What decides behaviour of
  them (`criticalEventTypes`, the limits) is in the modules that use it.
- In `skills/`, the fetch and the validation of the skills: checks of data. Discovery is
  modelled as far as it decides what shadows an installed skill.
- In `sessiondiff/`, the formats of git's output; renames are one change of the new path, modes and
  types a modification.
- In `stream.go`, session titles, and the bodies of events beyond what the handlers compare.
- `git_sync_complete`, which closes a channel nobody reads.
- Argument parsing, rendering, wire formats and logging, but for the two lines of a
  disconnect, which are counted.
- The write timeout of `writeLocked` is one of the reasons a socket may break, not an action of
  its own; a write that returns an error is taken to have sent nothing. A crash of the process is in
  `Bridge` and `PromptLifecycle`, and not in `EventDelivery` and `DiffWorker`:
  neither keeps anything on disk except the boot warnings file, which is removed before
  anything in it is sent, so a crash loses the buffer and the warnings, and no part of
  the code claims otherwise.
