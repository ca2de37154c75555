----------------------------- MODULE DiffWorker -----------------------------
(***************************************************************************)
(* The session diff refresh worker (internal/sessiondiff/worker.go) and    *)
(* the goroutines that drive it (startPrompt and the refresh_diff command  *)
(* in internal/bridge/command.go, the end of Run in internal/bridge/       *)
(* bridge.go).                                                             *)
(*                                                                         *)
(* Actors.  The worker goroutine walks through pc; each prompt has a       *)
(* goroutine of its own; the read loop asks for refreshes; Run's end calls *)
(* Close.  Every critical section of w.mu is one step, and every gap       *)
(* between two of them is a place where another actor may step in.         *)
(*                                                                         *)
(* A capture is abstracted to the two things that make it right or wrong:  *)
(* whether a prompt was executing at any time while it was taken, and      *)
(* which prompts had terminated when it was begun.                         *)
(***************************************************************************)
EXTENDS Naturals, FiniteSets

CONSTANTS
    Prompts,    \* the prompts of a run, each executed once
    MaxRefresh  \* bound: refresh_diff commands of a run

ASSUME PromptsAssumption == IsFiniteSet(Prompts)
ASSUME RefreshAssumption == MaxRefresh \in Nat

\* What a request names: a prompt, or nil for a refresh the control plane asked
\* for ("none" before the first request).
ControlPlane == [prompt |-> FALSE]
TriggerOf(p) == [prompt |-> TRUE, id |-> p]
Triggers == {ControlPlane} \cup {TriggerOf(p) : p \in Prompts}

VARIABLES
    \* the Worker's fields, guarded by w.mu
    requested, settled, activity,  \* the three generations
    trigger,                       \* triggerMessageID
    active,                        \* activePromptCount
    idle,                          \* the current idle channel, by number
    closedIdle,                    \* the idle channels that are closed
    unsupported, closed,
    \* its channels and contexts
    wake,     \* the token in the wake channel of capacity one
    ctxDone,  \* the bridge's context is cancelled
    workDone, \* workCancel was called
    \* the worker goroutine
    pc, waitingOn, attempt, result,
    \* its callers
    promptPc, \* each prompt's goroutine
    reader,   \* the read loop's Request: "ready", or "wake" between its halves
    refreshes,\* refresh_diff commands so far
    closer,   \* Run's call of Close
    panicked, \* a channel was closed twice
    \* history
    overlap,   \* the capture under way has overlapped an executing prompt
    before,    \* prompts that had terminated when it was begun
    shown,     \* what the control plane shows: a capture, or a failure
    unheard    \* an attempt was settled without the control plane hearing of it

requestVars == <<requested, trigger>>
gateVars == <<activity, active, idle, closedIdle, panicked>>
endVars == <<closed, ctxDone, workDone, closer>>
localVars == <<waitingOn, attempt, result>>
callerVars == <<promptPc, reader, refreshes>>
historyVars == <<overlap, before, shown, unheard>>
vars == <<requestVars, gateVars, endVars, localVars, callerVars, historyVars,
          settled, unsupported, wake, pc>>

NoAttempt == [generation |-> 0, activity |-> 0, trigger |-> ControlPlane]

\* What the control plane shows of an attempt: its capture, or that it failed.
Shown(a, failed, o, b) ==
    [generation |-> a.generation, trigger |-> a.trigger, failed |-> failed,
     overlap |-> o, before |-> b]
NothingShown == Shown(NoAttempt, FALSE, FALSE, {})

Executing == {p \in Prompts : promptPc[p] = "running"}
Terminated == {p \in Prompts : promptPc[p] \in {"finished", "wake", "done"}}

---------------------------------------------------------------------------
(* Calls made on the worker. *)

\* Commands are handled on the goroutine of Run, one at a time, so never inside
\* a Request of that goroutine and never once Run has called Close.
ReadLoop == closer = "run" /\ reader = "ready"

\* PromptStarted, called by startPrompt on the read loop before the prompt's
\* goroutine exists.
PromptStarted(p) ==
    /\ ReadLoop
    /\ promptPc[p] = "new"
    /\ promptPc' = [promptPc EXCEPT ![p] = "running"]
    /\ activity' = activity + 1
    /\ active' = active + 1
    /\ idle' = IF active = 0 THEN idle + 1 ELSE idle
    /\ overlap' = (overlap \/ pc = "collect")
    /\ UNCHANGED <<closedIdle, panicked, requestVars, endVars, localVars, reader, refreshes,
                   before, shown, unheard, settled, unsupported, wake, pc>>

\* The prompt's goroutine, after handlePrompt returned.
PromptFinishedWith(p, last) ==
    /\ promptPc[p] = "running"
    /\ promptPc' = [promptPc EXCEPT ![p] = "finished"]
    /\ active' = IF active = 0 THEN 0 ELSE active - 1
    /\ panicked' = (panicked \/ (last /\ idle \in closedIdle))
    /\ closedIdle' = IF last THEN closedIdle \cup {idle} ELSE closedIdle
    /\ UNCHANGED <<activity, idle, requestVars, endVars, localVars, reader, refreshes,
                   historyVars, settled, unsupported, wake, pc>>

PromptFinished_CloseAlways(p) == PromptFinishedWith(p, TRUE)
PromptFinished(p) == PromptFinishedWith(p, active = 1)

\* Request is two steps: the bump under w.mu, then the send on wake outside it.
\* It does nothing once the worker is unsupported or closed.
Refuses == unsupported \/ closed

Bump(t) ==
    /\ requested' = requested + 1
    /\ trigger' = t

PromptRequest(p) ==
    /\ promptPc[p] = "finished"
    /\ \/ /\ Refuses
          /\ promptPc' = [promptPc EXCEPT ![p] = "done"]
          /\ UNCHANGED requestVars
       \/ /\ ~Refuses
          /\ Bump(TriggerOf(p))
          /\ promptPc' = [promptPc EXCEPT ![p] = "wake"]
    /\ UNCHANGED <<gateVars, endVars, localVars, reader, refreshes, historyVars, settled,
                   unsupported, wake, pc>>

PromptWake(p) ==
    /\ promptPc[p] = "wake"
    /\ promptPc' = [promptPc EXCEPT ![p] = "done"]
    /\ wake' = TRUE
    /\ UNCHANGED <<requestVars, gateVars, endVars, localVars, reader, refreshes, historyVars,
                   settled, unsupported, pc>>

RefreshDiff ==
    /\ ReadLoop
    /\ refreshes < MaxRefresh
    /\ refreshes' = refreshes + 1
    /\ \/ Refuses /\ UNCHANGED <<requestVars, reader>>
       \/ ~Refuses /\ Bump(ControlPlane) /\ reader' = "wake"
    /\ UNCHANGED <<gateVars, endVars, localVars, promptPc, historyVars, settled, unsupported,
                   wake, pc>>

RefreshWakeWith(token) ==
    /\ reader = "wake"
    /\ reader' = "ready"
    /\ wake' = token
    /\ UNCHANGED <<requestVars, gateVars, endVars, localVars, promptPc, refreshes, historyVars,
                   settled, unsupported, pc>>

RefreshWake_Drop == RefreshWakeWith(wake)
RefreshWake == RefreshWakeWith(TRUE)

\* The bridge's context ends; Run leaves its loop and calls Close, which sets
\* the flag, wakes the loop, waits for it or for its timer, and cancels.
Ending ==
    \/ ~ctxDone /\ ctxDone' = TRUE /\ UNCHANGED <<closed, workDone, closer, wake>>
    \/ /\ ctxDone /\ ReadLoop
       /\ closed' = TRUE /\ closer' = "wake"
       /\ UNCHANGED <<ctxDone, workDone, wake>>
    \/ /\ closer = "wake"
       /\ wake' = TRUE /\ closer' = "wait"
       /\ UNCHANGED <<closed, ctxDone, workDone>>
    \/ /\ closer = "wait"
       /\ workDone' = TRUE /\ closer' = "done"
       /\ UNCHANGED <<closed, ctxDone, wake>>

Shutdown ==
    /\ Ending
    /\ UNCHANGED <<requestVars, gateVars, localVars, callerVars, historyVars, settled,
                   unsupported, pc>>

---------------------------------------------------------------------------
(* The worker goroutine: run, waitIdle, snapshot, settle.                  *)

othersVars == <<requestVars, gateVars, endVars, callerVars>>

\* A step of the worker that touches nothing but its own place.
Goto(from, to) ==
    /\ pc = from /\ pc' = to
    /\ UNCHANGED <<othersVars, localVars, historyVars, settled, unsupported, wake>>

\* The select at the top of run: Go picks any ready case.
Select ==
    \/ (ctxDone \/ workDone) /\ Goto("select", "exited")
    \/ /\ pc = "select" /\ pc' = "pending"
       /\ wake /\ wake' = FALSE
       /\ UNCHANGED <<othersVars, localVars, historyVars, settled, unsupported>>

Pending_IgnoreUnsupported == ~closed /\ settled < requested
Pending == ~unsupported /\ ~closed /\ settled < requested

CheckPending == Goto("pending", IF Pending THEN "idle" ELSE "stopped")

CheckStopped_Exit == Goto("stopped", "exited")
CheckStopped == Goto("stopped", IF closed THEN "exited" ELSE "select")

\* waitIdle reads the channel under the lock, waits on it outside, re-reads.
ReadIdle ==
    /\ pc = "idle" /\ pc' = "wait"
    /\ waitingOn' = idle
    /\ UNCHANGED <<othersVars, attempt, result, historyVars, settled, unsupported, wake>>

WaitIdle ==
    \/ ctxDone /\ Goto("wait", "exited")
    \/ waitingOn \in closedIdle /\ Goto("wait", "recheck")

RecheckIdle == Goto("recheck", IF active = 0 THEN "snapshot" ELSE "idle")

SnapshotWith(generation) ==
    /\ pc = "snapshot" /\ pc' = "load"
    /\ attempt' = [generation |-> generation, activity |-> activity, trigger |-> trigger]
    /\ UNCHANGED <<othersVars, waitingOn, result, historyVars, settled, unsupported, wake>>

Snapshot_OffByOne == SnapshotWith(requested + 1)
Snapshot == SnapshotWith(requested)

\* settle loads the manifest; with no repository there is nothing to collect.
LoadManifest ==
    /\ pc = "load"
    /\ \/ /\ pc' = "mark" /\ result' = "empty"
          /\ unheard' = TRUE
          /\ UNCHANGED <<overlap, before>>
       \/ /\ pc' = "collect"
          /\ overlap' = (Executing # {})
          /\ before' = Terminated
          /\ UNCHANGED <<result, unheard>>
    /\ UNCHANGED <<othersVars, waitingOn, attempt, shown, settled, unsupported, wake>>

\* The collection ends with a bundle, or with an error (which includes its
\* timeout, and no repository captured); a cancelled context abandons it.
CollectOn(done) ==
    /\ pc = "collect"
    /\ IF done THEN pc' = "exited" /\ UNCHANGED result
       ELSE pc' = "judge" /\ result' \in {"bundle", "error"}
    /\ UNCHANGED <<othersVars, waitingOn, attempt, historyVars, settled, unsupported, wake>>

Collect_OnBridgeContext == CollectOn(ctxDone)
Collect == CollectOn(workDone)

Stale(a) ==
    \/ active > 0
    \/ a.generation # requested
    \/ a.activity # activity

\* A stale attempt settles nothing and leads back to the loop condition, unless
\* the error path finds workCtx cancelled.
Judge ==
    \/ ~Stale(attempt) /\ Goto("judge", IF result = "bundle" THEN "upload" ELSE "report")
    \/ Stale(attempt) /\ Goto("judge", IF result = "error" /\ workDone THEN "exited" ELSE "pending")

\* UploadBundle answers: accepted, unsupported, or an error to report, with the
\* bundle stored or not.  Once workCtx is cancelled the answer does not matter.
Upload ==
    /\ pc = "upload"
    /\ \/ /\ shown' = Shown(attempt, FALSE, overlap, before)
          /\ pc' \in IF workDone THEN {"exited"} ELSE {"mark", "report"}
          /\ UNCHANGED unsupported
       \/ /\ pc' = IF workDone THEN "exited" ELSE "report"
          /\ UNCHANGED <<shown, unsupported>>
       \/ /\ ~workDone
          /\ unsupported' = TRUE /\ pc' = "mark"
          /\ UNCHANGED shown
    /\ UNCHANGED <<othersVars, localVars, overlap, before, unheard, settled, wake>>

\* reportFailure: accepted, unsupported, or failed in its turn.
Report ==
    /\ pc = "report" /\ pc' = "mark"
    /\ \/ /\ ~workDone
          /\ shown' = Shown(attempt, TRUE, FALSE, {})
          /\ UNCHANGED <<unsupported, unheard>>
       \/ /\ ~workDone
          /\ unsupported' = TRUE
          /\ UNCHANGED <<shown, unheard>>
       \/ /\ unheard' = TRUE
          /\ UNCHANGED <<shown, unsupported>>
    /\ UNCHANGED <<othersVars, localVars, overlap, before, settled, wake>>

\* markSettled, then the loop condition again; except on the path without
\* repositories, settle tells run to stop when workCtx is cancelled.
MarkSettledAt(generation) ==
    /\ pc = "mark"
    /\ pc' = IF workDone /\ result # "empty" THEN "exited" ELSE "pending"
    /\ settled' = IF generation > settled THEN generation ELSE settled
    /\ UNCHANGED <<othersVars, localVars, historyVars, unsupported, wake>>

MarkSettled_Newest == MarkSettledAt(requested)
MarkSettled == MarkSettledAt(attempt.generation)

---------------------------------------------------------------------------
Init ==
    /\ requested = 0 /\ settled = 0 /\ activity = 0
    /\ trigger = ControlPlane
    /\ active = 0
    /\ idle = 0 /\ closedIdle = {0}
    /\ unsupported = FALSE /\ closed = FALSE
    /\ wake = FALSE /\ ctxDone = FALSE /\ workDone = FALSE
    /\ pc = "select" /\ waitingOn = 0 /\ attempt = NoAttempt /\ result = "none"
    /\ promptPc = [p \in Prompts |-> "new"]
    /\ reader = "ready" /\ refreshes = 0 /\ closer = "run" /\ panicked = FALSE
    /\ overlap = FALSE /\ before = {} /\ shown = NothingShown /\ unheard = FALSE

WorkerStep ==
    \/ Select \/ CheckPending \/ CheckStopped
    \/ ReadIdle \/ WaitIdle \/ RecheckIdle \/ Snapshot
    \/ LoadManifest \/ Collect \/ Judge \/ Upload \/ Report \/ MarkSettled

PromptEnds(p) == PromptFinished(p) \/ PromptRequest(p) \/ PromptWake(p)

Next ==
    \/ WorkerStep
    \/ \E p \in Prompts : PromptStarted(p) \/ PromptEnds(p)
    \/ RefreshDiff \/ RefreshWake
    \/ Shutdown

Spec == Init /\ [][Next]_vars

\* The scheduler runs the worker and whoever is inside a call; collection,
\* upload and report are bounded by refreshTimeout; a prompt's goroutine ends,
\* being bounded by promptMaxDuration.  Nothing obliges a prompt to start, a
\* refresh to be asked for or the bridge to be shut down.
FairSpec ==
    /\ Spec
    /\ WF_vars(WorkerStep)
    /\ \A p \in Prompts : WF_vars(PromptEnds(p))
    /\ WF_vars(RefreshWake)

---------------------------------------------------------------------------
(* Properties. *)

Places ==
    {"select", "pending", "stopped", "idle", "wait", "recheck", "snapshot", "load", "collect",
     "judge", "upload", "report", "mark", "exited"}

ShownType ==
    [generation : 0..requested, trigger : Triggers, failed : BOOLEAN,
     overlap : BOOLEAN, before : SUBSET Prompts]

TypeOK ==
    /\ requested \in Nat /\ settled \in 0..requested /\ activity \in Nat
    /\ trigger \in Triggers
    /\ active \in Nat
    /\ idle \in Nat /\ closedIdle \in SUBSET (0..idle)
    /\ unsupported \in BOOLEAN /\ closed \in BOOLEAN
    /\ wake \in BOOLEAN /\ ctxDone \in BOOLEAN /\ workDone \in BOOLEAN
    /\ pc \in Places
    /\ waitingOn \in 0..idle
    /\ attempt \in [generation : 0..requested, activity : 0..activity, trigger : Triggers]
    /\ result \in {"none", "empty", "bundle", "error"}
    /\ promptPc \in [Prompts -> {"new", "running", "finished", "wake", "done"}]
    /\ reader \in {"ready", "wake"}
    /\ refreshes \in Nat
    /\ closer \in {"run", "wake", "wait", "done"}
    /\ panicked \in BOOLEAN
    /\ overlap \in BOOLEAN /\ unheard \in BOOLEAN
    /\ before \in SUBSET Prompts
    /\ shown \in ShownType

\* The idle gate is open exactly while no started prompt is still executing,
\* and no channel it closes was closed before, which would panic.
IdleGate ==
    /\ active = Cardinality(Executing)
    /\ (idle \in closedIdle) <=> (active = 0)
    /\ ~panicked

\* A request is never lost between the bump and the wake-up: whenever the worker
\* sleeps, or is about to, a refresh that is due has its token in the channel or
\* a caller about to put it there ("requested during exit", Worker's comment).
WakeComing == wake \/ reader = "wake" \/ \E p \in Prompts : promptPc[p] = "wake"
NoLostWakeup == pc \in {"stopped", "select"} /\ Pending => WakeComing

\* When everything has come to rest, the control plane shows the session as it
\* is: what it was last told belongs to the newest request and its trigger, and
\* if it is a capture, no prompt executed while it was taken and every prompt
\* had terminated when it was begun.  (An attempt settled unheard, or a worker
\* told to stop, can leave something older.)
Quiet ==
    /\ pc = "select" /\ ~wake
    /\ reader = "ready"
    /\ \A p \in Prompts : promptPc[p] \in {"new", "done"}
    /\ ~unsupported /\ ~closed /\ ~unheard
CurrentWhenQuiet ==
    Quiet =>
        /\ shown.generation = requested
        /\ requested > 0 => shown.trigger = trigger
        /\ ~shown.failed => ~shown.overlap /\ shown.before = Terminated

\* A capture that overlapped a prompt is never the last word: the prompt that
\* spoiled it has a request to come, or a newer request is not settled yet.
SpoiltCaptureIsSuperseded ==
    shown.overlap =>
        \/ Refuses \/ unheard
        \/ settled < requested
        \/ \E p \in Prompts : promptPc[p] \in {"running", "finished"}

\* What the viewer is left with: the newest state, or something that is about to
\* be replaced (worker.go:263-270).
ShownIsCurrent == CurrentWhenQuiet /\ SpoiltCaptureIsSuperseded

\* Once the control plane answered "unsupported", it is told nothing more.
SilentOnceUnsupported == [][unsupported => shown' = shown]_vars

\* The end of the bridge's context alone does not abandon a refresh under way: only
\* the end of Close does (workCancel: "a refresh collected just before shutdown
\* must still be able to finish uploading, bounded by Close's timeout").
InFlightSurvivesShutdown ==
    [][(pc \in {"load", "collect", "judge", "upload", "report", "mark"} /\ pc' = "exited")
          => closer = "done"]_vars

\* Every request is settled in the end, unless the worker is told to stop.
Generations == 1..(Cardinality(Prompts) + MaxRefresh)
RequestSettles ==
    \A g \in Generations :
        (requested >= g) ~> (settled >= g \/ unsupported \/ ctxDone)

\* The Worker's comment: git work happens "only while no prompt is in flight,
\* and a refresh whose inputs went stale is discarded rather than uploaded".
NeverShowsMidExecution == ~shown.overlap
=============================================================================
