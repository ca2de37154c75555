-------------------------- MODULE DiffWorkerProofs --------------------------
(***************************************************************************)
(* Proofs about the session diff worker, for every set of prompts and      *)
(* every number of refresh commands.                                       *)
(***************************************************************************)
EXTENDS DiffWorker, TLAPS, FiniteSetTheorems

---------------------------------------------------------------------------
(* The invariant the properties rest on. *)

\* An attempt for the newest request carries the newest trigger.
NewestTrigger ==
    /\ attempt.generation = requested => attempt.trigger = trigger
    /\ shown.generation = requested => shown.trigger = trigger

\* The attempt under way is not older than what is settled.
Working == pc \in {"load", "collect", "judge", "upload", "report", "mark"}
AttemptAhead == Working => attempt.generation >= settled

\* Nothing is settled that the control plane was not shown, with the exceptions
\* the worker's error paths make.
Heard ==
    \/ unheard \/ unsupported
    \/ /\ shown.generation >= settled
       /\ pc = "mark" => shown.generation = attempt.generation

\* A capture that is still the newest was begun after every prompt whose request
\* it answers, and if it overlapped a prompt, that prompt's request is to come.
Unrequested(p) == promptPc[p] \in {"running", "finished"}
Sound(generation, o, b) ==
    generation = requested =>
        /\ b \subseteq Terminated
        /\ \A p \in Prompts : promptPc[p] \in {"wake", "done"} => p \in b
        /\ o => \E p \in Prompts : Unrequested(p)
CapturesSound ==
    \/ Refuses
    \/ /\ pc \in {"collect", "judge", "upload"} => Sound(attempt.generation, overlap, before)
       /\ ~shown.failed => Sound(shown.generation, shown.overlap, shown.before)

FailureShowsNothing == shown.failed => ~shown.overlap

CaptureInv ==
    /\ NewestTrigger /\ AttemptAhead /\ Heard /\ CapturesSound /\ FailureShowsNothing

USE DEF requestVars, gateVars, endVars, localVars, callerVars, historyVars, othersVars

\* What a request names is a trigger.
LEMMA TriggersType ==
    /\ ControlPlane \in Triggers
    /\ \A p \in Prompts : TriggerOf(p) \in Triggers
BY DEF Triggers

\* What an attempt makes the control plane show is of the type of shown.
LEMMA ShownTyped ==
    ASSUME TypeOK, NEW f \in BOOLEAN, NEW o \in BOOLEAN, NEW b \in SUBSET Prompts
    PROVE  Shown(attempt, f, o, b) \in ShownType
<1>1. attempt.generation \in 0..requested /\ attempt.trigger \in Triggers
  BY DEF TypeOK
<1>. QED
  BY <1>1 DEF Shown, ShownType

\* The types are inductive on their own.
LEMMA TypeStep ==
    ASSUME TypeOK, [Next]_vars PROVE TypeOK'
<1> USE DEF TypeOK, ShownType
<1>1. ASSUME NEW p \in Prompts, PromptStarted(p) PROVE TypeOK'
  BY <1>1 DEF PromptStarted
<1>2. ASSUME NEW p \in Prompts, PromptFinished(p) PROVE TypeOK'
  BY <1>2 DEF PromptFinished, PromptFinishedWith
<1>3. ASSUME NEW p \in Prompts, PromptRequest(p) PROVE TypeOK'
  BY <1>3, TriggersType DEF PromptRequest, Bump
<1>4. ASSUME NEW p \in Prompts, PromptWake(p) PROVE TypeOK'
  BY <1>4 DEF PromptWake
<1>5. CASE RefreshDiff
  BY <1>5, TriggersType DEF RefreshDiff, Bump
<1>6. CASE RefreshWake
  BY <1>6 DEF RefreshWake, RefreshWakeWith
<1>7. CASE Shutdown
  <2> USE DEF Shutdown
  <2>1. CASE ~ctxDone /\ ctxDone' = TRUE /\ UNCHANGED <<closed, workDone, closer, wake>>
    BY <1>7, <2>1
  <2>2. CASE closed' = TRUE /\ closer' = "wake" /\ UNCHANGED <<ctxDone, workDone, wake>>
    BY <1>7, <2>2
  <2>3. CASE wake' = TRUE /\ closer' = "wait" /\ UNCHANGED <<closed, ctxDone, workDone>>
    BY <1>7, <2>3
  <2>4. CASE workDone' = TRUE /\ closer' = "done" /\ UNCHANGED <<closed, ctxDone, wake>>
    BY <1>7, <2>4
  <2>. QED
    BY <1>7, <2>1, <2>2, <2>3, <2>4 DEF Ending
<1>8. CASE Select \/ CheckPending \/ CheckStopped \/ WaitIdle \/ RecheckIdle \/ Judge
  <2>1. CASE pc' \in Places /\ UNCHANGED <<othersVars, localVars, historyVars, settled,
                                           unsupported>> /\ wake' \in BOOLEAN
    BY <2>1
  <2>2. wake' \in {wake, FALSE} /\ UNCHANGED <<othersVars, localVars, historyVars, settled,
                                               unsupported>>
    BY <1>8 DEF Select, CheckPending, CheckStopped, WaitIdle, RecheckIdle, Judge, Goto
  <2>3. pc' \in Places
    BY <1>8 DEF Select, CheckPending, CheckStopped, WaitIdle, RecheckIdle, Judge, Goto, Places
  <2>. QED
    BY <2>1, <2>2, <2>3
<1>9. CASE ReadIdle
  BY <1>9 DEF ReadIdle, Places
<1>10. CASE Snapshot
  BY <1>10 DEF Snapshot, SnapshotWith, Places
<1>11. CASE LoadManifest
  <2>1. /\ UNCHANGED <<othersVars, waitingOn, attempt, shown, settled, unsupported, wake>>
        /\ pc' \in Places /\ result' \in {"empty", result}
    BY <1>11 DEF LoadManifest, Places
  <2>2. unheard' \in BOOLEAN /\ overlap' \in BOOLEAN
    BY <1>11 DEF LoadManifest
  <2>3. before' \in SUBSET Prompts
    BY <1>11 DEF LoadManifest, Terminated
  <2>. QED
    BY <2>1, <2>2, <2>3
<1>12. CASE Collect
  BY <1>12 DEF Collect, CollectOn, Places
<1>13. CASE Upload
  <2> HIDE DEF ShownType
  <2>1. UNCHANGED <<othersVars, localVars, overlap, before, unheard, settled, wake>>
    BY <1>13 DEF Upload
  <2>2. pc' \in Places /\ unsupported' \in BOOLEAN
    BY <1>13 DEF Upload, Places
  <2>3. \/ shown' = shown
        \/ shown' = Shown(attempt, FALSE, overlap, before)
    BY <1>13 DEF Upload
  <2>4. shown' \in ShownType'
    <3>1. ShownType' = ShownType
      BY <2>1 DEF ShownType
    <3>. QED
      BY <2>3, <3>1, ShownTyped
  <2>. QED
    BY <2>1, <2>2, <2>4
<1>14. CASE Report
  <2> HIDE DEF ShownType
  <2>1. UNCHANGED <<othersVars, localVars, overlap, before, settled, wake>>
    BY <1>14 DEF Report
  <2>2. pc' \in Places /\ unsupported' \in BOOLEAN /\ unheard' \in BOOLEAN
    BY <1>14 DEF Report, Places
  <2>3. \/ shown' = shown
        \/ shown' = Shown(attempt, TRUE, FALSE, {})
    BY <1>14 DEF Report
  <2>4. shown' \in ShownType'
    <3>1. ShownType' = ShownType
      BY <2>1 DEF ShownType
    <3>. QED
      BY <2>3, <3>1, ShownTyped
  <2>. QED
    BY <2>1, <2>2, <2>4
<1>15. CASE MarkSettled
  BY <1>15 DEF MarkSettled, MarkSettledAt, Places
<1>16. CASE UNCHANGED vars
  BY <1>16 DEF vars
<1>. QED
  BY <1>1, <1>2, <1>3, <1>4, <1>5, <1>6, <1>7, <1>8, <1>9, <1>10, <1>11, <1>12, <1>13,
     <1>14, <1>15, <1>16 DEF Next, WorkerStep, PromptEnds

\* The state stays within its types: in particular settled never passes
\* requested, and no attempt names a generation that was not requested.
THEOREM TypeCorrect == Spec => []TypeOK
<1>1. Init => TypeOK
  <2> SUFFICES ASSUME Init PROVE TypeOK
    OBVIOUS
  <2>1. attempt \in [generation : 0..requested, activity : 0..activity, trigger : Triggers]
    BY TriggersType DEF Init, NoAttempt
  <2>2. shown \in ShownType
    BY TriggersType DEF Init, NothingShown, Shown, ShownType, NoAttempt
  <2>3. /\ requested \in Nat /\ settled \in 0..requested /\ activity \in Nat /\ active \in Nat
        /\ idle \in Nat /\ closedIdle \in SUBSET (0..idle) /\ waitingOn \in 0..idle
        /\ refreshes \in Nat /\ trigger \in Triggers
    BY TriggersType DEF Init
  <2>4. /\ pc \in Places /\ result \in {"none", "empty", "bundle", "error"}
        /\ promptPc \in [Prompts -> {"new", "running", "finished", "wake", "done"}]
        /\ reader \in {"ready", "wake"} /\ closer \in {"run", "wake", "wait", "done"}
        /\ before \in SUBSET Prompts
    BY DEF Init, Places
  <2>5. /\ unsupported \in BOOLEAN /\ closed \in BOOLEAN /\ wake \in BOOLEAN
        /\ ctxDone \in BOOLEAN /\ workDone \in BOOLEAN /\ panicked \in BOOLEAN
        /\ overlap \in BOOLEAN /\ unheard \in BOOLEAN
    BY DEF Init
  <2>. QED
    BY <2>1, <2>2, <2>3, <2>4, <2>5 DEF TypeOK
<1>2. TypeOK /\ [Next]_vars => TypeOK'
  BY TypeStep
<1>. QED
  BY <1>1, <1>2, PTL DEF Spec

---------------------------------------------------------------------------
(* The idle gate. *)

\* A step that starts and ends no prompt leaves the gate as it is.
LEMMA GateUntouched ==
    ASSUME IdleGate, UNCHANGED gateVars, Executing' = Executing
    PROVE  IdleGate'
BY DEF IdleGate

\* Only finitely many prompts execute at a time.
LEMMA ExecutingFinite == IsFiniteSet(Executing)
<1>1. Executing \subseteq Prompts
  BY DEF Executing
<1>. QED
  BY <1>1, PromptsAssumption, FS_Subset

\* Every step keeps the gate true to the number of executing prompts.
LEMMA GateStep ==
    ASSUME TypeOK, IdleGate, [Next]_vars PROVE IdleGate'
<1>1. ASSUME NEW p \in Prompts, PromptStarted(p) PROVE IdleGate'
  <2>1. p \notin Executing /\ Executing' = Executing \cup {p}
    BY <1>1 DEF PromptStarted, Executing, TypeOK
  <2>2. active = Cardinality(Executing) /\ Cardinality(Executing') = Cardinality(Executing) + 1
    BY <2>1, ExecutingFinite, FS_AddElement DEF IdleGate
  <2>3. active' = active + 1 /\ active \in Nat /\ closedIdle' = closedIdle /\ panicked' = panicked
        /\ idle' = IF active = 0 THEN idle + 1 ELSE idle
    BY <1>1 DEF PromptStarted, TypeOK
  <2>4. idle' \notin closedIdle'
    BY <2>3 DEF TypeOK, IdleGate
  <2>. QED
    BY <2>2, <2>3, <2>4 DEF IdleGate
<1>2. ASSUME NEW p \in Prompts, PromptFinished(p) PROVE IdleGate'
  <2>1. p \in Executing /\ Executing' = Executing \ {p}
    BY <1>2 DEF PromptFinished, PromptFinishedWith, Executing, TypeOK
  <2>2. /\ active = Cardinality(Executing)
        /\ Cardinality(Executing') = Cardinality(Executing) - 1
        /\ active \in Nat
        /\ Cardinality(Executing') \in Nat
    <3>1. IsFiniteSet(Executing')
      BY <2>1, ExecutingFinite, FS_Subset
    <3>2. Cardinality(Executing') \in Nat
      BY <3>1, FS_CardinalityType
    <3>. QED
      BY <2>1, <3>2, ExecutingFinite, FS_RemoveElement DEF IdleGate, TypeOK
  <2>3. active # 0
    BY <2>2
  <2>4. /\ active' = active - 1 /\ idle' = idle
        /\ panicked' = (panicked \/ (active = 1 /\ idle \in closedIdle))
        /\ closedIdle' = IF active = 1 THEN closedIdle \cup {idle} ELSE closedIdle
    BY <1>2, <2>3 DEF PromptFinished, PromptFinishedWith
  <2>5. idle \notin closedIdle /\ ~panicked
    BY <2>3 DEF IdleGate
  <2>6. active' = Cardinality(Executing')
    BY <2>1, <2>2, <2>4
  <2>7. (idle' \in closedIdle') <=> (active' = 0)
    BY <2>2, <2>4, <2>5
  <2>8. ~panicked'
    BY <2>4, <2>5
  <2>. QED
    BY <2>6, <2>7, <2>8 DEF IdleGate
<1>3. ASSUME NEW p \in Prompts, PromptRequest(p) \/ PromptWake(p) PROVE IdleGate'
  BY <1>3, GateUntouched DEF PromptRequest, PromptWake, Executing, TypeOK
<1>4. CASE RefreshDiff \/ RefreshWake \/ Shutdown \/ WorkerStep \/ UNCHANGED vars
  <2>1. UNCHANGED <<gateVars, promptPc>>
    BY <1>4 DEF RefreshDiff, RefreshWake, RefreshWakeWith, Shutdown, WorkerStep, Select,
                CheckPending, CheckStopped, ReadIdle, WaitIdle, RecheckIdle, Snapshot,
                SnapshotWith, LoadManifest, Collect, CollectOn, Judge, Upload, Report,
                MarkSettled, MarkSettledAt, Goto, vars
  <2>. QED
    BY <2>1, GateUntouched DEF Executing
<1>. QED
  BY <1>1, <1>2, <1>3, <1>4 DEF Next, PromptEnds

\* The gate the worker waits at is open exactly while no prompt executes, and
\* PromptFinished never closes a channel twice.
THEOREM GateCorrect == Spec => []IdleGate
<1>1. Init => IdleGate
  <2>1. Init => Executing = {}
    BY DEF Init, Executing
  <2>. QED
    BY <2>1, FS_EmptySet DEF Init, IdleGate
<1>2. TypeOK /\ IdleGate /\ [Next]_vars => IdleGate'
  BY GateStep
<1>. QED
  BY <1>1, <1>2, TypeCorrect, PTL DEF Spec

---------------------------------------------------------------------------
(* No lost wake-up. *)

\* Every step keeps the token of a due refresh where the worker will find it.
LEMMA WakeStep ==
    ASSUME TypeOK, NoLostWakeup, [Next]_vars PROVE NoLostWakeup'
<1> USE DEF NoLostWakeup, WakeComing, Pending
<1>1. ASSUME NEW p \in Prompts, PromptStarted(p) \/ PromptFinished(p) PROVE NoLostWakeup'
  <2>1. UNCHANGED <<requested, settled, unsupported, closed, wake, reader, pc>>
    BY <1>1 DEF PromptStarted, PromptFinished, PromptFinishedWith
  <2>2. \A q \in Prompts : promptPc[q] = "wake" => promptPc'[q] = "wake"
    BY <1>1 DEF PromptStarted, PromptFinished, PromptFinishedWith, TypeOK
  <2>. QED
    BY <2>1, <2>2
<1>2. ASSUME NEW p \in Prompts, PromptRequest(p) PROVE NoLostWakeup'
  <2>1. CASE Refuses /\ promptPc' = [promptPc EXCEPT ![p] = "done"] /\ UNCHANGED requestVars
    BY <1>2, <2>1 DEF PromptRequest, Refuses
  <2>2. CASE promptPc' = [promptPc EXCEPT ![p] = "wake"]
    BY <1>2, <2>2 DEF PromptRequest, TypeOK
  <2>. QED
    BY <1>2, <2>1, <2>2 DEF PromptRequest
<1>3. ASSUME NEW p \in Prompts, PromptWake(p) PROVE NoLostWakeup'
  BY <1>3 DEF PromptWake
<1>4. CASE RefreshDiff
  <2>1. UNCHANGED <<settled, unsupported, closed, wake, promptPc, pc>>
    BY <1>4 DEF RefreshDiff
  <2>2. \/ UNCHANGED <<requested, reader>>
        \/ reader' = "wake"
    BY <1>4 DEF RefreshDiff
  <2>. QED
    BY <2>1, <2>2
<1>5. CASE RefreshWake
  BY <1>5 DEF RefreshWake, RefreshWakeWith
<1>6. CASE Shutdown
  <2>1. UNCHANGED <<requested, settled, unsupported, reader, promptPc, pc>>
    BY <1>6 DEF Shutdown
  <2>2. \/ (closed \/ ~closed') /\ UNCHANGED wake
        \/ closed'
        \/ wake'
    BY <1>6 DEF Shutdown, Ending
  <2>3. wake => wake'
    BY <1>6 DEF Shutdown, Ending
  <2>4. closed => closed'
    BY <1>6 DEF Shutdown, Ending, TypeOK
  <2>. QED
    BY <2>1, <2>2, <2>3, <2>4
<1>7. CASE CheckPending
  BY <1>7 DEF CheckPending, Goto
<1>8. CASE CheckStopped
  BY <1>8 DEF CheckStopped, Goto
<1>9. CASE UNCHANGED vars
  BY <1>9 DEF vars
<1>10. CASE WorkerStep /\ ~CheckPending /\ ~CheckStopped
  <2>1. pc' \notin {"stopped", "select"}
    BY <1>10 DEF WorkerStep, Select, ReadIdle, WaitIdle, RecheckIdle, Snapshot, SnapshotWith,
                 LoadManifest, Collect, CollectOn, Judge, Upload, Report, MarkSettled,
                 MarkSettledAt, Goto
  <2>. QED
    BY <2>1
<1>. QED
  BY <1>1, <1>2, <1>3, <1>4, <1>5, <1>6, <1>7, <1>8, <1>9, <1>10
  DEF Next, PromptEnds, WorkerStep

\* A refresh that is due never finds the worker asleep without a token in the
\* wake channel, or a caller about to put it there.
THEOREM NoWakeupLost == Spec => []NoLostWakeup
<1>1. Init => NoLostWakeup
  BY DEF Init, NoLostWakeup, Pending
<1>2. TypeOK /\ NoLostWakeup /\ [Next]_vars => NoLostWakeup'
  BY WakeStep
<1>. QED
  BY <1>1, <1>2, TypeCorrect, PTL DEF Spec

---------------------------------------------------------------------------
(* The capture invariant. *)

\* While no request is made and no prompt moves back, a sound capture stays so.
PromptsAdvance ==
    \A q \in Prompts :
        /\ promptPc[q] \in {"finished", "wake", "done"} => promptPc'[q] \in {"finished", "wake", "done"}
        /\ promptPc'[q] \in {"wake", "done"} => promptPc[q] \in {"wake", "done"}
        /\ Unrequested(q) => promptPc'[q] \in {"running", "finished"}

LEMMA SoundKept ==
    ASSUME PromptsAdvance, requested' = requested, NEW g, NEW o, NEW b, Sound(g, o, b)
    PROVE  requested' = g =>
             /\ b \subseteq Terminated'
             /\ \A q \in Prompts : promptPc'[q] \in {"wake", "done"} => q \in b
             /\ o => \E q \in Prompts : promptPc'[q] \in {"running", "finished"}
BY DEF Sound, PromptsAdvance, Terminated, Unrequested

\* A step of a caller that makes no request, and does not spoil a capture.
LEMMA CallerStep ==
    ASSUME CaptureInv, PromptsAdvance,
           UNCHANGED <<requestVars, attempt, historyVars, settled, unsupported, pc>>,
           closed => closed'
    PROVE  CaptureInv'
<1>1. (NewestTrigger /\ AttemptAhead /\ Heard /\ FailureShowsNothing)'
  BY DEF CaptureInv, NewestTrigger, AttemptAhead, Working, Heard, FailureShowsNothing
<1>2. CapturesSound'
  BY SoundKept DEF CaptureInv, CapturesSound, Sound, Refuses, Unrequested
<1>. QED
  BY <1>1, <1>2 DEF CaptureInv

\* A request makes every attempt and every capture an old one.
LEMMA BumpStep ==
    ASSUME TypeOK, CaptureInv, NEW t \in Triggers, Bump(t),
           UNCHANGED <<attempt, historyVars, settled, unsupported, closed, pc>>
    PROVE  CaptureInv'
<1>1. requested' # attempt'.generation /\ requested' # shown'.generation
  BY DEF Bump, TypeOK, ShownType
<1>2. (AttemptAhead /\ Heard /\ FailureShowsNothing)'
  BY DEF CaptureInv, AttemptAhead, Working, Heard, FailureShowsNothing
<1>3. NewestTrigger' /\ CapturesSound'
  BY <1>1 DEF NewestTrigger, CapturesSound, Sound
<1>. QED
  BY <1>2, <1>3 DEF CaptureInv

\* A step of the worker that changes no more than its place and its wake token.
LEMMA MoveStep ==
    ASSUME CaptureInv,
           UNCHANGED <<othersVars, attempt, historyVars, settled, unsupported>>,
           pc' \in {"load", "collect", "judge", "upload", "report", "mark"} =>
               pc \in {"load", "collect", "judge", "upload", "report", "mark"},
           pc' \in {"collect", "judge", "upload"} => pc \in {"collect", "judge", "upload"},
           pc' # "mark"
    PROVE  CaptureInv'
<1>1. (NewestTrigger /\ AttemptAhead /\ Heard /\ FailureShowsNothing)'
  BY DEF CaptureInv, NewestTrigger, AttemptAhead, Working, Heard, FailureShowsNothing
<1>2. CapturesSound'
  BY DEF CaptureInv, CapturesSound, Sound, Refuses, Unrequested, Terminated
<1>. QED
  BY <1>1, <1>2 DEF CaptureInv

\* Every step keeps the capture invariant.
LEMMA CaptureStep ==
    ASSUME TypeOK, CaptureInv, [Next]_vars PROVE CaptureInv'
<1> USE DEF CaptureInv
<1>1. ASSUME NEW p \in Prompts, PromptStarted(p) PROVE CaptureInv'
  <2>1. UNCHANGED <<requestVars, attempt, before, shown, unheard, settled, unsupported, closed, pc>>
    BY <1>1 DEF PromptStarted
  <2>2. PromptsAdvance /\ promptPc'[p] = "running"
    BY <1>1 DEF PromptStarted, PromptsAdvance, Unrequested, TypeOK
  <2>3. (NewestTrigger /\ AttemptAhead /\ Heard /\ FailureShowsNothing)'
    BY <2>1 DEF NewestTrigger, AttemptAhead, Working, Heard, FailureShowsNothing
  <2>4. CapturesSound'
    BY <2>1, <2>2, SoundKept DEF CapturesSound, Sound, Refuses, Unrequested
  <2>. QED
    BY <2>3, <2>4
<1>2. ASSUME NEW p \in Prompts, PromptFinished(p) PROVE CaptureInv'
  <2>1. PromptsAdvance
    BY <1>2 DEF PromptFinished, PromptFinishedWith, PromptsAdvance, Unrequested, TypeOK
  <2>. QED
    BY <1>2, <2>1, CallerStep DEF PromptFinished, PromptFinishedWith
<1>3. ASSUME NEW p \in Prompts, PromptRequest(p) PROVE CaptureInv'
  <2>1. CASE Refuses /\ UNCHANGED requestVars
    <3>1. UNCHANGED <<requestVars, attempt, historyVars, settled, unsupported, closed, pc>>
      BY <1>3, <2>1 DEF PromptRequest
    <3>2. (NewestTrigger /\ AttemptAhead /\ Heard /\ FailureShowsNothing)'
      BY <3>1 DEF NewestTrigger, AttemptAhead, Working, Heard, FailureShowsNothing
    <3>3. CapturesSound'
      BY <2>1, <3>1 DEF CapturesSound, Refuses
    <3>. QED
      BY <3>2, <3>3
  <2>2. CASE Bump(TriggerOf(p))
    BY <1>3, <2>2, BumpStep, TriggersType DEF PromptRequest
  <2>. QED
    BY <1>3, <2>1, <2>2 DEF PromptRequest
<1>4. ASSUME NEW p \in Prompts, PromptWake(p) PROVE CaptureInv'
  <2>1. PromptsAdvance
    BY <1>4 DEF PromptWake, PromptsAdvance, Unrequested, TypeOK
  <2>. QED
    BY <1>4, <2>1, CallerStep DEF PromptWake
<1>5. PromptsAdvance \/ promptPc' # promptPc
  BY DEF PromptsAdvance, Unrequested
<1>6. CASE RefreshDiff
  <2>1. CASE UNCHANGED <<requestVars, reader>>
    BY <1>5, <1>6, <2>1, CallerStep DEF RefreshDiff
  <2>2. CASE Bump(ControlPlane)
    BY <1>6, <2>2, BumpStep, TriggersType DEF RefreshDiff
  <2>. QED
    BY <1>6, <2>1, <2>2 DEF RefreshDiff
<1>7. CASE RefreshWake
  BY <1>5, <1>7, CallerStep DEF RefreshWake, RefreshWakeWith
<1>8. CASE Shutdown
  <2>1. closed => closed'
    BY <1>8 DEF Shutdown, Ending, TypeOK
  <2>. QED
    BY <1>5, <1>8, <2>1, CallerStep DEF Shutdown
<1>9. CASE Select \/ CheckPending \/ CheckStopped \/ ReadIdle \/ WaitIdle \/ RecheckIdle
           \/ Collect \/ Judge
  <2>1. /\ UNCHANGED <<othersVars, attempt, historyVars, settled, unsupported>>
        /\ \/ pc' \notin {"load", "collect", "judge", "upload", "report", "mark"}
           \/ pc = "collect" /\ pc' = "judge"
           \/ pc = "judge" /\ pc' \in {"upload", "report"}
    BY <1>9 DEF Select, CheckPending, CheckStopped, ReadIdle, WaitIdle, RecheckIdle, Collect,
                CollectOn, Judge, Goto
  <2>. QED
    BY <2>1, MoveStep
<1>10. CASE Snapshot
  <2>1. /\ attempt' = [generation |-> requested, activity |-> activity, trigger |-> trigger]
        /\ UNCHANGED <<othersVars, historyVars, settled, unsupported>>
        /\ pc' = "load"
    BY <1>10 DEF Snapshot, SnapshotWith
  <2>2. attempt'.generation = requested /\ attempt'.trigger = trigger
    BY <2>1
  <2>3. (NewestTrigger /\ AttemptAhead /\ Heard /\ FailureShowsNothing)'
    BY <2>1, <2>2 DEF NewestTrigger, AttemptAhead, Working, Heard, FailureShowsNothing, TypeOK
  <2>4. CapturesSound'
    BY <2>1 DEF CapturesSound, Sound, Refuses, Unrequested, Terminated
  <2>. QED
    BY <2>3, <2>4
<1>11. CASE LoadManifest
  <2>1. UNCHANGED <<othersVars, attempt, shown, settled, unsupported>> /\ pc = "load"
    BY <1>11 DEF LoadManifest
  <2>2. \/ pc' = "mark" /\ unheard'
        \/ /\ pc' = "collect" /\ UNCHANGED unheard
           /\ overlap' = (Executing # {}) /\ before' = Terminated
    BY <1>11 DEF LoadManifest
  <2>3. (NewestTrigger /\ AttemptAhead /\ Heard /\ FailureShowsNothing)'
    BY <2>1, <2>2 DEF NewestTrigger, AttemptAhead, Working, Heard, FailureShowsNothing
  <2>4. pc' = "collect" => Sound(attempt.generation, overlap, before)'
    BY <2>1, <2>2 DEF Sound, Unrequested, Terminated, Executing
  <2>5. CapturesSound'
    BY <2>1, <2>2, <2>4 DEF CapturesSound, Sound, Refuses, Unrequested, Terminated
  <2>. QED
    BY <2>3, <2>5
<1>12. CASE Upload
  <2>1. /\ UNCHANGED <<othersVars, attempt, overlap, before, unheard, settled>>
        /\ pc = "upload" /\ pc' \in {"exited", "mark", "report"}
        /\ unsupported => unsupported'
    <3>1. UNCHANGED unsupported \/ unsupported' = TRUE
      BY <1>12 DEF Upload
    <3>2. pc' \in {"exited", "mark", "report"}
      BY <1>12 DEF Upload
    <3>3. unsupported => unsupported'
      BY <3>1
    <3>. QED
      BY <1>12, <3>2, <3>3 DEF Upload
  <2>2. \/ shown' = shown /\ (pc' = "mark" => unsupported')
        \/ shown' = Shown(attempt, FALSE, overlap, before)
    BY <1>12 DEF Upload
  <2>3. (NewestTrigger /\ AttemptAhead /\ Heard /\ FailureShowsNothing)'
    BY <2>1, <2>2 DEF NewestTrigger, AttemptAhead, Working, Heard, FailureShowsNothing, Shown,
                      TypeOK, ShownType
  <2>4. CapturesSound'
    BY <2>1, <2>2 DEF CapturesSound, Sound, Refuses, Unrequested, Terminated, Shown
  <2>. QED
    BY <2>3, <2>4
<1>13. CASE Report
  <2>1. /\ UNCHANGED <<othersVars, attempt, overlap, before, settled>>
        /\ pc = "report" /\ pc' = "mark"
        /\ unsupported => unsupported'
        /\ unheard => unheard'
    <3>1. /\ UNCHANGED unsupported \/ unsupported' = TRUE
          /\ UNCHANGED unheard \/ unheard' = TRUE
      BY <1>13 DEF Report
    <3>. QED
      BY <1>13, <3>1 DEF Report
  <2>2. \/ shown' = shown /\ (unsupported' \/ unheard')
        \/ shown' = Shown(attempt, TRUE, FALSE, {})
    BY <1>13 DEF Report
  <2>3. (NewestTrigger /\ AttemptAhead /\ Heard /\ FailureShowsNothing)'
    BY <2>1, <2>2 DEF NewestTrigger, AttemptAhead, Working, Heard, FailureShowsNothing, Shown,
                      TypeOK, ShownType
  <2>4. CapturesSound'
    BY <2>1, <2>2 DEF CapturesSound, Sound, Refuses, Unrequested, Terminated, Shown
  <2>. QED
    BY <2>3, <2>4
<1>14. CASE MarkSettled
  <2>1. /\ UNCHANGED <<othersVars, attempt, historyVars, unsupported>>
        /\ pc = "mark" /\ pc' \in {"exited", "pending"}
        /\ settled' = IF attempt.generation > settled THEN attempt.generation ELSE settled
    BY <1>14 DEF MarkSettled, MarkSettledAt
  <2>2. (NewestTrigger /\ AttemptAhead /\ Heard /\ FailureShowsNothing)'
    BY <2>1 DEF NewestTrigger, AttemptAhead, Working, Heard, FailureShowsNothing, TypeOK, ShownType
  <2>3. CapturesSound'
    BY <2>1 DEF CapturesSound, Sound, Refuses, Unrequested, Terminated
  <2>. QED
    BY <2>2, <2>3
<1>15. CASE UNCHANGED vars
  BY <1>5, <1>15, CallerStep DEF vars
<1>. QED
  BY <1>1, <1>2, <1>3, <1>4, <1>6, <1>7, <1>8, <1>9, <1>10, <1>11, <1>12, <1>13, <1>14, <1>15
  DEF Next, WorkerStep, PromptEnds

\* What is shown, and what is being captured, is sound whenever it is the newest.
THEOREM CapturesCorrect == Spec => []CaptureInv
<1>1. Init => CaptureInv
  BY DEF Init, CaptureInv, NewestTrigger, AttemptAhead, Working, Heard, CapturesSound,
         FailureShowsNothing, Sound, NothingShown, NoAttempt, Shown, Refuses
<1>2. TypeOK /\ CaptureInv /\ [Next]_vars => CaptureInv'
  BY CaptureStep
<1>. QED
  BY <1>1, <1>2, TypeCorrect, PTL DEF Spec

\* Once everything is quiet the control plane shows the session as it is.
THEOREM CurrentOnceQuiet == Spec => []CurrentWhenQuiet
<1>1. TypeOK /\ NoLostWakeup /\ CaptureInv => CurrentWhenQuiet
  <2> SUFFICES ASSUME TypeOK, NoLostWakeup, CaptureInv, Quiet
               PROVE  /\ shown.generation = requested
                      /\ requested > 0 => shown.trigger = trigger
                      /\ ~shown.failed => ~shown.overlap /\ shown.before = Terminated
    BY DEF CurrentWhenQuiet
  <2>1. ~Pending
    BY DEF NoLostWakeup, WakeComing, Quiet
  <2>2. shown.generation = requested
    BY <2>1 DEF Pending, Quiet, TypeOK, ShownType, CaptureInv, Heard
  <2>3. shown.trigger = trigger
    BY <2>2 DEF CaptureInv, NewestTrigger
  <2>4. ASSUME ~shown.failed PROVE ~shown.overlap /\ shown.before = Terminated
    <3>1. Sound(shown.generation, shown.overlap, shown.before)
      BY <2>4 DEF CaptureInv, CapturesSound, Refuses, Quiet
    <3>. QED
      BY <2>2, <3>1 DEF Sound, Quiet, Terminated, Unrequested
  <2>. QED
    BY <2>2, <2>3, <2>4
<1>. QED
  BY <1>1, TypeCorrect, NoWakeupLost, CapturesCorrect, PTL

\* A capture that overlapped a prompt is never the last word.
THEOREM SpoiltCapturesSuperseded == Spec => []SpoiltCaptureIsSuperseded
<1>1. TypeOK /\ CaptureInv => SpoiltCaptureIsSuperseded
  <2> SUFFICES ASSUME TypeOK, CaptureInv, shown.overlap, ~Refuses, ~unheard, ~(settled < requested)
               PROVE  \E p \in Prompts : promptPc[p] \in {"running", "finished"}
    BY DEF SpoiltCaptureIsSuperseded
  <2>1. shown.generation = requested
    BY DEF TypeOK, ShownType, CaptureInv, Heard, Refuses
  <2>2. Sound(shown.generation, shown.overlap, shown.before)
    BY DEF CaptureInv, CapturesSound, FailureShowsNothing
  <2>. QED
    BY <2>1, <2>2 DEF Sound, Unrequested
<1>. QED
  BY <1>1, TypeCorrect, CapturesCorrect, PTL

\* What the viewer is left with is the newest state, or about to be replaced.
THEOREM ShownCurrent == Spec => []ShownIsCurrent
BY CurrentOnceQuiet, SpoiltCapturesSuperseded, PTL DEF ShownIsCurrent

---------------------------------------------------------------------------
(* Action properties. *)

\* An unsupported worker is past every place where it could tell anything.
Muted == unsupported => pc \in {"select", "pending", "stopped", "mark", "exited"}

\* Once the control plane answered "unsupported", it is told nothing more.
THEOREM SilenceKept == Spec => SilentOnceUnsupported
<1>1. Init => Muted
  BY DEF Init, Muted
<1>2. TypeOK /\ Muted /\ [Next]_vars => Muted'
  <2> SUFFICES ASSUME TypeOK, Muted, [Next]_vars PROVE Muted'
    OBVIOUS
  <2>1. CASE WorkerStep
    BY <2>1 DEF Muted, Pending, WorkerStep, Select, CheckPending, CheckStopped, ReadIdle, WaitIdle,
                RecheckIdle, Snapshot, SnapshotWith, LoadManifest, Collect, CollectOn, Judge,
                Upload, Report, MarkSettled, MarkSettledAt, Goto, TypeOK
  <2>2. CASE ~WorkerStep
    <3>1. UNCHANGED <<unsupported, pc>>
      BY <2>2 DEF Next, PromptEnds, PromptStarted, PromptFinished, PromptFinishedWith,
                  PromptRequest, PromptWake, RefreshDiff, RefreshWake, RefreshWakeWith, Shutdown,
                  vars
    <3>. QED
      BY <3>1 DEF Muted
  <2>. QED
    BY <2>1, <2>2
<1>3. Muted /\ [Next]_vars => [unsupported => shown' = shown]_vars
  BY DEF Muted, Next, WorkerStep, PromptEnds, PromptStarted, PromptFinished, PromptFinishedWith,
         PromptRequest, PromptWake, RefreshDiff, RefreshWake, RefreshWakeWith, Shutdown, vars,
         Select, CheckPending, CheckStopped, ReadIdle, WaitIdle, RecheckIdle, Snapshot,
         SnapshotWith, LoadManifest, Collect, CollectOn, Judge, Upload, Report, MarkSettled,
         MarkSettledAt, Goto
<1>. QED
  BY <1>1, <1>2, <1>3, TypeCorrect, PTL DEF Spec, SilentOnceUnsupported

\* Only Close's end cancels the work.
WorkOutlivesContext == workDone => closer = "done"

\* A refresh under way is abandoned only after Close is over.
THEOREM InFlightSurvives == Spec => InFlightSurvivesShutdown
<1>1. Init => WorkOutlivesContext
  BY DEF Init, WorkOutlivesContext
<1>2. TypeOK /\ WorkOutlivesContext /\ [Next]_vars => WorkOutlivesContext'
  <2> SUFFICES ASSUME TypeOK, WorkOutlivesContext, [Next]_vars PROVE WorkOutlivesContext'
    OBVIOUS
  <2>1. CASE Shutdown
    BY <2>1 DEF Shutdown, Ending, ReadLoop, WorkOutlivesContext, TypeOK
  <2>2. CASE ~Shutdown
    <3>1. UNCHANGED endVars
      BY <2>2 DEF Next, WorkerStep, PromptEnds, PromptStarted, PromptFinished,
                  PromptFinishedWith, PromptRequest, PromptWake, RefreshDiff, RefreshWake,
                  RefreshWakeWith, vars, Select, CheckPending, CheckStopped, ReadIdle, WaitIdle,
                  RecheckIdle, Snapshot, SnapshotWith, LoadManifest, Collect, CollectOn, Judge,
                  Upload, Report, MarkSettled, MarkSettledAt, Goto
    <3>. QED
      BY <3>1 DEF WorkOutlivesContext
  <2>. QED
    BY <2>1, <2>2
<1>3. TypeOK /\ WorkOutlivesContext /\ [Next]_vars =>
        [(pc \in {"load", "collect", "judge", "upload", "report", "mark"} /\ pc' = "exited")
            => closer = "done"]_vars
  BY DEF WorkOutlivesContext, Next, WorkerStep, PromptEnds, PromptStarted, PromptFinished,
         PromptFinishedWith, PromptRequest, PromptWake, RefreshDiff, RefreshWake, RefreshWakeWith,
         Shutdown, vars, Select, CheckPending, CheckStopped, ReadIdle, WaitIdle, RecheckIdle,
         Snapshot, SnapshotWith, LoadManifest, Collect, CollectOn, Judge, Upload, Report,
         MarkSettled, MarkSettledAt, Goto
<1>. QED
  BY <1>1, <1>2, <1>3, TypeCorrect, PTL DEF Spec, InFlightSurvivesShutdown
=============================================================================
