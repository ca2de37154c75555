----------------------------- MODULE PromptProofs -----------------------------
(***************************************************************************)
(* Proofs about a prompt's life, for any set of prompts, any number of     *)
(* stops and restarts and any number of sessions; about its images, for    *)
(* any list and any order in which the downloads end; and about the        *)
(* composition of prompts with the event path.                             *)
(***************************************************************************)
EXTENDS Bridge, PromptParts, SortedProofs, TLAPS

---------------------------------------------------------------------------
(* The invariants the properties rest on. *)

\* The places of a prompt that was started and is not completed.
Pending == {"identity", "session", "create", "nameless", "save", "write", "attach", "stream",
            "endedErr", "complete"}

\* A prompt is completed by the time its goroutine asks for the refresh.
Completions ==
    \A p \in Prompts :
        /\ pc[p] \in {"ended", "request", "over"} => done[p] # <<>>
        /\ pc[p] \in Pending \cup {"new"} => done[p] = <<>>

\* Started prompts hold different generations.
Generations ==
    /\ \A p \in Prompts : Started(p) => genOf[p] <= gen
    /\ \A p, q \in Prompts : Started(p) /\ Started(q) /\ p # q => genOf[p] # genOf[q]

\* A prompt that handed its error on was cancelled.
EndedCancelled == \A p \in Prompts : pc[p] \in {"endedErr", "complete"} => CtxDone(p)

\* Where none overlapped, the pending prompt is the newest, and can be cancelled.
Newest ==
    ~overlapped => \A p \in Prompts : pc[p] \in Pending =>
        /\ genOf[p] = gen
        /\ run = "loop" => CtxDone(p) \/ cancelF = p

\* What a pending prompt knows of the session.
Session ==
    /\ sid # 0 => sid \in alive
    /\ ~overlapped => \A p \in Prompts :
          /\ pc[p] \in {"save", "write", "attach", "stream"} => sid # 0
          /\ pc[p] = "create" => sid = 0
          /\ pc[p] = "write" => local[p] = sid

USE DEF runVars, sessionVars, emitVars, startVars, eventVars

---------------------------------------------------------------------------
LEMMA AppendOne == ASSUME NEW o PROVE Append(<<>>, o) = <<o>>
OBVIOUS

LEMMA CompleteTyped ==
    ASSUME TypeOK, NEW p \in Prompts, NEW q \in Outcomes, done[p] = <<>>, Complete(p, q)
    PROVE done' \in [Prompts -> {<<>>} \cup {<<o>> : o \in Outcomes}]
<1>1. Append(<<>>, q) = <<q>>
  BY AppendOne
<1>. QED
  BY <1>1 DEF TypeOK, Complete

LEMMA TypeStep ==
    ASSUME TypeOK, Completions, [Next]_vars PROVE TypeOK'
<1> USE DEF TypeOK, Completions, Places, Outcomes, Pending
<1>1. ASSUME NEW p \in Prompts, StartPrompt(p) PROVE TypeOK'
  BY <1>1 DEF StartPrompt, InFlight, Started
<1>2. CASE HandleStop
  BY <1>2 DEF HandleStop, CancelPrompt
<1>3. CASE HandleShutdown
  BY <1>3 DEF HandleShutdown, CancelPrompt
<1>4. CASE Terminate
  BY <1>4 DEF Terminate
<1>5. CASE LeaveLoop
  BY <1>5 DEF LeaveLoop, CancelPrompt
<1>6. CASE Exit
  BY <1>6 DEF Exit
<1>7. ASSUME NEW p \in Prompts, ConfigureIdentity(p) PROVE TypeOK'
  <2>1. UNCHANGED done \/ \E o \in Outcomes : Complete(p, o)
    BY <1>7 DEF ConfigureIdentity, Step, Fail
  <2>2. done[p] = <<>>
    BY <1>7 DEF ConfigureIdentity, Step, Fail
  <2>3. done' \in [Prompts -> {<<>>} \cup {<<o>> : o \in Outcomes}]
    BY <2>1, <2>2, CompleteTyped
  <2>. QED
    BY <1>7, <2>3 DEF ConfigureIdentity, Step, Fail
<1>8. ASSUME NEW p \in Prompts, EnsureSession(p) PROVE TypeOK'
  BY <1>8 DEF EnsureSession, Step
<1>9. ASSUME NEW p \in Prompts, CreateSession(p) PROVE TypeOK'
  <2>1. UNCHANGED done \/ \E o \in Outcomes : Complete(p, o)
    BY <1>9 DEF CreateSession, Step, Fail
  <2>2. done[p] = <<>>
    BY <1>9 DEF CreateSession, Step, Fail
  <2>3. done' \in [Prompts -> {<<>>} \cup {<<o>> : o \in Outcomes}]
    BY <2>1, <2>2, CompleteTyped
  <2>4. created' \in Nat /\ sid' \in Nat /\ alive' \subseteq 1..created'
    <3>1. CASE UNCHANGED <<created, alive, sid>>
      BY <3>1
    <3>2. CASE created' = created + 1 /\ alive' = alive \cup {created + 1} /\ sid' \in {sid, 0, created + 1}
      BY <3>2
    <3>. QED
      BY <1>9, <3>1, <3>2 DEF CreateSession
  <2>5. pc' \in [Prompts -> Places]
    BY <1>9 DEF CreateSession, Step, Fail
  <2>6. UNCHANGED <<runVars, file, unsaved, startVars, cancelled, local, output, failed>>
    BY <1>9 DEF CreateSession
  <2>. QED
    BY <2>3, <2>4, <2>5, <2>6
<1>10. ASSUME NEW p \in Prompts, ReadIdToSave(p) PROVE TypeOK'
  BY <1>10 DEF ReadIdToSave, Step
<1>11. ASSUME NEW p \in Prompts, WriteId(p) PROVE TypeOK'
  <2>0. local[p] \in Nat /\ file \in Nat
    OBVIOUS
  <2>1. file' \in Nat /\ unsaved' \in BOOLEAN
    <3>1. CASE file' = local[p] /\ unsaved' = FALSE
      BY <2>0, <3>1
    <3>2. CASE file' \in {file, 0} /\ unsaved' = TRUE
      BY <2>0, <3>2
    <3>. QED
      BY <1>11, <3>1, <3>2 DEF WriteId
  <2>2. local' \in [Prompts -> Nat] /\ pc' \in [Prompts -> Places]
    BY <1>11 DEF WriteId, Step
  <2>. QED
    BY <1>11, <2>1, <2>2 DEF WriteId
<1>12. ASSUME NEW p \in Prompts, Attach(p) PROVE TypeOK'
  BY <1>12 DEF Attach, Step
<1>20. ASSUME NEW p \in Prompts, RefuseNameless(p) PROVE TypeOK'
  <2>1. UNCHANGED done \/ \E o \in Outcomes : Complete(p, o)
    BY <1>20 DEF RefuseNameless, Step, Fail
  <2>2. done[p] = <<>>
    BY <1>20 DEF RefuseNameless, Step, Fail
  <2>3. done' \in [Prompts -> {<<>>} \cup {<<o>> : o \in Outcomes}]
    BY <2>1, <2>2, CompleteTyped
  <2>. QED
    BY <1>20, <2>3 DEF RefuseNameless, Step, Fail
<1>13. ASSUME NEW p \in Prompts, StreamEnd(p) PROVE TypeOK'
  <2>1. UNCHANGED done \/ \E o \in Outcomes : Complete(p, o)
    BY <1>13 DEF StreamEnd, StreamEndWith, Step, Fail
  <2>2. done[p] = <<>>
    BY <1>13 DEF StreamEnd, StreamEndWith, Step, Fail
  <2>3. done' \in [Prompts -> {<<>>} \cup {<<o>> : o \in Outcomes}]
    BY <2>1, <2>2, CompleteTyped
  <2>. QED
    BY <1>13, <2>3 DEF StreamEnd, StreamEndWith, Step, Fail
<1>14. ASSUME NEW p \in Prompts, ClearPromptCancel(p) PROVE TypeOK'
  BY <1>14 DEF ClearPromptCancel, ClearWith, Step
<1>15. ASSUME NEW p \in Prompts, CompleteCancelled(p) PROVE TypeOK'
  <2>1. UNCHANGED done \/ \E o \in Outcomes : Complete(p, o)
    BY <1>15 DEF CompleteCancelled, Step
  <2>2. done[p] = <<>>
    BY <1>15 DEF CompleteCancelled, Step
  <2>3. done' \in [Prompts -> {<<>>} \cup {<<o>> : o \in Outcomes}]
    BY <2>1, <2>2, CompleteTyped
  <2>. QED
    BY <1>15, <2>3 DEF CompleteCancelled, Step
<1>16. ASSUME NEW p \in Prompts, RequestRefresh(p) PROVE TypeOK'
  BY <1>16 DEF RequestRefresh, Step
<1>17. ASSUME NEW p \in Prompts, Emit(p) PROVE TypeOK'
  BY <1>17 DEF Emit, Step
<1>18. CASE Restart
  <2>1. alive' \subseteq 1..created'
    BY <1>18 DEF Restart
  <2>2. sid' \in Nat
    BY <1>18 DEF Restart, Load, LoadWith
  <2>3. pc' \in [Prompts -> Places] /\ genOf' \in [Prompts -> Nat]
    BY <1>18 DEF Restart
  <2>4. run' \in {"loop"} /\ rootDone' = FALSE /\ cancelF' = NoPrompt /\ gen' = 0 /\ restarts' \in Nat
    BY <1>18 DEF Restart
  <2>5. UNCHANGED <<stops, file, created, unsaved, emitVars, cancelled, overlapped, local>>
    BY <1>18 DEF Restart
  <2>. QED
    BY <2>1, <2>2, <2>3, <2>4, <2>5
<1>19. CASE UNCHANGED vars
  BY <1>19 DEF vars
<1>. QED
  BY <1>1, <1>2, <1>3, <1>4, <1>5, <1>6, <1>7, <1>8, <1>9, <1>10, <1>11, <1>12, <1>13, <1>14, <1>15, <1>16, <1>17, <1>18, <1>19, <1>20 DEF Next, PromptStep

LEMMA CompletionsStep ==
    ASSUME TypeOK, Completions, [Next]_vars PROVE Completions'
<1> USE DEF TypeOK, Completions, Places, Outcomes, Pending
<1>1. ASSUME NEW p \in Prompts, StartPrompt(p) PROVE Completions'
  BY <1>1 DEF StartPrompt, InFlight, Started
<1>2. CASE HandleStop
  BY <1>2 DEF HandleStop, CancelPrompt
<1>3. CASE HandleShutdown
  BY <1>3 DEF HandleShutdown, CancelPrompt
<1>4. CASE Terminate
  BY <1>4 DEF Terminate
<1>5. CASE LeaveLoop
  BY <1>5 DEF LeaveLoop, CancelPrompt
<1>6. CASE Exit
  BY <1>6 DEF Exit
<1>7. ASSUME NEW p \in Prompts, ConfigureIdentity(p) PROVE Completions'
  BY <1>7, AppendOne DEF ConfigureIdentity, Step, Fail, Complete
<1>8. ASSUME NEW p \in Prompts, EnsureSession(p) PROVE Completions'
  BY <1>8 DEF EnsureSession, Step
<1>9. ASSUME NEW p \in Prompts, CreateSession(p) PROVE Completions'
  BY <1>9, AppendOne DEF CreateSession, Step, Fail, Complete
<1>10. ASSUME NEW p \in Prompts, ReadIdToSave(p) PROVE Completions'
  BY <1>10 DEF ReadIdToSave, Step
<1>11. ASSUME NEW p \in Prompts, WriteId(p) PROVE Completions'
  BY <1>11 DEF WriteId, Step
<1>12. ASSUME NEW p \in Prompts, Attach(p) PROVE Completions'
  BY <1>12 DEF Attach, Step
<1>20. ASSUME NEW p \in Prompts, RefuseNameless(p) PROVE Completions'
  BY <1>20, AppendOne DEF RefuseNameless, Step, Fail, Complete
<1>13. ASSUME NEW p \in Prompts, StreamEnd(p) PROVE Completions'
  <2>1. CASE Step(p, "stream", "endedErr") /\ UNCHANGED done
    BY <2>1 DEF Step
  <2>2. CASE Fail(p, "stream")
    BY <2>2, AppendOne DEF Step, Fail, Complete
  <2>3. CASE Step(p, "stream", "ended")
             /\ Complete(p, IF p \in output \ failed THEN "success" ELSE "failed")
    BY <2>3, AppendOne DEF Step, Complete
  <2>. QED
    BY <1>13, <2>1, <2>2, <2>3 DEF StreamEnd, StreamEndWith
<1>14. ASSUME NEW p \in Prompts, ClearPromptCancel(p) PROVE Completions'
  BY <1>14 DEF ClearPromptCancel, ClearWith, Step
<1>15. ASSUME NEW p \in Prompts, CompleteCancelled(p) PROVE Completions'
  BY <1>15, AppendOne DEF CompleteCancelled, Step, Complete
<1>16. ASSUME NEW p \in Prompts, RequestRefresh(p) PROVE Completions'
  BY <1>16 DEF RequestRefresh, Step
<1>17. ASSUME NEW p \in Prompts, Emit(p) PROVE Completions'
  BY <1>17 DEF Emit, Step
<1>18. CASE Restart
  BY <1>18 DEF Restart, Load, LoadWith
<1>19. CASE UNCHANGED vars
  BY <1>19 DEF vars
<1>. QED
  BY <1>1, <1>2, <1>3, <1>4, <1>5, <1>6, <1>7, <1>8, <1>9, <1>10, <1>11, <1>12, <1>13, <1>14, <1>15, <1>16, <1>17, <1>18, <1>19, <1>20 DEF Next, PromptStep

LEMMA GenerationsStep ==
    ASSUME TypeOK, Generations, [Next]_vars PROVE Generations'
<1> USE DEF TypeOK, Generations, Places, Started
<1>1. ASSUME NEW p \in Prompts, StartPrompt(p) PROVE Generations'
  BY <1>1 DEF StartPrompt, InFlight, Started
<1>2. CASE HandleStop
  BY <1>2 DEF HandleStop, CancelPrompt
<1>3. CASE HandleShutdown
  BY <1>3 DEF HandleShutdown, CancelPrompt
<1>4. CASE Terminate
  BY <1>4 DEF Terminate
<1>5. CASE LeaveLoop
  BY <1>5 DEF LeaveLoop, CancelPrompt
<1>6. CASE Exit
  BY <1>6 DEF Exit
<1>7. ASSUME NEW p \in Prompts, ConfigureIdentity(p) PROVE Generations'
  BY <1>7 DEF ConfigureIdentity, Step, Fail, Complete
<1>8. ASSUME NEW p \in Prompts, EnsureSession(p) PROVE Generations'
  BY <1>8 DEF EnsureSession, Step
<1>9. ASSUME NEW p \in Prompts, CreateSession(p) PROVE Generations'
  BY <1>9 DEF CreateSession, Step, Fail, Complete
<1>10. ASSUME NEW p \in Prompts, ReadIdToSave(p) PROVE Generations'
  BY <1>10 DEF ReadIdToSave, Step
<1>11. ASSUME NEW p \in Prompts, WriteId(p) PROVE Generations'
  BY <1>11 DEF WriteId, Step
<1>12. ASSUME NEW p \in Prompts, Attach(p) PROVE Generations'
  BY <1>12 DEF Attach, Step
<1>20. ASSUME NEW p \in Prompts, RefuseNameless(p) PROVE Generations'
  BY <1>20, AppendOne DEF RefuseNameless, Step, Fail, Complete
<1>13. ASSUME NEW p \in Prompts, StreamEnd(p) PROVE Generations'
  BY <1>13 DEF StreamEnd, StreamEndWith, Step, Fail, Complete
<1>14. ASSUME NEW p \in Prompts, ClearPromptCancel(p) PROVE Generations'
  BY <1>14 DEF ClearPromptCancel, ClearWith, Step
<1>15. ASSUME NEW p \in Prompts, CompleteCancelled(p) PROVE Generations'
  BY <1>15 DEF CompleteCancelled, Step, Complete
<1>16. ASSUME NEW p \in Prompts, RequestRefresh(p) PROVE Generations'
  BY <1>16 DEF RequestRefresh, Step
<1>17. ASSUME NEW p \in Prompts, Emit(p) PROVE Generations'
  BY <1>17 DEF Emit, Step
<1>18. CASE Restart
  BY <1>18 DEF Restart, Load, LoadWith
<1>19. CASE UNCHANGED vars
  BY <1>19 DEF vars
<1>. QED
  BY <1>1, <1>2, <1>3, <1>4, <1>5, <1>6, <1>7, <1>8, <1>9, <1>10, <1>11, <1>12, <1>13, <1>14, <1>15, <1>16, <1>17, <1>18, <1>19, <1>20 DEF Next, PromptStep

LEMMA CancelledStep ==
    ASSUME TypeOK, EndedCancelled, [Next]_vars PROVE EndedCancelled'
<1> USE DEF TypeOK, EndedCancelled, Places, CtxDone
<1>1. ASSUME NEW p \in Prompts, StartPrompt(p) PROVE EndedCancelled'
  BY <1>1 DEF StartPrompt, InFlight, Started
<1>2. CASE HandleStop
  BY <1>2 DEF HandleStop, CancelPrompt
<1>3. CASE HandleShutdown
  BY <1>3 DEF HandleShutdown, CancelPrompt
<1>4. CASE Terminate
  BY <1>4 DEF Terminate
<1>5. CASE LeaveLoop
  BY <1>5 DEF LeaveLoop, CancelPrompt
<1>6. CASE Exit
  BY <1>6 DEF Exit
<1>7. ASSUME NEW p \in Prompts, ConfigureIdentity(p) PROVE EndedCancelled'
  BY <1>7 DEF ConfigureIdentity, Step, Fail, Complete
<1>8. ASSUME NEW p \in Prompts, EnsureSession(p) PROVE EndedCancelled'
  BY <1>8 DEF EnsureSession, Step
<1>9. ASSUME NEW p \in Prompts, CreateSession(p) PROVE EndedCancelled'
  BY <1>9 DEF CreateSession, Step, Fail, Complete
<1>10. ASSUME NEW p \in Prompts, ReadIdToSave(p) PROVE EndedCancelled'
  BY <1>10 DEF ReadIdToSave, Step
<1>11. ASSUME NEW p \in Prompts, WriteId(p) PROVE EndedCancelled'
  BY <1>11 DEF WriteId, Step
<1>12. ASSUME NEW p \in Prompts, Attach(p) PROVE EndedCancelled'
  BY <1>12 DEF Attach, Step
<1>20. ASSUME NEW p \in Prompts, RefuseNameless(p) PROVE EndedCancelled'
  BY <1>20, AppendOne DEF RefuseNameless, Step, Fail, Complete
<1>13. ASSUME NEW p \in Prompts, StreamEnd(p) PROVE EndedCancelled'
  BY <1>13 DEF StreamEnd, StreamEndWith, Step, Fail, Complete
<1>14. ASSUME NEW p \in Prompts, ClearPromptCancel(p) PROVE EndedCancelled'
  BY <1>14 DEF ClearPromptCancel, ClearWith, Step
<1>15. ASSUME NEW p \in Prompts, CompleteCancelled(p) PROVE EndedCancelled'
  BY <1>15 DEF CompleteCancelled, Step, Complete
<1>16. ASSUME NEW p \in Prompts, RequestRefresh(p) PROVE EndedCancelled'
  BY <1>16 DEF RequestRefresh, Step
<1>17. ASSUME NEW p \in Prompts, Emit(p) PROVE EndedCancelled'
  BY <1>17 DEF Emit, Step
<1>18. CASE Restart
  BY <1>18 DEF Restart, Load, LoadWith
<1>19. CASE UNCHANGED vars
  BY <1>19 DEF vars
<1>. QED
  BY <1>1, <1>2, <1>3, <1>4, <1>5, <1>6, <1>7, <1>8, <1>9, <1>10, <1>11, <1>12, <1>13, <1>14, <1>15, <1>16, <1>17, <1>18, <1>19, <1>20 DEF Next, PromptStep

LEMMA NewestStep ==
    ASSUME TypeOK, Completions, Generations, EndedCancelled, Newest, [Next]_vars PROVE Newest'
<1> USE DEF TypeOK, Completions, Generations, EndedCancelled, Newest, Places, CtxDone, Started, Pending
<1>1. ASSUME NEW p \in Prompts, StartPrompt(p) PROVE Newest'
  BY <1>1 DEF StartPrompt, InFlight, Started
<1>2. CASE HandleStop
  BY <1>2 DEF HandleStop, CancelPrompt
<1>3. CASE HandleShutdown
  BY <1>3 DEF HandleShutdown, CancelPrompt
<1>4. CASE Terminate
  BY <1>4 DEF Terminate
<1>5. CASE LeaveLoop
  BY <1>5 DEF LeaveLoop, CancelPrompt
<1>6. CASE Exit
  BY <1>6 DEF Exit
<1>7. ASSUME NEW p \in Prompts, ConfigureIdentity(p) PROVE Newest'
  BY <1>7 DEF ConfigureIdentity, Step, Fail, Complete
<1>8. ASSUME NEW p \in Prompts, EnsureSession(p) PROVE Newest'
  BY <1>8 DEF EnsureSession, Step
<1>9. ASSUME NEW p \in Prompts, CreateSession(p) PROVE Newest'
  BY <1>9 DEF CreateSession, Step, Fail, Complete
<1>10. ASSUME NEW p \in Prompts, ReadIdToSave(p) PROVE Newest'
  BY <1>10 DEF ReadIdToSave, Step
<1>11. ASSUME NEW p \in Prompts, WriteId(p) PROVE Newest'
  BY <1>11 DEF WriteId, Step
<1>12. ASSUME NEW p \in Prompts, Attach(p) PROVE Newest'
  BY <1>12 DEF Attach, Step
<1>20. ASSUME NEW p \in Prompts, RefuseNameless(p) PROVE Newest'
  BY <1>20, AppendOne DEF RefuseNameless, Step, Fail, Complete
<1>13. ASSUME NEW p \in Prompts, StreamEnd(p) PROVE Newest'
  BY <1>13 DEF StreamEnd, StreamEndWith, Step, Fail, Complete
<1>14. ASSUME NEW p \in Prompts, ClearPromptCancel(p) PROVE Newest'
  <2>1. /\ pc[p] \in {"ended", "endedErr"} /\ pc' = [pc EXCEPT ![p] = IF pc[p] = "ended" THEN "request" ELSE "complete"]
        /\ cancelF' = IF gen = genOf[p] THEN NoPrompt ELSE cancelF
        /\ run' = run /\ rootDone' = rootDone /\ gen' = gen /\ genOf' = genOf
        /\ overlapped' = overlapped /\ cancelled' = cancelled
    BY <1>14 DEF ClearPromptCancel, ClearWith, Step, startVars, sessionVars, emitVars
  <2> SUFFICES ASSUME ~overlapped', NEW q \in Prompts, pc'[q] \in Pending
               PROVE  genOf'[q] = gen' /\ (run' = "loop" => CtxDone(q)' \/ cancelF' = q)
    OBVIOUS
  <2>2. pc[q] \in Pending /\ (q = p => pc[q] = "endedErr")
    BY <2>1
  <2>3. genOf[q] = gen /\ (run = "loop" => CtxDone(q) \/ cancelF = q)
    BY <2>1, <2>2
  <2>4. q = p => CtxDone(q)
    BY <2>2
  <2>5. q # p => gen # genOf[p]
    BY <2>1, <2>2, <2>3
  <2>. QED
    BY <2>1, <2>3, <2>4, <2>5
<1>15. ASSUME NEW p \in Prompts, CompleteCancelled(p) PROVE Newest'
  BY <1>15 DEF CompleteCancelled, Step, Complete
<1>16. ASSUME NEW p \in Prompts, RequestRefresh(p) PROVE Newest'
  BY <1>16 DEF RequestRefresh, Step
<1>17. ASSUME NEW p \in Prompts, Emit(p) PROVE Newest'
  BY <1>17 DEF Emit, Step
<1>18. CASE Restart
  BY <1>18 DEF Restart, Load, LoadWith
<1>19. CASE UNCHANGED vars
  BY <1>19 DEF vars
<1>. QED
  BY <1>1, <1>2, <1>3, <1>4, <1>5, <1>6, <1>7, <1>8, <1>9, <1>10, <1>11, <1>12, <1>13, <1>14, <1>15, <1>16, <1>17, <1>18, <1>19, <1>20 DEF Next, PromptStep

LEMMA SessionStep ==
    ASSUME TypeOK, Completions, Generations, Newest, Session, [Next]_vars PROVE Session'
<1> USE DEF TypeOK, Completions, Generations, Newest, Session, Places, Started, Pending
<1>1. ASSUME NEW p \in Prompts, StartPrompt(p) PROVE Session'
  BY <1>1 DEF StartPrompt, InFlight, Started
<1>2. CASE HandleStop
  BY <1>2 DEF HandleStop, CancelPrompt
<1>3. CASE HandleShutdown
  BY <1>3 DEF HandleShutdown, CancelPrompt
<1>4. CASE Terminate
  BY <1>4 DEF Terminate
<1>5. CASE LeaveLoop
  BY <1>5 DEF LeaveLoop, CancelPrompt
<1>6. CASE Exit
  BY <1>6 DEF Exit
<1>7. ASSUME NEW p \in Prompts, ConfigureIdentity(p) PROVE Session'
  BY <1>7 DEF ConfigureIdentity, Step, Fail, Complete
<1>8. ASSUME NEW p \in Prompts, EnsureSession(p) PROVE Session'
  BY <1>8 DEF EnsureSession, Step
<1>9. ASSUME NEW p \in Prompts, CreateSession(p) PROVE Session'
  <2>1. ASSUME ~overlapped, NEW q \in Prompts, pc[q] \in Pending PROVE q = p
    BY <1>9, <2>1 DEF CreateSession, Step, Fail
  <2>2. pc[p] = "create" /\ overlapped' = overlapped /\ local' = local
    BY <1>9 DEF CreateSession, Step, Fail
  <2>3. CASE sid' = sid /\ alive \subseteq alive' /\ pc' = [pc EXCEPT ![p] = "ended"]
    BY <2>1, <2>2, <2>3
  <2>4. CASE sid' = created + 1 /\ sid' \in alive' /\ pc' = [pc EXCEPT ![p] = "save"]
    BY <2>1, <2>2, <2>4
  <2>. QED
    BY <1>9, <2>3, <2>4 DEF CreateSession, Step, Fail
<1>10. ASSUME NEW p \in Prompts, ReadIdToSave(p) PROVE Session'
  BY <1>10 DEF ReadIdToSave, Step
<1>11. ASSUME NEW p \in Prompts, WriteId(p) PROVE Session'
  BY <1>11 DEF WriteId, Step
<1>12. ASSUME NEW p \in Prompts, Attach(p) PROVE Session'
  BY <1>12 DEF Attach, Step
<1>20. ASSUME NEW p \in Prompts, RefuseNameless(p) PROVE Session'
  BY <1>20, AppendOne DEF RefuseNameless, Step, Fail, Complete
<1>13. ASSUME NEW p \in Prompts, StreamEnd(p) PROVE Session'
  BY <1>13 DEF StreamEnd, StreamEndWith, Step, Fail, Complete
<1>14. ASSUME NEW p \in Prompts, ClearPromptCancel(p) PROVE Session'
  BY <1>14 DEF ClearPromptCancel, ClearWith, Step
<1>15. ASSUME NEW p \in Prompts, CompleteCancelled(p) PROVE Session'
  BY <1>15 DEF CompleteCancelled, Step, Complete
<1>16. ASSUME NEW p \in Prompts, RequestRefresh(p) PROVE Session'
  BY <1>16 DEF RequestRefresh, Step
<1>17. ASSUME NEW p \in Prompts, Emit(p) PROVE Session'
  BY <1>17 DEF Emit, Step
<1>18. CASE Restart
  BY <1>18 DEF Restart, Load, LoadWith
<1>19. CASE UNCHANGED vars
  BY <1>19 DEF vars
<1>. QED
  BY <1>1, <1>2, <1>3, <1>4, <1>5, <1>6, <1>7, <1>8, <1>9, <1>10, <1>11, <1>12, <1>13, <1>14, <1>15, <1>16, <1>17, <1>18, <1>19, <1>20 DEF Next, PromptStep

LEMMA FileStep ==
    ASSUME TypeOK, Session, FileIsCurrent, [Next]_vars PROVE FileIsCurrent'
<1> USE DEF TypeOK, Session, FileIsCurrent, Places
<1>1. ASSUME NEW p \in Prompts, StartPrompt(p) PROVE FileIsCurrent'
  BY <1>1 DEF StartPrompt, InFlight, Started
<1>2. CASE HandleStop
  BY <1>2 DEF HandleStop, CancelPrompt
<1>3. CASE HandleShutdown
  BY <1>3 DEF HandleShutdown, CancelPrompt
<1>4. CASE Terminate
  BY <1>4 DEF Terminate
<1>5. CASE LeaveLoop
  BY <1>5 DEF LeaveLoop, CancelPrompt
<1>6. CASE Exit
  BY <1>6 DEF Exit
<1>7. ASSUME NEW p \in Prompts, ConfigureIdentity(p) PROVE FileIsCurrent'
  BY <1>7 DEF ConfigureIdentity, Step, Fail, Complete
<1>8. ASSUME NEW p \in Prompts, EnsureSession(p) PROVE FileIsCurrent'
  BY <1>8 DEF EnsureSession, Step
<1>9. ASSUME NEW p \in Prompts, CreateSession(p) PROVE FileIsCurrent'
  BY <1>9 DEF CreateSession, Step, Fail, Complete
<1>10. ASSUME NEW p \in Prompts, ReadIdToSave(p) PROVE FileIsCurrent'
  BY <1>10 DEF ReadIdToSave, Step
<1>11. ASSUME NEW p \in Prompts, WriteId(p) PROVE FileIsCurrent'
  BY <1>11 DEF WriteId, Step
<1>12. ASSUME NEW p \in Prompts, Attach(p) PROVE FileIsCurrent'
  BY <1>12 DEF Attach, Step
<1>20. ASSUME NEW p \in Prompts, RefuseNameless(p) PROVE FileIsCurrent'
  BY <1>20, AppendOne DEF RefuseNameless, Step, Fail, Complete
<1>13. ASSUME NEW p \in Prompts, StreamEnd(p) PROVE FileIsCurrent'
  BY <1>13 DEF StreamEnd, StreamEndWith, Step, Fail, Complete
<1>14. ASSUME NEW p \in Prompts, ClearPromptCancel(p) PROVE FileIsCurrent'
  BY <1>14 DEF ClearPromptCancel, ClearWith, Step
<1>15. ASSUME NEW p \in Prompts, CompleteCancelled(p) PROVE FileIsCurrent'
  BY <1>15 DEF CompleteCancelled, Step, Complete
<1>16. ASSUME NEW p \in Prompts, RequestRefresh(p) PROVE FileIsCurrent'
  BY <1>16 DEF RequestRefresh, Step
<1>17. ASSUME NEW p \in Prompts, Emit(p) PROVE FileIsCurrent'
  BY <1>17 DEF Emit, Step
<1>18. CASE Restart
  BY <1>18 DEF Restart, Load, LoadWith
<1>19. CASE UNCHANGED vars
  BY <1>19 DEF vars
<1>. QED
  BY <1>1, <1>2, <1>3, <1>4, <1>5, <1>6, <1>7, <1>8, <1>9, <1>10, <1>11, <1>12, <1>13, <1>14, <1>15, <1>16, <1>17, <1>18, <1>19, <1>20 DEF Next, PromptStep

---------------------------------------------------------------------------
\* The inductive invariant.
IInv ==
    /\ TypeOK /\ Completions /\ Generations /\ EndedCancelled
    /\ Newest /\ Session /\ FileIsCurrent

LEMMA InitIInv == Init => IInv
<1> SUFFICES ASSUME Init PROVE IInv
  OBVIOUS
<1>1. TypeOK
  BY DEF Init, TypeOK, Places
<1>2. Completions /\ Generations /\ EndedCancelled /\ Newest
  BY DEF Init, Completions, Generations, EndedCancelled, Newest, Started, Pending
<1>3. Session /\ FileIsCurrent
  BY DEF Init, Session, FileIsCurrent
<1>. QED
  BY <1>1, <1>2, <1>3 DEF IInv

LEMMA StepIInv == ASSUME IInv, [Next]_vars PROVE IInv'
BY TypeStep, CompletionsStep, GenerationsStep, CancelledStep, NewestStep, SessionStep, FileStep DEF IInv

LEMMA AlwaysIInv == Spec => []IInv
BY InitIInv, StepIInv, PTL DEF Spec

---------------------------------------------------------------------------
(* Completions. *)

LEMMA AppendGrows ==
    ASSUME NEW s \in {<<>>} \cup {<<o>> : o \in Outcomes}, NEW a \in Outcomes, NEW b \in Outcomes
    PROVE  /\ Append(s, a) # s
           /\ Append(s, a) = Append(s, b) => a = b
BY DEF Outcomes

LEMMA OneCompletionHolds == ASSUME IInv PROVE OneCompletion
<1> SUFFICES ASSUME NEW p \in Prompts
             PROVE  /\ pc[p] \in {"ended", "request", "over"} => Len(done[p]) = 1
                    /\ pc[p] \in Places \ {"ended", "request", "over", "lost"} => done[p] = <<>>
  BY DEF OneCompletion
<1>1. done[p] = <<>> \/ \E o \in Outcomes : done[p] = <<o>>
  BY DEF IInv, TypeOK
<1>2. \A o \in Outcomes : Len(<<o>>) = 1
  OBVIOUS
<1>3. done[p] # <<>> => Len(done[p]) = 1
  BY <1>1, <1>2
<1>. QED
  BY <1>3 DEF IInv, Completions, Pending, Places

\* A step completes no prompt, or one, with an outcome that is true of it.
Honest(p, o) ==
    /\ o \in Outcomes
    /\ o = "success" => p \in output \ failed
    /\ o = "cancelled" => CtxDone(p)

LEMMA OneCompletes ==
    ASSUME [Next]_vars
    PROVE UNCHANGED done \/ \E p \in Prompts : \E o \in Outcomes : Complete(p, o) /\ Honest(p, o)
<1> DEFINE Goal == UNCHANGED done \/ \E p \in Prompts : \E o \in Outcomes : Complete(p, o) /\ Honest(p, o)
<1>1. ASSUME NEW p \in Prompts, Fail(p, "identity") \/ Fail(p, "create") \/ Fail(p, "nameless") PROVE Goal
  BY <1>1 DEF Fail, Honest, Outcomes
<1>2. ASSUME NEW p \in Prompts, StreamEnd(p) PROVE Goal
  BY <1>2 DEF StreamEnd, StreamEndWith, Fail, Honest, Outcomes
<1>3. ASSUME NEW p \in Prompts, CompleteCancelled(p) PROVE Goal
  BY <1>3 DEF CompleteCancelled, Honest, Outcomes
<1>4. ASSUME NEW p \in Prompts, StartPrompt(p) \/ Emit(p) \/ ConfigureIdentity(p) \/ EnsureSession(p) \/ CreateSession(p)
                                   \/ RefuseNameless(p) PROVE Goal
  BY <1>1, <1>4 DEF StartPrompt, RefuseNameless, Emit, ConfigureIdentity, EnsureSession, CreateSession
<1>5. ASSUME NEW p \in Prompts, ReadIdToSave(p) \/ WriteId(p) \/ Attach(p) \/ ClearPromptCancel(p) \/ RequestRefresh(p) PROVE Goal
  BY <1>5 DEF ReadIdToSave, WriteId, Attach, ClearPromptCancel, ClearWith, RequestRefresh
<1>6. ASSUME HandleStop \/ HandleShutdown \/ Terminate \/ LeaveLoop \/ Exit \/ Restart \/ UNCHANGED vars PROVE Goal
  BY <1>6 DEF HandleStop, HandleShutdown, Terminate, LeaveLoop, Exit, Restart, vars
<1>. QED
  BY <1>2, <1>3, <1>4, <1>5, <1>6 DEF Next, PromptStep

LEMMA OutcomeStep ==
    ASSUME IInv, [Next]_vars, NEW p \in Prompts
    PROVE  /\ done'[p] = Append(done[p], "success") => p \in output \ failed
           /\ done'[p] = Append(done[p], "cancelled") => CtxDone(p)
<1>1. done[p] \in {<<>>} \cup {<<o>> : o \in Outcomes}
  BY DEF IInv, TypeOK
<1>2. "success" \in Outcomes /\ "cancelled" \in Outcomes
  BY DEF Outcomes
<1>3. \A o \in Outcomes : Append(done[p], o) # done[p]
  BY <1>1, AppendGrows
<1>4. CASE done'[p] = done[p]
  BY <1>2, <1>3, <1>4
<1>5. ASSUME NEW q \in Prompts, NEW o \in Outcomes, Complete(q, o), Honest(q, o), done'[p] # done[p]
      PROVE  /\ done'[p] = Append(done[p], "success") => p \in output \ failed
             /\ done'[p] = Append(done[p], "cancelled") => CtxDone(p)
  <2>1. q = p /\ done'[p] = Append(done[p], o)
    BY <1>5 DEF IInv, TypeOK, Complete
  <2>2. \A a \in Outcomes : done'[p] = Append(done[p], a) => o = a
    BY <2>1, <1>1, AppendGrows
  <2>. QED
    BY <1>2, <1>5, <2>1, <2>2 DEF Honest
<1>. QED
  BY <1>4, <1>5, OneCompletes

\* On whichever of its paths a prompt ends, it is completed once and the
\* completion says what happened.
THEOREM PromptsCompleteHonestly == Spec => HonestCompletion
<1>1. IInv => TypeOK /\ OneCompletion
  BY OneCompletionHolds DEF IInv
<1>2. IInv /\ [Next]_vars =>
        [\A p \in Prompts :
           /\ done'[p] = Append(done[p], "success") => p \in output \ failed
           /\ done'[p] = Append(done[p], "cancelled") => CtxDone(p)]_vars
  BY OutcomeStep
<1>. QED
  BY <1>1, <1>2, AlwaysIInv, PTL DEF Spec, HonestCompletion, HonestOutcome

---------------------------------------------------------------------------
(* Stop, and the session. *)

LEMMA CancellableHolds == ASSUME IInv PROVE Cancellable
<1> SUFFICES ASSUME run = "loop", ~overlapped, NEW p \in InFlight PROVE CtxDone(p) \/ cancelF = p
  BY DEF Cancellable
<1>1. p \in Prompts /\ pc[p] \in Places \ {"new", "lost"} /\ done[p] = <<>>
  BY DEF InFlight, Started, IInv, TypeOK
<1>2. pc[p] \in Pending
  BY <1>1 DEF IInv, Completions, Pending, Places
<1>. QED
  BY <1>1, <1>2 DEF IInv, Newest

\* As long as prompts come one after the other, a stop reaches the one that
\* runs, whatever its predecessors still have to clear.
THEOREM StopReachesThePrompt == Spec => []Cancellable
BY AlwaysIInv, CancellableHolds, PTL

LEMMA SessionStableStep ==
    ASSUME IInv, [Next]_vars, sid # 0, restarts' = restarts, ~overlapped PROVE sid' = sid
<1>1. ASSUME NEW p \in Prompts, CreateSession(p) PROVE sid' = sid
  BY <1>1 DEF CreateSession, Step, Fail, IInv, Session
<1>2. ASSUME NEW p \in Prompts, StartPrompt(p) \/ Emit(p) \/ ConfigureIdentity(p) \/ EnsureSession(p) \/ StreamEnd(p) \/ RefuseNameless(p) \/ CompleteCancelled(p) PROVE sid' = sid
  BY <1>2 DEF RefuseNameless, StartPrompt, Emit, ConfigureIdentity, EnsureSession, StreamEnd, StreamEndWith, CompleteCancelled
<1>3. ASSUME NEW p \in Prompts, ReadIdToSave(p) \/ WriteId(p) \/ Attach(p) \/ ClearPromptCancel(p) \/ RequestRefresh(p) PROVE sid' = sid
  BY <1>3 DEF ReadIdToSave, WriteId, Attach, ClearPromptCancel, ClearWith, RequestRefresh
<1>4. ASSUME HandleStop \/ HandleShutdown \/ Terminate \/ LeaveLoop \/ Exit \/ UNCHANGED vars PROVE sid' = sid
  BY <1>4 DEF HandleStop, HandleShutdown, Terminate, LeaveLoop, Exit, vars
<1>5. ~Restart
  BY DEF Restart, IInv, TypeOK
<1>. QED
  BY <1>1, <1>2, <1>3, <1>4, <1>5 DEF Next, PromptStep

\* The conversation's session: it exists, it stays, and a restart finds it.
THEOREM SessionIsKept == Spec => SessionKept
<1>1. IInv => FileIsCurrent /\ SessionExists
  BY DEF IInv, Session, SessionExists
<1>2. IInv /\ [Next]_vars => [sid # 0 /\ restarts' = restarts /\ ~overlapped => sid' = sid]_vars
  BY SessionStableStep
<1>. QED
  BY <1>1, <1>2, AlwaysIInv, PTL DEF Spec, SessionKept, SessionStable

---------------------------------------------------------------------------
(* The images of a prompt.                                                 *)

Outcome == {"wait", "get", "ok", "failed"}

\* What the list of the prompt came to; the downloads, each in its goroutine; the
\* warnings, one for each failed image and one for all entries that were rejected.
Unparsed == place = "parse" => /\ images = <<>> /\ rejected = 0 /\ warnings = <<>>
                               /\ state = <<>> /\ slots = {} /\ parts = <<>>
Checked ==
    /\ list \in Lists /\ place \in {"parse", "download", "parts"}
    /\ \E n \in Nat : images \in [1..n -> Nat] /\ n = Len(images)
    /\ \A i, j \in A!Images : i < j => images[i] < images[j]
    /\ Len(images) + rejected = IF place = "parse" THEN 0 ELSE IF list = NotAList THEN 1 ELSE Len(list)
Downloads ==
    /\ state \in [A!Images -> Outcome]
    /\ slots = {i \in A!Images : state[i] = "get"} /\ Cardinality(slots) <= Concurrency
Skipped == IF rejected > 0 THEN {0} ELSE {}
Warned ==
    /\ warnings \in Seq(Nat)
    /\ {warnings[k] : k \in DOMAIN warnings} = Skipped \cup {i \in A!Images : state[i] = "failed"}
    /\ \A k, l \in DOMAIN warnings : k # l => warnings[k] # warnings[l]
Got == {i \in A!Images : state[i] = "ok"}
Built == place = "parts" => A!AllEnded /\ parts = A!FileParts(A!InOrder(Got))

ImagesInv == Unparsed /\ Checked /\ Downloads /\ Warned /\ Built

\* The operators of the instance are those of the modules it is made of.
LEMMA OrderedAlike ==
    ASSUME NEW S
    PROVE  A!Cardinality(S) = Cardinality(S) /\ A!InOrder(S) = InOrder(S)
BY DEF A!Cardinality, Cardinality, A!InOrder, InOrder

LEMMA ImagesInitInv == ASSUME A!ConstantsOK, A!Init PROVE ImagesInv
<1>1. /\ list \in Lists /\ images = <<>> /\ rejected = 0 /\ place = "parse" /\ state = <<>> /\ slots = {}
      /\ warnings = <<>> /\ parts = <<>>
  BY DEF A!Init
<1>2. Len(images) = 0 /\ A!Images = {} /\ DOMAIN warnings = {} /\ warnings \in Seq(Nat)
  BY <1>1 DEF A!Images
<1>3. Cardinality(slots) = 0
  BY <1>1, FS_EmptySet
<1>4. images \in [1..0 -> Nat] /\ state \in [A!Images -> Outcome]
  BY <1>1, <1>2
<1>5. Downloads
  BY <1>1, <1>2, <1>3, <1>4 DEF Downloads, A!ConstantsOK
<1>6. Checked
  BY <1>1, <1>2, <1>4 DEF Checked
<1>. QED
  BY <1>1, <1>2, <1>5, <1>6 DEF ImagesInv, Unparsed, Warned, Skipped, Built

\* A warning for an image that had none.
LEMMA WarningAppended ==
    ASSUME Warned, NEW i \in Nat, \A k \in DOMAIN warnings : warnings[k] # i, warnings' = Append(warnings, i)
    PROVE  /\ warnings' \in Seq(Nat)
           /\ {warnings'[k] : k \in DOMAIN warnings'} = {warnings[k] : k \in DOMAIN warnings} \cup {i}
           /\ \A k, l \in DOMAIN warnings' : k # l => warnings'[k] # warnings'[l]
<1>. DEFINE n == Len(warnings)
<1>1. n \in Nat /\ DOMAIN warnings = 1..n /\ warnings \in Seq(Nat)
  BY DEF Warned
<1>2. /\ warnings' \in Seq(Nat) /\ DOMAIN warnings' = 1..(n + 1) /\ warnings'[n + 1] = i
      /\ \A k \in 1..n : warnings'[k] = warnings[k]
  BY <1>1
<1>3. \A k \in 1..(n + 1) : k \in 1..n \/ k = n + 1
  BY <1>1
<1>4. 1..n \subseteq 1..(n + 1) /\ n + 1 \in 1..(n + 1)
  BY <1>1
<1>. HIDE DEF n
<1>. QED
  BY <1>1, <1>2, <1>3, <1>4 DEF Warned

\* The entries that are accepted are in the order of the list.
LEMMA ParseStep ==
    ASSUME A!ConstantsOK, ImagesInv, A!Parse
    PROVE  ImagesInv'
<1>1. /\ place = "parse" /\ place' = "download" /\ list' = list /\ slots' = slots /\ parts' = parts
      /\ images' = IF list = NotAList THEN <<>> ELSE A!Accepted(list)
      /\ rejected' = IF list = NotAList THEN 1 ELSE Len(list) - Len(images')
      /\ warnings' = IF rejected' > 0 THEN Append(warnings, 0) ELSE warnings
      /\ state' = [i \in 1..Len(images') |-> "wait"]
  BY DEF A!Parse
<1>2. warnings = <<>> /\ slots = {} /\ list \in Lists
  BY <1>1 DEF ImagesInv, Unparsed, Checked
<1>3. PICK n \in Nat : /\ images' \in [1..n -> Nat]
                       /\ \A i, j \in 1..n : i < j => images'[i] < images'[j]
                       /\ list # NotAList => Len(list) \in Nat
  <2>1. CASE list = NotAList
    <3>1. images' \in [1..0 -> Nat]
      BY <1>1, <2>1
    <3>. QED
      BY <2>1, <3>1
  <2>2. CASE list # NotAList
    <3>. DEFINE m == A!AtMost(Len(list), PerMessage)
                good == {i \in 1..m : list[i] = "good"}
    <3>1. Len(list) \in Nat /\ m \in Nat /\ good \in SUBSET (1..m) /\ good \subseteq Nat
      <4>1. list \in Seq({"good", "bad"})
        BY <1>2, <2>2 DEF A!ConstantsOK
      <4>. QED
        BY <4>1 DEF A!ConstantsOK, A!AtMost
    <3>2. images' = InOrder(good)
      BY <1>1, <2>2, OrderedAlike DEF A!Accepted
    <3>. HIDE DEF good, m
    <3>3. /\ Cardinality(good) \in Nat /\ InOrder(good) \in [1..Cardinality(good) -> good]
          /\ \A i, j \in 1..Cardinality(good) : i < j => InOrder(good)[i] < InOrder(good)[j]
      BY <3>1, InOrderIsSorted
    <3>. QED
      BY <3>1, <3>2, <3>3
  <2>. QED
    BY <2>1, <2>2
<1>4. Len(images') = n /\ DOMAIN images' = 1..n
  BY <1>3
<1>5. Checked'
  BY <1>1, <1>2, <1>3, <1>4 DEF Checked, A!Images
<1>6. Downloads'
  <2>1. {i \in A!Images' : state'[i] = "get"} = {}
    BY <1>1 DEF A!Images
  <2>2. Cardinality(slots') = 0
    BY <1>1, <1>2, FS_EmptySet
  <2>. QED
    BY <1>1, <1>2, <2>1, <2>2 DEF Downloads, Outcome, A!Images, A!ConstantsOK
<1>7. Warned'
  <2>1. {i \in A!Images' : state'[i] = "failed"} = {}
    BY <1>1 DEF A!Images
  <2>2. warnings' = IF rejected' > 0 THEN <<0>> ELSE <<>>
    BY <1>1, <1>2
  <2>3. CASE rejected' > 0
    <3>1. DOMAIN warnings' = {1} /\ warnings'[1] = 0 /\ warnings' \in Seq(Nat)
      BY <2>2, <2>3
    <3>. QED
      BY <2>1, <2>3, <3>1 DEF Warned, Skipped
  <2>4. CASE ~(rejected' > 0)
    <3>1. DOMAIN warnings' = {} /\ warnings' \in Seq(Nat)
      BY <2>2, <2>4
    <3>. QED
      BY <2>1, <2>4, <3>1 DEF Warned, Skipped
  <2>. QED
    BY <2>3, <2>4
<1>. QED
  BY <1>1, <1>5, <1>6, <1>7 DEF ImagesInv, Unparsed, Built

\* A goroutine enters the semaphore.
LEMMA EnterStep ==
    ASSUME A!ConstantsOK, ImagesInv, NEW i \in A!Images, A!Enter(i)
    PROVE  ImagesInv'
<1>1. /\ place = "download" /\ state[i] = "wait" /\ Cardinality(slots) < Concurrency
      /\ state' = [state EXCEPT ![i] = "get"] /\ slots' = slots \cup {i}
      /\ UNCHANGED <<list, images, rejected, place, warnings, parts>>
  BY OrderedAlike DEF A!Enter
<1>2. A!Images' = A!Images /\ Skipped' = Skipped
  BY <1>1 DEF A!Images, Skipped
<1>3. /\ state \in [A!Images -> Outcome] /\ slots = {j \in A!Images : state[j] = "get"}
  BY DEF ImagesInv, Downloads
<1>4. /\ state' \in [A!Images -> Outcome] /\ slots' = {j \in A!Images : state'[j] = "get"} /\ i \notin slots
      /\ {j \in A!Images : state'[j] = "failed"} = {j \in A!Images : state[j] = "failed"}
  BY <1>1, <1>3 DEF Outcome
<1>5. Cardinality(slots') <= Concurrency
  <2>1. IsFiniteSet(A!Images)
    BY FS_Interval DEF A!Images, ImagesInv, Checked
  <2>2. IsFiniteSet(slots)
    BY <1>3, <2>1, FS_Subset
  <2>3. Cardinality(slots') = Cardinality(slots) + 1 /\ Cardinality(slots) \in Nat
    BY <1>1, <1>4, <2>2, FS_AddElement, FS_CardinalityType
  <2>. QED
    BY <1>1, <2>3 DEF A!ConstantsOK
<1>. QED
  <2>1. Unparsed' /\ Checked' /\ Downloads' /\ Built'
    BY <1>1, <1>2, <1>4, <1>5 DEF ImagesInv, Unparsed, Checked, Downloads, Built
  <2>2. Warned'
    BY <1>1, <1>2, <1>4 DEF ImagesInv, Warned
  <2>. QED
    BY <2>1, <2>2 DEF ImagesInv

\* A download ends, with a warning unless it went well.
LEMMA EndStep ==
    ASSUME A!ConstantsOK, ImagesInv, NEW i \in A!Images, A!Body(i) \/ A!Fail(i)
    PROVE  ImagesInv'
<1>1. /\ place = "download" /\ state[i] = "get"
      /\ UNCHANGED <<list, images, rejected, place, parts>> /\ slots' = slots \ {i}
      /\ \/ state' = [state EXCEPT ![i] = "ok"] /\ warnings' = warnings
         \/ state' = [state EXCEPT ![i] = "failed"] /\ warnings' = Append(warnings, i)
  BY DEF A!Body, A!Fail, A!End
<1>2. A!Images' = A!Images /\ Skipped' = Skipped
  BY <1>1 DEF A!Images, Skipped
<1>3. /\ state \in [A!Images -> Outcome] /\ slots = {j \in A!Images : state[j] = "get"}
      /\ Cardinality(slots) <= Concurrency
  BY DEF ImagesInv, Downloads
<1>4. state' \in [A!Images -> Outcome] /\ slots' = {j \in A!Images : state'[j] = "get"}
  BY <1>1, <1>3 DEF Outcome
<1>5. Cardinality(slots') <= Concurrency
  <2>1. IsFiniteSet(A!Images)
    BY FS_Interval DEF A!Images, ImagesInv, Checked
  <2>2. IsFiniteSet(slots) /\ slots' \in SUBSET slots
    BY <1>1, <1>3, <2>1, FS_Subset
  <2>3. Cardinality(slots') <= Cardinality(slots) /\ Cardinality(slots) \in Nat /\ Cardinality(slots') \in Nat
    BY <2>2, FS_Subset, FS_CardinalityType
  <2>. QED
    BY <1>3, <2>3 DEF A!ConstantsOK
<1>6. Warned'
  <2>1. CASE state' = [state EXCEPT ![i] = "ok"] /\ warnings' = warnings
    <3>1. {j \in A!Images : state'[j] = "failed"} = {j \in A!Images : state[j] = "failed"}
      BY <1>1, <1>3, <2>1
    <3>. QED
      BY <1>2, <2>1, <3>1 DEF ImagesInv, Warned
  <2>2. CASE state' = [state EXCEPT ![i] = "failed"] /\ warnings' = Append(warnings, i)
    <3>1. {j \in A!Images : state'[j] = "failed"} = {j \in A!Images : state[j] = "failed"} \cup {i}
      BY <1>1, <1>3, <2>2
    <3>2. i \in Nat /\ i # 0
      BY DEF ImagesInv, Checked, A!Images
    <3>3. \A k \in DOMAIN warnings : warnings[k] # i
      <4>1. i \notin Skipped \cup {j \in A!Images : state[j] = "failed"}
        BY <1>1, <3>2 DEF Skipped
      <4>. QED
        BY <4>1 DEF ImagesInv, Warned
    <3>. QED
      BY <1>2, <2>2, <3>1, <3>2, <3>3, WarningAppended DEF ImagesInv, Warned
  <2>. QED
    BY <1>1, <2>1, <2>2
<1>. QED
  BY <1>1, <1>2, <1>4, <1>5, <1>6 DEF ImagesInv, Unparsed, Checked, Downloads, Built

\* A step that leaves the list and the downloads alone.
LEMMA ImagesUnchanged ==
    ASSUME ImagesInv, UNCHANGED <<list, images, rejected, state, slots, warnings>>
    PROVE  /\ place' \in {"download", "parts"} /\ place # "parse" => Checked'
           /\ place' = place => Checked'
           /\ Downloads' /\ Warned' /\ A!Images' = A!Images /\ Got' = Got
<1>1. A!Images' = A!Images /\ Skipped' = Skipped
  BY DEF A!Images, Skipped
<1>2. Got' = Got
  BY <1>1 DEF Got
<1>3. Downloads'
  BY <1>1 DEF ImagesInv, Downloads
<1>4. Warned'
  BY <1>1 DEF ImagesInv, Warned
<1>5. (place' \in {"download", "parts"} /\ place # "parse" => Checked') /\ (place' = place => Checked')
  BY <1>1 DEF ImagesInv, Checked
<1>. QED
  BY <1>1, <1>2, <1>3, <1>4, <1>5

LEMMA ImagesNextInv == ASSUME A!ConstantsOK, ImagesInv, [A!Next]_(A!vars) PROVE ImagesInv'
<1>1. CASE A!Parse
  BY <1>1, ParseStep
<1>2. ASSUME UNCHANGED <<list, images, rejected, place, state, slots, warnings, parts>> PROVE ImagesInv'
  <2>1. Checked' /\ Downloads' /\ Warned' /\ A!Images' = A!Images /\ Got' = Got
    BY <1>2, ImagesUnchanged
  <2>2. Unparsed'
    BY <1>2 DEF ImagesInv, Unparsed
  <2>3. Built'
    BY <1>2, <2>1 DEF ImagesInv, Built, A!AllEnded, A!FileParts
  <2>. QED
    BY <2>1, <2>2, <2>3 DEF ImagesInv
<1>3. CASE A!BuildFileParts
  <2>1. /\ place = "download" /\ place' = "parts" /\ A!AllEnded /\ parts' = A!FileParts(A!InOrder(Got))
        /\ UNCHANGED <<list, images, rejected, state, slots, warnings>>
    BY <1>3 DEF A!BuildFileParts, Got
  <2>2. Checked' /\ Downloads' /\ Warned' /\ A!Images' = A!Images /\ Got' = Got
    BY <2>1, ImagesUnchanged
  <2>3. Built'
    BY <2>1, <2>2 DEF Built, A!FileParts, A!AllEnded
  <2>4. Unparsed'
    BY <2>1 DEF Unparsed
  <2>. QED
    BY <2>2, <2>3, <2>4 DEF ImagesInv
<1>4. ASSUME NEW i \in 1..PerMessage, A!Step(i) PROVE ImagesInv'
  BY <1>4, EnterStep, EndStep DEF A!Step
<1>5. CASE A!Stop
  BY <1>2, <1>5 DEF A!Stop
<1>6. CASE UNCHANGED A!vars
  BY <1>2, <1>6 DEF A!vars
<1>. QED
  BY <1>1, <1>3, <1>4, <1>5, <1>6 DEF A!Next

\* Each image has one warning or one part; the parts are in the order of the list.
LEMMA ImagesInvImplies == ASSUME A!ConstantsOK, ImagesInv PROVE NothingLostSilently
<1>1. A!TypeOK
  BY OrderedAlike DEF ImagesInv, Checked, Downloads, A!TypeOK
<1>2. ASSUME place = "parts" 
      PROVE  /\ \A i \in A!Images : A!Cardinality({k \in DOMAIN warnings : warnings[k] = i})
                                      + A!Cardinality({k \in DOMAIN parts : parts[k] = images[i]}) = 1
             /\ rejected > 0 <=> \E k \in DOMAIN warnings : warnings[k] = 0
             /\ \A k \in 1..(Len(parts) - 1) : parts[k] < parts[k + 1]
  <2>. DEFINE n == Len(images)
              m == Cardinality(Got)
              got == InOrder(Got)
  <2>1. /\ n \in Nat /\ A!Images = 1..n /\ images \in [1..n -> Nat]
        /\ \A i, j \in 1..n : i < j => images[i] < images[j]
    BY DEF ImagesInv, Checked, A!Images
  <2>2. Got \in SUBSET (1..n)
    BY <2>1 DEF Got
  <2>3. /\ m \in Nat /\ got \in [1..m -> Got]
        /\ \A i, j \in 1..m : i < j => got[i] < got[j]
        /\ \A x \in Got : \E i \in 1..m : got[i] = x
    BY <2>1, <2>2, InOrderIsSorted
  <2>4. parts = [k \in 1..m |-> images[got[k]]]
    BY <1>2, <2>3, OrderedAlike DEF ImagesInv, Built, A!FileParts
  <2>. HIDE DEF n, m, got
  <2>5. Len(parts) = m /\ DOMAIN parts = 1..m
    BY <2>3, <2>4
  <2>6. \A k, l \in 1..m : k < l => parts[k] < parts[l]
    BY <2>1, <2>2, <2>3, <2>4
  <2>7. \A i, j \in 1..n : images[i] = images[j] => i = j
    <3>. SUFFICES ASSUME NEW i \in 1..n, NEW j \in 1..n, images[i] = images[j], i # j PROVE FALSE
      OBVIOUS
    <3>1. i < j \/ j < i
      BY <2>1
    <3>2. images[i] \in Nat /\ ~(images[i] < images[i])
      BY <2>1
    <3>. QED
      BY <2>1, <3>1, <3>2
  <2>8. \A k, l \in 1..m : parts[k] = parts[l] => k = l
    <3>. SUFFICES ASSUME NEW k \in 1..m, NEW l \in 1..m, parts[k] = parts[l], k # l PROVE FALSE
      OBVIOUS
    <3>1. k < l \/ l < k
      BY <2>3
    <3>2. parts[k] \in Nat /\ ~(parts[k] < parts[k])
      <4>1. got[k] \in 1..n /\ parts[k] = images[got[k]]
        BY <2>2, <2>3, <2>4
      <4>2. parts[k] \in Nat
        BY <2>1, <4>1
      <4>. QED
        BY <4>2
    <3>. QED
      BY <2>6, <3>1, <3>2
  <2>9. \A k \in 1..(Len(parts) - 1) : parts[k] < parts[k + 1]
    <3>1. \A k \in 1..(m - 1) : k \in 1..m /\ k + 1 \in 1..m /\ k < k + 1
      BY <2>3
    <3>. QED
      BY <2>5, <2>6, <3>1
  <2>10. rejected > 0 <=> \E k \in DOMAIN warnings : warnings[k] = 0
    <3>1. 0 \notin A!Images
      BY <2>1
    <3>. QED
      BY <3>1 DEF ImagesInv, Warned, Skipped
  <2>11. ASSUME NEW i \in A!Images
         PROVE  Cardinality({k \in DOMAIN warnings : warnings[k] = i})
                  + Cardinality({k \in DOMAIN parts : parts[k] = images[i]}) = 1
    <3>0. i \in 1..n /\ i # 0 /\ (state[i] = "ok" \/ state[i] = "failed")
      BY <1>2, <2>1, <2>11 DEF ImagesInv, Built, A!AllEnded
    <3>1. (\E k \in DOMAIN warnings : warnings[k] = i) <=> state[i] = "failed"
      BY <2>11, <3>0 DEF ImagesInv, Warned, Skipped
    <3>2. (\E k \in DOMAIN parts : parts[k] = images[i]) <=> state[i] = "ok"
      BY <2>1, <2>2, <2>3, <2>4, <2>5, <2>7, <2>11, <3>0 DEF Got
    <3>3. CASE state[i] = "ok"
      <4>1. PICK k \in DOMAIN parts : parts[k] = images[i]
        BY <3>2, <3>3
      <4>2. {l \in DOMAIN parts : parts[l] = images[i]} = {k} /\ {l \in DOMAIN warnings : warnings[l] = i} = {}
        BY <2>5, <2>8, <3>1, <3>3, <4>1
      <4>3. Cardinality({k}) = 1 /\ Cardinality({}) = 0
        BY FS_EmptySet, FS_Singleton
      <4>. QED
        BY <4>2, <4>3
    <3>4. CASE state[i] = "failed"
      <4>1. PICK k \in DOMAIN warnings : warnings[k] = i
        BY <3>1, <3>4
      <4>2. {l \in DOMAIN warnings : warnings[l] = i} = {k} /\ {l \in DOMAIN parts : parts[l] = images[i]} = {}
        BY <3>2, <3>4, <4>1 DEF ImagesInv, Warned
      <4>3. Cardinality({k}) = 1 /\ Cardinality({}) = 0
        BY FS_EmptySet, FS_Singleton
      <4>. QED
        BY <4>2, <4>3
    <3>. QED
      BY <3>0, <3>3, <3>4
  <2>. QED
    BY <2>9, <2>10, <2>11, OrderedAlike
<1>. QED
  BY <1>1, <1>2 DEF NothingLostSilently, A!NothingLostSilently

\* Every image of a prompt becomes a part, in the order of the list, or has one
\* warning, and the entries that were rejected have one together; for any list, cap,
\* concurrency and order in which the downloads end (attachments.go:58-140).
THEOREM NoImageIsLost == A!ConstantsOK => (A!Spec => []NothingLostSilently)
<1>. SUFFICES ASSUME A!ConstantsOK PROVE A!Spec => []NothingLostSilently
  OBVIOUS
<1>1. A!Init => ImagesInv
  BY ImagesInitInv
<1>2. ImagesInv /\ [A!Next]_(A!vars) => ImagesInv'
  BY ImagesNextInv
<1>3. ImagesInv => NothingLostSilently
  BY ImagesInvImplies
<1>. QED
  BY <1>1, <1>2, <1>3, PTL DEF A!Spec

---------------------------------------------------------------------------
(* A bridge is a PromptLifecycle, so what is proved of that holds here.    *)

LEMMA NextOfPrompts == ASSUME [BridgeNext]_bridgeVars PROVE [Next]_vars
BY DEF BridgeNext, bridgeVars, SendPrompt, PromptSends, RunStep, RestartBridge, Displace, Deliver, Next

\* Whatever the control plane and the event path do, what runs in the bridge is
\* PromptLifecycle.
THEOREM BridgeRunsPrompts == BridgeSpec => Spec
<1>1. BridgeInit => Init
  BY DEF BridgeInit
<1>. QED
  BY <1>1, NextOfPrompts, PTL DEF BridgeSpec, Spec

LEMMA BridgeIInv == BridgeSpec => []IInv
BY BridgeRunsPrompts, AlwaysIInv, PTL

---------------------------------------------------------------------------
(* The event path. *)

\* The places of a prompt that reached its stream.
Late == {"stream", "ended", "endedErr", "complete", "request", "over", "lost"}

\* Only what was accepted is delivered; a completion is accepted once its
\* prompt is completed, with that outcome; an error event comes from the stream
\* of a prompt that failed.
EventsAreTrue ==
    /\ delivered \subseteq accepted
    /\ \A p \in Prompts :
         /\ \A o \in Outcomes : Completion(p, o) \in accepted => done[p] = <<o>>
         /\ ErrorEvent(p) \in accepted =>
              /\ pc[p] \in Late
              /\ pc[p] = "stream" => p \in failed
              /\ done[p] # <<"success">>

\* Prompts never overlap: a control plane that waits sends none while one is
\* in flight.
OneAtATime == ~overlapped

LEMMA Singles ==
    /\ \A o : <<o>> # <<>>
    /\ \A a, b : <<a>> = <<b>> => a = b
<1>1. ASSUME NEW o PROVE <<o>> # <<>>
  OBVIOUS
<1>2. ASSUME NEW a, NEW b, <<a>> = <<b>> PROVE a = b
  <2>1. <<a>>[1] = a /\ <<b>>[1] = b
    OBVIOUS
  <2>. QED
    BY <1>2, <2>1
<1>. QED
  BY <1>1, <1>2

LEMMA Distinct ==
    ASSUME NEW p, NEW q, NEW o, NEW u
    PROVE  /\ Completion(p, o) # ErrorEvent(q)
           /\ Completion(p, o) = Completion(q, u) => p = q /\ o = u
           /\ ErrorEvent(p) = ErrorEvent(q) => p = q
           /\ Completion(p, o).outcome = o
<1>1. Completion(p, o).type = "execution_complete" /\ ErrorEvent(q).type = "error"
  BY DEF Completion, ErrorEvent
<1>2. /\ Completion(p, o).prompt = p /\ Completion(p, o).outcome = o
      /\ Completion(q, u).prompt = q /\ Completion(q, u).outcome = u
  BY DEF Completion
<1>3. ErrorEvent(p).prompt = p /\ ErrorEvent(q).prompt = q
  BY DEF ErrorEvent
<1>. QED
  BY <1>1, <1>2, <1>3

\* A step of p is p's own, completes it at most once, and never with a success
\* once its stream has failed.
Own(p) ==
    /\ \A q \in Prompts \ {p} : pc'[q] = pc[q] /\ done'[q] = done[q] /\ (q \in failed' <=> q \in failed)
    /\ overlapped' = overlapped
    /\ p \in failed' \ failed => pc'[p] = "stream" /\ done'[p] = <<>>
    /\ done[p] # <<>> => done'[p] = done[p]
    /\ pc[p] \in Late => pc'[p] \in Late
    /\ pc[p] \in Late /\ pc'[p] = "stream" => pc[p] = "stream" /\ (p \in failed => p \in failed')
    /\ pc[p] \in Late /\ (pc[p] = "stream" => p \in failed) =>
         done'[p] = done[p] \/ done'[p] \in {<<"failed">>, <<"cancelled">>}

LEMMA OwnStep ==
    ASSUME IInv, NEW p \in Prompts, PromptStep(p) \/ Emit(p) PROVE Own(p)
<1> USE DEF Own, Late
<1>0. /\ pc \in [Prompts -> Places] /\ done \in [Prompts -> {<<>>} \cup {<<o>> : o \in Outcomes}]
      /\ failed \subseteq Prompts /\ output \subseteq Prompts
      /\ pc[p] \in Pending => done[p] = <<>>
  BY DEF IInv, TypeOK, Completions
<1>1. CASE ConfigureIdentity(p)
  BY <1>0, <1>1, AppendOne DEF ConfigureIdentity, Step, Fail, Complete, Pending
<1>2. CASE EnsureSession(p)
  BY <1>0, <1>2 DEF EnsureSession, Step
<1>3. CASE CreateSession(p)
  BY <1>0, <1>3, AppendOne DEF CreateSession, Step, Fail, Complete, Pending
<1>4. CASE ReadIdToSave(p) \/ WriteId(p) \/ Attach(p)
  BY <1>0, <1>4 DEF ReadIdToSave, WriteId, Attach, Step, Pending
<1>5. CASE StreamEnd(p)
  BY <1>0, <1>5, AppendOne DEF StreamEnd, StreamEndWith, Step, Fail, Complete, Pending
<1>6. CASE ClearPromptCancel(p)
  BY <1>0, <1>6 DEF ClearPromptCancel, ClearWith, Step
<1>7. CASE CompleteCancelled(p)
  BY <1>0, <1>7, AppendOne DEF CompleteCancelled, Step, Complete, Pending
<1>8. CASE RequestRefresh(p)
  BY <1>0, <1>8 DEF RequestRefresh, Step
<1>9. CASE Emit(p)
  BY <1>0, <1>9 DEF Emit, Step, Pending
<1>10. CASE RefuseNameless(p)
  BY <1>0, <1>10, AppendOne DEF RefuseNameless, Step, Fail, Complete, Pending
<1>. QED
  BY <1>1, <1>2, <1>3, <1>4, <1>5, <1>6, <1>7, <1>8, <1>9, <1>10 DEF PromptStep

---------------------------------------------------------------------------
(* The steps of the composition. *)

\* What a step of p hands over is the completion it makes, or its error.
LEMMA SentIsTrue ==
    ASSUME IInv, IInv', NEW p \in Prompts, PromptStep(p) \/ Emit(p), Own(p)
    PROVE  /\ \A q \in Prompts : \A o \in Outcomes :
                Completion(q, o) \in Emitted(p) => q = p /\ done'[p] = <<o>>
           /\ \A q \in Prompts :
                ErrorEvent(q) \in Emitted(p) => q = p /\ p \in failed' \ failed
<1>1. /\ done[p] \in {<<>>} \cup {<<o>> : o \in Outcomes}
      /\ done'[p] \in {<<>>} \cup {<<o>> : o \in Outcomes}
      /\ failed' \subseteq Prompts
  BY DEF IInv, TypeOK
<1>2. ASSUME NEW q \in Prompts, NEW o \in Outcomes, Completion(q, o) \in Emitted(p)
      PROVE  q = p /\ done'[p] = <<o>>
  <2>1. Completion(q, o) \in CompletionsOf(p) /\ done'[p] = Append(done[p], Completion(q, o).outcome)
    BY <1>2, Distinct DEF Emitted
  <2>2. q = p /\ done'[p] = Append(done[p], o)
    BY <2>1, Distinct DEF CompletionsOf
  <2>3. done[p] = <<>>
    BY <1>1, <2>2, AppendGrows DEF Own
  <2>. QED
    BY <2>2, <2>3, AppendOne
<1>3. ASSUME NEW q \in Prompts, ErrorEvent(q) \in Emitted(p)
      PROVE  q = p /\ p \in failed' \ failed
  <2>1. ErrorEvent(q) \notin CompletionsOf(p)
    BY Distinct DEF CompletionsOf
  <2>2. PICK u \in failed' \ failed : ErrorEvent(q) = ErrorEvent(u)
    BY <1>3, <2>1 DEF Emitted
  <2>3. q = u
    BY <2>2, Distinct
  <2>. QED
    BY <1>1, <2>2, <2>3 DEF Own
<1>. QED
  BY <1>2, <1>3

LEMMA PromptSendsTrue ==
    ASSUME IInv, IInv', EventsAreTrue, NEW p \in Prompts, PromptSends(p)
    PROVE  EventsAreTrue'
<1>1. Own(p)
  BY OwnStep DEF PromptSends
<1>2. accepted \subseteq accepted' /\ accepted' \subseteq accepted \cup Emitted(p) /\ delivered' = delivered
  BY DEF PromptSends, Send, Events!Offer
<1>3. ASSUME NEW q \in Prompts, NEW o \in Outcomes, Completion(q, o) \in accepted'
      PROVE  done'[q] = <<o>>
  <2>1. CASE Completion(q, o) \in accepted
    BY <1>1, <2>1 DEF EventsAreTrue, Own
  <2>2. CASE Completion(q, o) \in Emitted(p)
    BY <1>1, <2>2, SentIsTrue DEF PromptSends
  <2>. QED
    BY <1>2, <1>3, <2>1, <2>2
<1>4. ASSUME NEW q \in Prompts, ErrorEvent(q) \in accepted'
      PROVE  pc'[q] \in Late /\ (pc'[q] = "stream" => q \in failed') /\ done'[q] # <<"success">>
  <2>1. CASE ErrorEvent(q) \in accepted
    <3>1. pc[q] \in Late /\ (pc[q] = "stream" => q \in failed) /\ done[q] # <<"success">>
      BY <2>1 DEF EventsAreTrue
    <3>2. CASE q # p
      BY <1>1, <3>1, <3>2 DEF Own
    <3>3. CASE q = p
      <4>1. done'[p] = done[p] \/ done'[p] \in {<<"failed">>, <<"cancelled">>}
        BY <1>1, <3>1, <3>3 DEF Own
      <4>2. done'[p] # <<"success">>
        BY <3>1, <3>3, <4>1, Singles
      <4>. QED
        BY <1>1, <3>1, <3>3, <4>2 DEF Own
    <3>. QED
      BY <3>2, <3>3
  <2>2. CASE ErrorEvent(q) \in Emitted(p)
    BY <1>1, <2>2, SentIsTrue DEF PromptSends, Own, Late
  <2>. QED
    BY <1>2, <1>4, <2>1, <2>2
<1>. QED
  BY <1>2, <1>3, <1>4 DEF EventsAreTrue

LEMMA EventsStep ==
    ASSUME IInv, IInv', EventsAreTrue, [BridgeNext]_bridgeVars
    PROVE  EventsAreTrue'
<1>1. ASSUME NEW p \in Prompts, SendPrompt(p) PROVE EventsAreTrue'
  BY <1>1 DEF SendPrompt, StartPrompt, EventsAreTrue, IInv, TypeOK, Late
<1>2. ASSUME NEW p \in Prompts, PromptSends(p) PROVE EventsAreTrue'
  BY <1>2, PromptSendsTrue
<1>3. CASE RunStep
  BY <1>3 DEF RunStep, HandleStop, HandleShutdown, Terminate, LeaveLoop, Exit, EventsAreTrue
<1>4. CASE RestartBridge
  BY <1>4 DEF RestartBridge, Restart, EventsAreTrue, Late
<1>5. CASE Displace \/ Deliver \/ UNCHANGED bridgeVars
  BY <1>5 DEF Displace, Deliver, Events!Offer, Events!Deliver, EventsAreTrue, bridgeVars, vars
<1>. QED
  BY <1>1, <1>2, <1>3, <1>4, <1>5 DEF BridgeNext

LEMMA OneAtATimeStep ==
    ASSUME IInv, EventsAreTrue, OneAtATime, [BridgeNext]_bridgeVars
    PROVE  OneAtATime'
<1>1. ASSUME NEW p \in Prompts, SendPrompt(p) PROVE OneAtATime'
  <2>1. ASSUME NEW q \in InFlight PROVE FALSE
    <3>1. q \in Prompts /\ done[q] = <<>> /\ pc[q] \notin {"new", "lost"}
      BY <2>1 DEF InFlight, Started
    <3>2. PICK o \in Outcomes : Completion(q, o) \in delivered
      BY <1>1, <3>1 DEF SendPrompt, Answered, CompletionsOf, Outcomes
    <3>3. done[q] = <<o>>
      BY <3>1, <3>2 DEF EventsAreTrue
    <3>. QED
      BY <3>1, <3>3, Singles
  <2>. QED
    BY <1>1, <2>1 DEF SendPrompt, StartPrompt, OneAtATime
<1>2. ASSUME NEW p \in Prompts, PromptSends(p) PROVE OneAtATime'
  BY <1>2, OwnStep DEF PromptSends, Own, OneAtATime
<1>3. CASE RunStep \/ RestartBridge
  BY <1>3 DEF RunStep, HandleStop, HandleShutdown, Terminate, LeaveLoop, Exit, RestartBridge, Restart, OneAtATime
<1>4. CASE Displace \/ Deliver \/ UNCHANGED bridgeVars
  BY <1>4 DEF Displace, Deliver, OneAtATime, bridgeVars, vars
<1>. QED
  BY <1>1, <1>2, <1>3, <1>4 DEF BridgeNext

---------------------------------------------------------------------------
(* The answers. *)

LEMMA AnswersHold == ASSUME IInv, EventsAreTrue, OneAtATime PROVE StopReachesIt /\ AnswersAreTrue
<1>1. \A p \in InFlight : p \in Prompts /\ pc[p] \in Pending /\ Started(p)
  <2> SUFFICES ASSUME NEW p \in InFlight PROVE p \in Prompts /\ pc[p] \in Pending /\ Started(p)
    OBVIOUS
  <2>1. p \in Prompts /\ Started(p) /\ pc[p] \in Places \ {"new", "lost"} /\ done[p] = <<>>
    BY DEF InFlight, Started, IInv, TypeOK
  <2>. QED
    BY <2>1 DEF IInv, Completions, Pending, Places
<1>2. LonePromptCancellable
  BY CancellableHolds DEF Cancellable, LonePromptCancellable, OneAtATime
<1>3. ASSUME NEW p \in InFlight, NEW q \in InFlight PROVE p = q
  BY <1>1, <1>3 DEF IInv, Newest, Generations, OneAtATime
<1>4. ASSUME NEW p \in Prompts
      PROVE  /\ \A c \in CompletionsOf(p) \cap delivered : done[p] = <<c.outcome>>
             /\ ErrorEvent(p) \in delivered => Completion(p, "success") \notin accepted
  <2>1. ASSUME NEW c \in CompletionsOf(p) \cap delivered PROVE done[p] = <<c.outcome>>
    <3>1. PICK o \in Outcomes : c = Completion(p, o)
      BY DEF CompletionsOf, Outcomes
    <3>2. c.outcome = o
      BY <3>1, Distinct
    <3>. QED
      BY <3>1, <3>2 DEF EventsAreTrue
  <2>2. ASSUME ErrorEvent(p) \in delivered PROVE Completion(p, "success") \notin accepted
    BY <2>2 DEF EventsAreTrue, Outcomes
  <2>. QED
    BY <2>1, <2>2
<1>. QED
  BY <1>2, <1>3, <1>4 DEF StopReachesIt, AnswersAreTrue

\* To a control plane that waits for its answers, each is one and true, and a
\* stop reaches the prompt that runs.
THEOREM BridgeAnswersTruly == BridgeSpec => [](StopReachesIt /\ AnswersAreTrue)
<1>1. BridgeInit => EventsAreTrue /\ OneAtATime
  BY DEF BridgeInit, Init, EventsAreTrue, OneAtATime
<1>2. IInv /\ IInv' /\ EventsAreTrue /\ OneAtATime /\ [BridgeNext]_bridgeVars
        => EventsAreTrue' /\ OneAtATime'
  BY EventsStep, OneAtATimeStep
<1>3. IInv /\ EventsAreTrue /\ OneAtATime => StopReachesIt /\ AnswersAreTrue
  BY AnswersHold
<1>. QED
  BY <1>1, <1>2, <1>3, BridgeIInv, PTL DEF BridgeSpec
=============================================================================
