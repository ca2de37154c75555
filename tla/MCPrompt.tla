------------------------------ MODULE MCPrompt ------------------------------
(***************************************************************************)
(* An instance for TLC of a prompt's goroutine: its life from the command  *)
(* to its completion (PromptLifecycle), and the downloads it waits for on  *)
(* the way (Attachments).  The two share no state, so a behaviour here is  *)
(* one of either, chosen first.                                            *)
(***************************************************************************)
EXTENDS PromptParts

VARIABLE part

\* Up to one entry more than the cap, a bad one anywhere, and no list at all.
AllLists == UNION {[1..n -> {"good", "bad"}] : n \in 0..5} \cup {NotAList}

ASSUME AttachmentConstants == A!ConstantsOK

all == <<part, vars, attachmentVars>>

PartsInit ==
    /\ Init /\ A!Init
    /\ \/ part = "lifecycle" /\ list = NotAList
       \/ part = "attachments"

PartsNext ==
    /\ UNCHANGED part
    /\ \/ part = "lifecycle" /\ Next /\ UNCHANGED attachmentVars
       \/ part = "attachments" /\ A!Next /\ UNCHANGED vars

\* The fairness of PromptLifecycle; the goroutine of each download runs, and
\* one ends by attachmentDownloadTimeout.
Fairness ==
    /\ WF_vars(part = "lifecycle" /\ LeaveLoop) /\ WF_vars(part = "lifecycle" /\ Exit)
    /\ \A p \in Prompts : WF_vars(part = "lifecycle" /\ PromptStep(p))
    /\ WF_attachmentVars(part = "attachments" /\ (A!Parse \/ A!BuildFileParts))
    /\ \A i \in 1..PerMessage : WF_attachmentVars(part = "attachments" /\ A!Step(i))

PartsSpec == PartsInit /\ [][PartsNext]_all /\ Fairness

---------------------------------------------------------------------------
(* Properties: those of PromptLifecycle and PromptParts, and                *)

\* No prompt hangs: it goes on with whatever images could be had
\* (prompt.go:66-75), and its goroutine ends, whatever OpenCode does.
NoPromptHangs == (part = "attachments" ~> place = "parts") /\ PromptsEnd
=============================================================================
