---------------------------- MODULE PromptParts ----------------------------
(***************************************************************************)
(* A prompt's goroutine: its life from the command to its completion       *)
(* (PromptLifecycle), and the downloads it waits for on the way            *)
(* (Attachments), side by side, with what each promises.                   *)
(***************************************************************************)
EXTENDS PromptLifecycle

CONSTANTS Lists, NotAList, PerMessage, Concurrency, MaxBytes  \* of Attachments

VARIABLES list, images, rejected, place, state, slots, stopped, warnings, parts

A == INSTANCE Attachments WITH accepted <- images, pc <- place, cancelled <- stopped

attachmentVars == <<list, images, rejected, place, state, slots, stopped, warnings, parts>>

\* Every image of a prompt reaches the agent, in order, or the user is told of it:
\* see Attachments (attachments.go:94-96).
NothingLostSilently == A!TypeOK /\ A!NothingLostSilently
=============================================================================
