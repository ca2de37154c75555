---------------------------- MODULE Attachments ----------------------------
(***************************************************************************)
(* A prompt's images (internal/bridge/attachments.go): the list it came    *)
(* with is cut and checked, each accepted image is downloaded by a         *)
(* goroutine of its own behind a semaphore, and when all have ended the    *)
(* ones that succeeded become file parts, in order.                        *)
(*                                                                         *)
(* A download fails, hangs until its timeout or the prompt's end, or       *)
(* brings a body that is empty or one byte past the cap.                   *)
(***************************************************************************)
EXTENDS Naturals, Sequences, FiniteSets, Sorted

CONSTANTS
    Lists,           \* the attachment lists a prompt may carry: sequences of
                     \* "good" and "bad" entries, or NotAList
    NotAList,
    PerMessage,      \* maxSessionAttachmentsPerMessage
    Concurrency,     \* attachmentDownloadConcurrency
    MaxBytes         \* maxAttachmentBytes

ConstantsOK ==
    /\ PerMessage \in Nat /\ Concurrency \in Nat \ {0} /\ MaxBytes \in Nat \ {0}
    /\ Lists \subseteq Seq({"good", "bad"}) \cup {NotAList}

VARIABLES
    list,      \* the list of the prompt
    accepted,  \* the positions of its accepted entries
    rejected,  \* how many entries were not
    pc,        \* "parse", "download" or "parts"
    state,     \* of each accepted image: "wait", "get", "ok" or "failed"
    slots,     \* the goroutines inside the semaphore
    cancelled, \* the prompt was stopped
    warnings,  \* media warnings: the image that was skipped, 0 for entries
    parts      \* the file parts of the prompt: positions of the list

vars == <<list, accepted, rejected, pc, state, slots, cancelled, warnings, parts>>

Images == 1..Len(accepted)
AtMost(a, b) == IF a < b THEN a ELSE b

\* Beyond the cap entries are rejected unseen; a bad one within it as well.
Accepted(l) ==
    InOrder({i \in 1..AtMost(Len(l), PerMessage) : l[i] = "good"})

Parse ==
    /\ pc = "parse"
    /\ accepted' = IF list = NotAList THEN <<>> ELSE Accepted(list)
    /\ rejected' = IF list = NotAList THEN 1 ELSE Len(list) - Len(accepted')
    /\ warnings' = IF rejected' > 0 THEN Append(warnings, 0) ELSE warnings
    /\ state' = [i \in 1..Len(accepted') |-> "wait"]
    /\ pc' = "download"
    /\ UNCHANGED <<list, slots, cancelled, parts>>

Enter(i) ==
    /\ pc = "download" /\ state[i] = "wait" /\ Cardinality(slots) < Concurrency
    /\ state' = [state EXCEPT ![i] = "get"]
    /\ slots' = slots \cup {i}
    /\ UNCHANGED <<list, accepted, rejected, pc, cancelled, warnings, parts>>

End(i, outcome) ==
    /\ state' = [state EXCEPT ![i] = outcome]
    /\ slots' = slots \ {i}
    /\ UNCHANGED <<list, accepted, rejected, pc, cancelled, parts>>

\* One byte more than the cap is read, so that a longer body is an error.
BodyOK(bytes) == bytes > 0 /\ bytes <= MaxBytes

Body(i) ==
    /\ pc = "download" /\ state[i] = "get" /\ ~cancelled
    /\ \E bytes \in 0..(MaxBytes + 1) :
        IF BodyOK(bytes)
        THEN End(i, "ok") /\ UNCHANGED warnings
        ELSE End(i, "failed") /\ warnings' = Append(warnings, i)

\* An error of any kind, the timeout, or the end of the prompt.
Fail(i) ==
    /\ pc = "download" /\ state[i] = "get"
    /\ End(i, "failed") /\ warnings' = Append(warnings, i)

Stop ==
    /\ pc # "parts" /\ ~cancelled
    /\ cancelled' = TRUE
    /\ UNCHANGED <<list, accepted, rejected, pc, state, slots, warnings, parts>>

\* wg.Wait, and the parts in the order of the list.
FileParts(images) == [k \in DOMAIN images |-> accepted[images[k]]]
AllEnded_First == Images = {} \/ \E i \in Images : state[i] \in {"ok", "failed"}
AllEnded == \A i \in Images : state[i] \in {"ok", "failed"}
BuildFileParts ==
    /\ pc = "download" /\ AllEnded
    /\ parts' = FileParts(InOrder({i \in Images : state[i] = "ok"}))
    /\ pc' = "parts"
    /\ UNCHANGED <<list, accepted, rejected, state, slots, cancelled, warnings>>

Init ==
    /\ list \in Lists
    /\ accepted = <<>> /\ rejected = 0 /\ pc = "parse" /\ state = <<>> /\ slots = {}
    /\ cancelled = FALSE /\ warnings = <<>> /\ parts = <<>>

Step(i) == i \in Images /\ (Enter(i) \/ Body(i) \/ Fail(i))
Next == Parse \/ Stop \/ BuildFileParts \/ \E i \in 1..PerMessage : Step(i)

Spec == Init /\ [][Next]_vars

---------------------------------------------------------------------------
(* Properties. *)

\* The semaphore holds those that download, and no more than its size.
TypeOK ==
    /\ slots = {i \in Images : state[i] = "get"}
    /\ Cardinality(slots) <= Concurrency
    /\ Len(accepted) + rejected = IF pc = "parse" THEN 0 ELSE IF list = NotAList THEN 1 ELSE Len(list)

\* Every image of the prompt reaches the agent or the user is told of it, once,
\* and the images keep their order (attachments.go:94-96).
NothingLostSilently ==
    pc = "parts" =>
        /\ \A i \in Images : Cardinality({k \in DOMAIN warnings : warnings[k] = i})
                               + Cardinality({k \in DOMAIN parts : parts[k] = accepted[i]}) = 1
        /\ rejected > 0 <=> \E k \in DOMAIN warnings : warnings[k] = 0
        /\ \A k \in 1..(Len(parts) - 1) : parts[k] < parts[k + 1]
=============================================================================
