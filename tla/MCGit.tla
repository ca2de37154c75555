------------------------------- MODULE MCGit -------------------------------
(***************************************************************************)
(* An instance of Git for TLC.  Its three parts share no state, so a       *)
(* behaviour here is one of one of them, chosen first.                     *)
(***************************************************************************)
EXTENDS Git

VARIABLE part

---------------------------------------------------------------------------
(* Identities. *)

Bot == [name |-> "agent", email |-> "agent@"]
Named == [name |-> "bot", email |-> ""]
Machine == [name |-> "machine", email |-> "machine@"]
Asked(mode, name, email) == [mode |-> mode, name |-> name, email |-> email]

\* Two prompts: a user or half of a legacy pair, and the agent alone, the other
\* half, or one that is refused.
Pair(a, b) == ("p1" :> a) @@ ("p2" :> b)
Ann == Asked("attributed-user", "ann", "ann@")
Pairs == {Pair(Ann, Asked("agent-only", "", "")),
          Pair(Asked("legacy", "ben", ""), Asked("legacy", "", "cy@")),
          Pair(Ann, Asked("attributed-user", "ben", ""))}

---------------------------------------------------------------------------
(* Credentials are configured in MCGit.cfg: two helpers and two hosts, and a *)
(* credential nears its end a tick after it was brokered, or has none.       *)

---------------------------------------------------------------------------
(* Pushes. *)

S(present, owner, name, branch, url) ==
    [present |-> present, owner |-> owner, name |-> name, branch |-> branch, url |-> url]

\* A member in other letters, one that is not, nobody, and every invalid spec.
PushSpecs ==
    {S(TRUE, "Acme", "app", TRUE, TRUE), S(TRUE, "Acme", "other", TRUE, TRUE),
     S(TRUE, Absent, Absent, TRUE, TRUE), S(TRUE, "Acme", Absent, TRUE, TRUE),
     S(TRUE, "acme", "docs", FALSE, TRUE), S(TRUE, "acme", "docs", TRUE, FALSE),
     S(FALSE, Absent, Absent, FALSE, FALSE)}
Folded == [n \in {"Acme", "acme", "App", "app", "docs", "other"} |->
              IF n = "Acme" THEN "acme" ELSE IF n = "App" THEN "app" ELSE n]
Members == <<[owner |-> "acme", name |-> "docs", path |-> "docs"],
             [owner |-> "acme", name |-> "App", path |-> "app"]>>
Dirs == <<"app", "docs">>

---------------------------------------------------------------------------
ASSUME CredentialConstants == K!ConstantsOK
ASSUME PushConstants == P!ConstantsOK

PartsInit ==
    /\ Init /\ K!Init /\ P!Init
    /\ part \in {"identity", "credentials", "push"}
    /\ part # "identity" => server = Off /\ identity = Pair(Ann, Asked("agent-only", "", ""))
    /\ part # "push" => there = {} /\ spec = S(FALSE, Absent, Absent, FALSE, FALSE)

PartsNext ==
    /\ UNCHANGED part
    /\ \/ part = "identity" /\ Next /\ UNCHANGED <<credentialVars, pushVars>>
       \/ part = "credentials" /\ K!Next /\ UNCHANGED <<vars, pushVars>>
       \/ part = "push" /\ P!Next /\ UNCHANGED <<vars, credentialVars>>

\* The fairness of GitIdentity; timers fire and the bridge keeps running, while
\* git push need not do anything.
Fairness ==
    /\ \A p \in Prompts : WF_vars(part = "identity" /\ Step(p))
    /\ WF_pushVars(part = "push" /\ P!Deadline)
    /\ WF_pushVars(part = "push" /\ P!WaitDelay)
    /\ WF_pushVars(part = "push" /\ P!Finishing)

PartsSpec == PartsInit /\ [][PartsNext]_<<part, vars, credentialVars, pushVars>> /\ Fairness

---------------------------------------------------------------------------
(* Properties: those of Git, and *)

\* Every push is answered although git hangs, ignores SIGTERM or leaves a child
\* behind: the commands after it wait for it (git.go:254-312).  And every prompt
\* whose identity is looked up runs or is refused.
AlwaysAnswered == (place # "idle" ~> place = "idle") /\ AlwaysDecided
=============================================================================
