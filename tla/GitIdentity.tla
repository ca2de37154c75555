---------------------------- MODULE GitIdentity ----------------------------
(***************************************************************************)
(* Who a prompt's commits are by, and whether they are signed: the author  *)
(* a prompt names, the signing configuration fetched for it, and the git   *)
(* settings configureGitIdentity writes before the agent starts            *)
(* (internal/bridge/git.go and gitsigning.go).                             *)
(*                                                                         *)
(* The settings are global to the machine.  A prompt fetches its           *)
(* configuration, waits for signingMu and writes one key at a time; any    *)
(* write may fail, and the agent of a prompt may edit the settings.        *)
(***************************************************************************)
EXTENDS Naturals, SequencesExt

CONSTANTS
    Prompts,
    Identities,   \* what prompts may name: see PromptGitAuthor
    Fallback, Override, \* fallbackGitUser and what openinspect.name and .email
                  \* name instead, "" where unset
    Committer,    \* the control plane's identity
    Keys, Off,    \* public keys; signing is off
    None, Several, Refuse,  \* an unset setting, one drifted to many; an error
    MaxChanges    \* bound on changes of the control plane's configuration

ASSUME ChangesAssumption == MaxChanges \in Nat
ASSUME IdentitiesAssumption ==
    Identities \subseteq [Prompts -> [mode : {"agent-only", "attributed-user", "other", "legacy"},
                              name : STRING, email : STRING]]
ASSUME CommitterAssumption == Committer \in [name : STRING, email : STRING]
\* No prompt is called None, and an unset setting is not switched on.
ASSUME NoneAssumption == None \notin Prompts /\ None # "true"

\* signingConfigKeys, in the order they are unset, and the two beside them.
Owned == <<"author.name", "author.email", "committer.name", "committer.email",
           "gpg.format", "gpg.ssh.program", "user.signingkey", "commit.gpgsign">>
Settings == ToSet(Owned) \cup {"user.name", "user.email"}

VARIABLES
    git,      \* git config --global
    server,   \* the control plane's configuration: a key, or Off
    changes,
    state,    \* of each prompt: "new", "fetch", "lock", "apply", "run",
              \* "done" or "refused"
    config,   \* the configuration each prompt fetched
    todo,     \* the writes left to the holder of signingMu
    holder,   \* the prompt that holds signingMu, or None
    identity, \* what each prompt names
    touched,  \* the prompts whose agent edited the settings
    \* history
    commits,  \* the commits made, by prompt
    overlapped \* a prompt was started while another was in progress

envVars == <<server, changes, identity>>
historyVars == <<commits, overlapped>>
vars == <<git, envVars, state, config, todo, holder, touched, historyVars>>

---------------------------------------------------------------------------
(* Who is the author. *)

OrDefault(value, default) == IF value = "" THEN default ELSE value

AgentGitUser == [name |-> OrDefault(Override.name, Fallback.name),
                 email |-> OrDefault(Override.email, Fallback.email)]

\* The user, None for the agent alone, or Refuse.
PromptGitAuthor(p) ==
    LET i == identity[p]
    IN CASE i.mode = "agent-only" -> None
         [] i.mode = "attributed-user" /\ "" \notin {i.name, i.email} ->
              [name |-> i.name, email |-> i.email]
         [] i.mode = "legacy" /\ i.name = "" /\ i.email = "" -> None
         [] i.mode = "legacy" /\ ~(i.name = "" /\ i.email = "") ->
              [name |-> OrDefault(i.name, AgentGitUser.name), email |-> OrDefault(i.email, AgentGitUser.email)]
         [] OTHER -> Refuse

EffectiveGitUser(p) ==
    IF PromptGitAuthor(p) # None THEN PromptGitAuthor(p)
    ELSE IF config[p] # Off THEN Committer ELSE AgentGitUser

---------------------------------------------------------------------------
(* What is written, in order. *)

Unset == [i \in DOMAIN Owned |-> <<Owned[i], None>>]
Signing(key) ==
    << <<"commit.gpgsign", "true">>, <<"committer.email", Committer.email>>,
       <<"committer.name", Committer.name>>, <<"gpg.format", "ssh">>,
       <<"gpg.ssh.program", "signer">>, <<"user.signingkey", key>> >>
Author(u) == << <<"author.email", u.email>>, <<"author.name", u.name>> >>
User(u) == << <<"user.email", u.email>>, <<"user.name", u.name>> >>

Writes_UserOnly(p) ==
    IF config[p] = Off THEN User(EffectiveGitUser(p))
    ELSE Signing(config[p]) \o Author(EffectiveGitUser(p)) \o User(EffectiveGitUser(p))
Writes(p) ==
    IF config[p] = Off THEN Unset \o User(EffectiveGitUser(p))
    ELSE Signing(config[p]) \o Author(EffectiveGitUser(p)) \o User(EffectiveGitUser(p))

---------------------------------------------------------------------------
(* A prompt. *)

InProgress == {p \in Prompts : state[p] \in {"fetch", "lock", "apply", "run"}}

Refused(p) == state' = [state EXCEPT ![p] = "refused"]

Start(p) ==
    /\ state[p] = "new"
    /\ overlapped' = (overlapped \/ InProgress # {})
    /\ IF PromptGitAuthor(p) = Refuse THEN Refused(p) ELSE state' = [state EXCEPT ![p] = "fetch"]
    /\ UNCHANGED <<git, envVars, config, todo, holder, touched, commits>>

\* fetchSigningConfig: a 404 is Off; an error, a timeout or an invalid document
\* refuses the prompt.
Fetch(p) ==
    /\ state[p] = "fetch"
    /\ \/ /\ config' = [config EXCEPT ![p] = server]
          /\ state' = [state EXCEPT ![p] = "lock"]
       \/ Refused(p) /\ UNCHANGED config
    /\ UNCHANGED <<git, envVars, todo, holder, touched, historyVars>>

\* Signing needs a helper that may not be installed.
Lock(p) ==
    /\ state[p] = "lock" /\ holder = None
    /\ \/ /\ todo' = [todo EXCEPT ![p] = Writes(p)] /\ holder' = p
          /\ state' = [state EXCEPT ![p] = "apply"]
       \/ config[p] # Off /\ Refused(p) /\ UNCHANGED <<todo, holder>>
    /\ UNCHANGED <<git, envVars, config, touched, historyVars>>

\* One git config, which replaces or removes every value of the key.
Write(p) ==
    /\ state[p] = "apply" /\ todo[p] # <<>>
    /\ git' = [git EXCEPT ![todo[p][1][1]] = todo[p][1][2]]
    /\ todo' = [todo EXCEPT ![p] = Tail(@)]
    /\ UNCHANGED <<envVars, state, config, holder, touched, historyVars>>

WriteFails(p) ==
    /\ state[p] = "apply" /\ todo[p] # <<>>
    /\ Refused(p) /\ holder' = None
    /\ UNCHANGED <<git, envVars, config, todo, touched, historyVars>>

Applied(p) ==
    /\ state[p] = "apply" /\ todo[p] = <<>>
    /\ holder' = None /\ state' = [state EXCEPT ![p] = "run"]
    /\ UNCHANGED <<git, envVars, config, todo, touched, historyVars>>

Finish(p) ==
    /\ state[p] = "run"
    /\ state' = [state EXCEPT ![p] = "done"]
    /\ UNCHANGED <<git, envVars, config, todo, holder, touched, historyVars>>

---------------------------------------------------------------------------
(* The agent, git and the control plane. *)

Either(a, b) == IF git[a] # None THEN git[a] ELSE git[b]
Signed == git["commit.gpgsign"] = "true" /\ git["gpg.format"] = "ssh" /\ git["gpg.ssh.program"] = "signer"

\* A commit of a prompt's agent, as git attributes and signs it.
Commit(p) ==
    /\ state[p] = "run" /\ p \notin touched
    /\ commits' = [commits EXCEPT ![p] = @ \cup
          {[author |-> [name |-> Either("author.name", "user.name"),
                        email |-> Either("author.email", "user.email")],
            key |-> IF Signed THEN git["user.signingkey"] ELSE Off]}]
    /\ UNCHANGED <<git, envVars, state, config, todo, holder, touched, overlapped>>

\* The agent has a shell and edits the settings; while they are being written
\* is not considered, since nothing the bridge does could hold against it.
Drift(p) ==
    /\ state[p] = "run" /\ p \notin touched /\ holder = None
    /\ \E k \in {"commit.gpgsign", "author.name"} : git' = [git EXCEPT ![k] = Several]
    /\ touched' = touched \cup {p}
    /\ UNCHANGED <<envVars, state, config, todo, holder, historyVars>>

ChangeServer ==
    /\ changes < MaxChanges
    /\ server' \in (Keys \cup {Off}) \ {server}
    /\ changes' = changes + 1
    /\ UNCHANGED <<git, state, config, todo, holder, touched, historyVars, identity>>

Init ==
    /\ git = [k \in Settings |-> None]
    /\ server \in Keys \cup {Off} /\ changes = 0
    /\ state = [p \in Prompts |-> "new"] /\ config = [p \in Prompts |-> Off]
    /\ todo = [p \in Prompts |-> <<>>] /\ holder = None
    /\ touched = {} /\ commits = [p \in Prompts |-> {}]
    /\ identity \in Identities /\ overlapped = FALSE

Step(p) == Fetch(p) \/ Lock(p) \/ Write(p) \/ WriteFails(p) \/ Applied(p)
Next ==
    \/ \E p \in Prompts : Start(p) \/ Step(p) \/ Finish(p) \/ Commit(p) \/ Drift(p)
    \/ ChangeServer

Spec == Init /\ [][Next]_vars

\* The fetch and every git config have a timeout, and the bridge keeps running.
FairSpec == Spec /\ \A p \in Prompts : WF_vars(Step(p))

---------------------------------------------------------------------------
(* Properties. *)

\* One prompt at a time writes, under signingMu.
TypeOK ==
    /\ git \in [Settings -> {None, Several, "true", "ssh", "signer"} \cup Keys
         \cup {AgentGitUser.name, AgentGitUser.email, Committer.name, Committer.email}
         \cup {identity[p].name : p \in Prompts} \cup {identity[p].email : p \in Prompts}]
    /\ holder \in Prompts \cup {None}
    /\ \A p \in Prompts : state[p] = "apply" <=> holder = p

\* A prompt is by the user it names, by the committer when it names none and
\* commits are signed, and by the agent otherwise: "a commit made with the
\* wrong author, or unsigned under a signing deployment, is worse than a
\* refused prompt" (git.go:63-64).  What an earlier prompt left behind, in
\* whole or in part, or what an agent changed, does not count.
CommitsAsAsked ==
    ~overlapped => \A p \in Prompts : \A c \in commits[p] : c.author = EffectiveGitUser(p) /\ c.key = config[p]

\* When a prompt's settings are in place they are all in place, whatever the
\* machine held before and whoever else was waiting (gitsigning.go:119-122).
Reconciled ==
    [][\A p \in Prompts : Applied(p) =>
         LET u == EffectiveGitUser(p)
             on == config[p] # Off
         IN /\ git["user.name"] = u.name /\ git["user.email"] = u.email
            /\ git["author.name"] = IF on THEN u.name ELSE None
            /\ git["author.email"] = IF on THEN u.email ELSE None
            /\ git["user.signingkey"] = IF on THEN config[p] ELSE None
            /\ Signed <=> on]_vars

\* Who a commit is by, and its signature, are the prompt's.
RightlyAttributed == [](TypeOK /\ CommitsAsAsked) /\ Reconciled

\* A prompt whose identity is looked up runs or is refused: no failure leaves
\* the next one waiting for signingMu.
AlwaysDecided == \A p \in Prompts : state[p] = "fetch" ~> state[p] \in {"run", "done", "refused"}
=============================================================================
