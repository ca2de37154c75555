-------------------------------- MODULE Git --------------------------------
(***************************************************************************)
(* What the bridge does with git: the identity and signing of commits      *)
(* (GitIdentity), the credential helper (CredentialCache) and the push     *)
(* command (Push).  The three share no state; here they stand side by      *)
(* side, with what each promises.                                          *)
(***************************************************************************)
EXTENDS GitIdentity

CONSTANTS
    Procs, Hosts, Buffer, Lifetimes, MaxTime,                    \* of CredentialCache
    Specs, Key, Manifest, RepoName, Clones, Absent, MaxPushes    \* of Push

VARIABLES
    now, file, helper, last, troubled,
    there, count, place, spec, dir, process, stderr, expired, delayed, error, remote, answers

K == INSTANCE CredentialCache
P == INSTANCE Push WITH pc <- place

credentialVars == <<now, file, helper, last, troubled>>
pushVars == <<there, count, place, spec, dir, process, stderr, expired, delayed, error, remote, answers>>

\* Whatever overlaps or fails, git is answered with a credential of its host, out
\* of the file only with more than the buffer left; and a host asked for by a
\* helper alone has its credential in the file from then on, and it is not brokered
\* again while it is fresh: see CredentialCache (gitcred.go:24-34).
CacheServes == K!CacheServes

\* What the control plane is told of a push is so, and no other repository was
\* pushed than the one it asked for: see Push (git.go).
PushedAsAsked == P!PushedAsAsked
=============================================================================
