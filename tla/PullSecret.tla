----------------------------- MODULE PullSecret -----------------------------
(***************************************************************************)
(* SetPullSecret (kubernetes.go:182): the default service account of a new *)
(* namespace is awaited, read, changed and written back, while controllers *)
(* of the cluster create it and bind secrets of their own to it.  The API  *)
(* server refuses to write an object that has changed since it was read.   *)
(***************************************************************************)
EXTENDS Naturals

CONSTANTS
    Others,     \* the secrets that controllers bind
    Own,        \* the pull secret of the suite
    Changes     \* how often the account is changed otherwise (bound)

VARIABLES
    binding,    \* where SetPullSecret is: waiting, found, changed, bound, failed
    account,    \* the service account exists
    version,    \* its resourceVersion
    secrets,    \* its imagePullSecrets
    copy,       \* the object SetPullSecret has read
    granted     \* history: the secrets whose binding has been confirmed

bindVars == <<binding, account, version, secrets, copy, granted>>

All == Others \cup {Own}

TypeOK ==
    /\ binding \in {"waiting", "found", "changed", "bound", "failed"}
    /\ account \in BOOLEAN
    /\ version \in Nat
    /\ secrets \subseteq All
    /\ copy \in [version : Nat, secrets : SUBSET All]
    /\ granted \subseteq All

Init ==
    /\ binding = "waiting"
    /\ account = FALSE
    /\ version = 0
    /\ secrets = {}
    /\ copy = [version |-> 0, secrets |-> {}]
    /\ granted = {}

----------------------------------------------------------------------------
(* SetPullSecret. *)

AccountFound ==
    /\ binding = "waiting"
    /\ account
    /\ binding' = "found"
    /\ UNCHANGED <<account, version, secrets, copy, granted>>

\* The wait of ten seconds expires, or a call fails of itself.
GiveUp ==
    /\ binding \in {"waiting", "found", "changed"}
    /\ binding' = "failed"
    /\ UNCHANGED <<account, version, secrets, copy, granted>>

\* Get, and the append to the copy.
GetAccount ==
    /\ binding = "found"
    /\ copy' = [version |-> version, secrets |-> secrets \cup {Own}]
    /\ binding' = "changed"
    /\ UNCHANGED <<account, version, secrets, granted>>

\* Mutant: the copy has lost its resourceVersion, so the write always goes through.
UpdateUnconditionally ==
    /\ binding = "changed"
    /\ binding' = "bound"
    /\ secrets' = copy.secrets
    /\ version' = version + 1
    /\ granted' = granted \cup {Own}
    /\ UNCHANGED <<account, copy>>

\* A conflict is not retried: the suite fails.
UpdateAccount ==
    /\ binding = "changed"
    /\ IF copy.version = version
       THEN /\ binding' = "bound"
            /\ secrets' = copy.secrets
            /\ version' = version + 1
            /\ granted' = granted \cup {Own}
       ELSE binding' = "failed" /\ UNCHANGED <<secrets, version, granted>>
    /\ UNCHANGED <<account, copy>>

----------------------------------------------------------------------------
(* The controllers, which retry on conflict: a change of theirs is atomic. *)

CreateAccount ==
    /\ ~account
    /\ account' = TRUE
    /\ UNCHANGED <<binding, version, secrets, copy, granted>>

BindOther(s) ==
    /\ account
    /\ s \notin granted
    /\ secrets' = secrets \cup {s}
    /\ version' = version + 1
    /\ granted' = granted \cup {s}
    /\ UNCHANGED <<binding, account, copy>>

\* Tokens, labels: the list of pull secrets stays as it is.
ChangeAccount ==
    /\ account
    /\ version < Changes
    /\ version' = version + 1
    /\ UNCHANGED <<binding, account, secrets, copy, granted>>

SetPullSecret == AccountFound \/ GetAccount \/ UpdateAccount
Controllers == CreateAccount \/ ChangeAccount \/ \E s \in Others : BindOther(s)

----------------------------------------------------------------------------

\* A secret that SetPullSecret or a controller has bound stays bound: the suite's
\* write never undoes another's, made between its Get and its Update.
NoSecretLost == granted \subseteq secrets
=============================================================================
