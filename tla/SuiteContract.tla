--------------------------- MODULE SuiteContract ---------------------------
(***************************************************************************)
(* What a suite promises to whoever reads its report: the specs selected   *)
(* run one at a time, each of them once, and a spec is reported failed if  *)
(* and only if one of the calls it checked has failed.  How deep in the    *)
(* helpers, deferred functions or cleanups the call was makes no           *)
(* difference.                                                             *)
(***************************************************************************)
CONSTANT Specs

VARIABLES
    verdict,    \* the report
    erred       \* a checked call of the running spec has failed

vars == <<verdict, erred>>

TypeOK ==
    /\ verdict \in [Specs -> {"skipped", "pending", "running", "passed", "failed"}]
    /\ erred \in BOOLEAN

Init ==
    /\ verdict \in [Specs -> {"skipped", "pending"}]
    /\ erred = FALSE

Idle == \A s \in Specs : verdict[s] # "running"

Start(s) ==
    /\ Idle
    /\ verdict[s] = "pending"
    /\ verdict' = [verdict EXCEPT ![s] = "running"]
    /\ erred' = FALSE

Err ==
    /\ ~Idle
    /\ erred' = TRUE
    /\ UNCHANGED verdict

End(s) ==
    /\ verdict[s] = "running"
    /\ verdict' = [verdict EXCEPT ![s] = IF erred THEN "failed" ELSE "passed"]
    /\ UNCHANGED erred

Next == Err \/ \E s \in Specs : Start(s) \/ End(s)

Spec == Init /\ [][Next]_vars
=============================================================================
