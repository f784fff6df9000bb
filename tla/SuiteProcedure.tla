--------------------------- MODULE SuiteProcedure ---------------------------
(***************************************************************************)
(* What README.md:27-34 says every suite does, for whoever reads the       *)
(* verdicts: it deploys the operator, runs its specs only once that has    *)
(* succeeded, removes the operator and cleans up in either case; and it is *)
(* reported passed only if nothing failed and the cluster is clean.  A     *)
(* process that dies promises nothing.                                     *)
(***************************************************************************)
EXTENDS Sequences

VARIABLES
    phase,      \* idle, before, specs, after
    failed,     \* something has failed in this run
    report,     \* the verdicts so far
    clean       \* nothing of the suite that ran last is there to stay

vars == <<phase, failed, report, clean>>

Init ==
    /\ phase = "idle"
    /\ failed = FALSE
    /\ report = <<>>
    /\ clean = TRUE

\* The next suite may find what another one has left.
Start ==
    /\ phase = "idle"
    /\ phase' = "before"
    /\ failed' = FALSE
    /\ clean' \in BOOLEAN
    /\ UNCHANGED report

Deployed ==
    /\ phase = "before"
    /\ ~failed
    /\ phase' = "specs"
    /\ clean' \in BOOLEAN
    /\ UNCHANGED <<failed, report>>

NotDeployed ==
    /\ phase = "before"
    /\ phase' = "after"
    /\ failed' = TRUE
    /\ clean' \in BOOLEAN
    /\ UNCHANGED report

Tested ==
    /\ phase = "specs"
    /\ phase' = "after"
    /\ failed' \in BOOLEAN
    /\ clean' \in BOOLEAN
    /\ UNCHANGED report

CleanedUp ==
    /\ phase = "after"
    /\ ~failed
    /\ phase' = "idle"
    /\ report' = Append(report, "passed")
    /\ clean'
    /\ UNCHANGED failed

Failed ==
    /\ phase = "after"
    /\ phase' = "idle"
    /\ failed' = TRUE
    /\ report' = Append(report, "failed")
    /\ clean' \in BOOLEAN

Die ==
    /\ phase # "idle"
    /\ phase' = "idle"
    /\ report' = Append(report, "died")
    /\ clean' \in BOOLEAN
    /\ UNCHANGED failed

\* Between suites what is left may still go, and nothing comes back.
Settle ==
    /\ clean' \in BOOLEAN
    /\ phase = "idle" /\ clean => clean'
    /\ UNCHANGED <<phase, failed, report>>

Next == Start \/ Deployed \/ NotDeployed \/ Tested \/ CleanedUp \/ Failed \/ Die \/ Settle

Spec == Init /\ [][Next]_vars
=============================================================================
