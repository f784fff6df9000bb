--------------------------- MODULE OperatorSuites ---------------------------
(***************************************************************************)
(* The suites around their specs: `ginkgo -r --randomize-suites            *)
(* --keep-going` runs the bundle, the single namespace and the clusterwide *)
(* suite one after the other, in any order, on one cluster.  BeforeSuite   *)
(* connects, deploys selenium and installs the operator; AfterSuite takes  *)
(* it all away.  Each is a list of steps; a failed assertion drops what is *)
(* left of the list, and AfterSuite runs even if BeforeSuite has failed.   *)
(*                                                                         *)
(* What AfterSuite knows of the installation is one package variable,      *)
(* olminfo, assigned when InstallOperatorOLM returns and not before.       *)
(* Whatever a suite leaves on the cluster, the next one meets.             *)
(***************************************************************************)
EXTENDS Naturals, OperatorScripts

CONSTANTS
    Runs,       \* how many suites are run (bound)
    Kinds,      \* the suites
    Configs     \* the environments they are run in

ASSUME SuitesAssumption ==
    /\ Runs \in Nat
    /\ Kinds \subseteq {"bundle", "single", "clusterwide"}
    /\ Configs \subseteq [ownCatalog : BOOLEAN,  \* OLMUseDefaultCatalogSource is not set
                          configured : BOOLEAN,  \* channel and CSV are set
                          selenium : BOOLEAN,    \* isSeleniumNeeded
                          openshift : BOOLEAN,
                          pullSecret : BOOLEAN]  \* ImagePullSecretUser is set

VARIABLES
    kind, config,   \* the suite that runs, or ran last, and its environment
    phase,          \* idle, before (BeforeSuite), specs, after (AfterSuite)
    todo,           \* the steps left of BeforeSuite or AfterSuite
    clients,        \* the clients of SuiteContext are set
    catalog,        \* what InstallOperatorOLM holds as its catalog source
    olminfo,        \* the package variable: see UninstallOperatorOLM
    failed,         \* ginkgo has recorded a failure
    report,         \* the verdicts of the suites that ended
    cluster,        \* the status of every object
    origin,         \* history: the run whose image or manifests it comes from
    calm            \* history: no call of this run has failed of itself

process == <<clients, catalog, olminfo>>
vars == <<kind, config, phase, todo, process, failed, report, cluster, origin, calm>>

Handles == {"nil", "own", "empty"}
Verdicts == {"passed", "failed", "died"}
run == Len(report) + (IF phase = "idle" THEN 0 ELSE 1)

\* The state is well formed: what is left to do are steps of the suites, and there
\* are no more verdicts than runs.
TypeOK ==
    /\ kind \in Kinds
    /\ config \in Configs
    /\ phase \in {"idle", "before", "specs", "after"}
    /\ todo \in Seq(Steps)
    /\ clients \in BOOLEAN
    /\ catalog \in Handles
    /\ olminfo \in Handles \cup {"none"}
    /\ failed \in BOOLEAN
    /\ report \in Seq(Verdicts)
    /\ run \in 0 .. Runs
    /\ cluster \in [Objects -> Status]
    /\ origin \in [Objects -> 0 .. Runs]
    /\ calm \in BOOLEAN

Init ==
    /\ kind \in Kinds
    /\ config \in Configs
    /\ phase = "idle"
    /\ todo = <<>>
    /\ clients = FALSE
    /\ catalog = "nil"
    /\ olminfo = "none"
    /\ failed = FALSE
    /\ report = <<>>
    /\ cluster = [o \in Objects |-> "absent"]
    /\ origin = [o \in Objects |-> 0]
    /\ calm = TRUE

----------------------------------------------------------------------------
(* The run of a suite. *)

At(op) == todo # <<>> /\ Head(todo).op = op
Arg == Head(todo).arg
Advance == todo' = Tail(todo) /\ UNCHANGED <<kind, config, phase, failed, report>>

\* A new process: its variables have their zero values.
StartSuite(k) ==
    /\ phase = "idle"
    /\ Len(report) < Runs
    /\ kind' = k
    /\ phase' = "before"
    /\ todo' = BeforeSuite(k, config)
    /\ clients' = FALSE
    /\ catalog' = "nil"
    /\ olminfo' = "none"
    /\ failed' = FALSE
    /\ calm' = TRUE
    /\ UNCHANGED <<config, report, cluster, origin>>

StartSpecs ==
    /\ phase = "before"
    /\ todo = <<>>
    /\ phase' = "specs"
    /\ UNCHANGED <<kind, config, todo, process, failed, report, cluster, origin, calm>>

\* The specs, some of which may fail; TestSuite has the detail.
EndSpecs ==
    /\ phase = "specs"
    /\ failed' \in BOOLEAN
    /\ phase' = "after"
    /\ todo' = AfterSuite(kind, config, olminfo)
    /\ UNCHANGED <<kind, config, process, report, cluster, origin, calm>>

EndSuite ==
    /\ phase = "after"
    /\ todo = <<>>
    /\ phase' = "idle"
    /\ report' = Append(report, IF failed THEN "failed" ELSE "passed")
    /\ UNCHANGED <<kind, config, todo, process, failed, cluster, origin, calm>>

\* Mutant: a failure of AfterSuite is reported at once, and AfterSuite goes on.
PanicAndGoOn ==
    /\ failed' = TRUE
    /\ todo' = Tail(todo)
    /\ IF phase = "before"
       THEN phase' = "after" /\ UNCHANGED report
       ELSE report' = Append(report, "failed") /\ UNCHANGED phase
    /\ UNCHANGED <<kind, config, process>>

\* Mutant: a failure of BeforeSuite is recovered from and not recorded.
PanicUnrecorded ==
    /\ phase' = IF phase = "before" THEN "after" ELSE "idle"
    /\ todo' = IF phase = "before" THEN AfterSuite(kind, config, olminfo) ELSE <<>>
    /\ report' = IF phase = "before" THEN report ELSE Append(report, "failed")
    /\ UNCHANGED <<kind, config, process, failed>>

\* A panic skips the rest of BeforeSuite and the specs, or of AfterSuite.
Panic ==
    /\ failed' = TRUE
    /\ IF phase = "before"
       THEN /\ phase' = "after"
            /\ todo' = AfterSuite(kind, config, olminfo)
            /\ UNCHANGED report
       ELSE /\ phase' = "idle"
            /\ todo' = <<>>
            /\ report' = Append(report, "failed")
    /\ UNCHANGED <<kind, config, process>>

\* An assertion that fails outside the goroutine of ginkgo (suite.go:118), or a
\* signal: the process ends there and then.
Die ==
    /\ phase # "idle"
    /\ phase' = "idle"
    /\ todo' = <<>>
    /\ report' = Append(report, "died")
    /\ calm' = FALSE
    /\ UNCHANGED <<kind, config, process, failed, cluster, origin>>

----------------------------------------------------------------------------
(* The calls. *)

\* Assertions that pass; and the two waits of CreateCatalogSource for pods, whose
\* timeouts nobody looks at.
Pass ==
    /\ At("check") \/ At("sight") \/ At("settle") \/ (At("logs") /\ clients)
    /\ Advance
    /\ UNCHANGED <<process, cluster, origin, calm>>

Connect ==
    /\ At("connect")
    /\ Advance
    /\ clients' = TRUE
    /\ UNCHANGED <<catalog, olminfo, cluster, origin, calm>>

Accepting(o) == o \in DOMAIN Home => cluster[Home[o]] \in Live
Born(o) == IF o \in Passive THEN "ready" ELSE "pending"

CreateObject ==
    /\ \/ At("create") /\ cluster[Arg] = "absent"
       \/ At("apply")
    /\ Accepting(Arg)
    /\ Advance
    /\ cluster' = [cluster EXCEPT ![Arg] = IF @ = "absent" THEN Born(Arg) ELSE @]
    /\ origin' = [origin EXCEPT ![Arg] = run]
    /\ UNCHANGED <<process, calm>>

\* Create, with AlreadyExists ignored.
AdoptCatalog ==
    /\ At("adopt")
    /\ Advance
    /\ IF cluster["catalog"] = "absent"
       THEN /\ catalog' = "own"
            /\ cluster' = [cluster EXCEPT !["catalog"] = "pending"]
            /\ origin' = [origin EXCEPT !["catalog"] = run]
       ELSE catalog' = "empty" /\ UNCHANGED <<cluster, origin>>
    /\ UNCHANGED <<clients, olminfo, calm>>

\* The value of InstallOperatorOLM is assigned.
ReturnInfo ==
    /\ At("return")
    /\ Advance
    /\ olminfo' = catalog
    /\ UNCHANGED <<clients, catalog, cluster, origin, calm>>

Deleted(objects) ==
    [o \in Objects |-> IF o \in objects /\ cluster[o] # "absent" THEN "terminating" ELSE cluster[o]]

DeleteObject ==
    /\ \/ At("delete") /\ cluster[Arg] # "absent"
       \/ At("deleteQuietly") \/ At("deleteIfFound")
       \/ At("deleteCsv") /\ cluster[Arg] # "absent"
    /\ Advance
    /\ cluster' = Deleted({Arg})
    /\ UNCHANGED <<process, origin, calm>>

\* The pods of the catalog source, or of the bundle's operator, are deleted.  That may be
\* seen, or the last observed state still be READY when the next wait looks at it.
RestartPods ==
    /\ At("restart")
    /\ Advance
    /\ cluster' \in {cluster, [cluster EXCEPT ![Arg] = IF @ = "ready" THEN "pending" ELSE @]}
    /\ UNCHANGED <<process, origin, calm>>

\* DeleteSubscription returns without waiting for the operator.
NoCsv ==
    /\ At("deleteCsv")
    /\ cluster[Arg] = "absent"
    /\ todo' = Tail(Tail(todo))
    /\ UNCHANGED <<kind, config, phase, failed, report, process, cluster, origin, calm>>

InFile == {"manifests", "clusterManifests"}

\* kubectl delete -f removes what it finds and fails if anything was missing.
DeleteFile ==
    /\ At("deleteFile")
    /\ cluster' = Deleted(InFile)
    /\ IF \A o \in InFile : cluster[o] # "absent"
       THEN Advance /\ UNCHANGED process
       ELSE Panic
    /\ UNCHANGED <<origin, calm>>

Gone(objects) == \A o \in objects : cluster[o] = "absent"

Observed ==
    \/ At("await") /\ cluster[Arg] = "ready"
    \/ At("found") /\ cluster[Arg] # "absent"
    \/ At("lookUp") /\ (config.ownCatalog => cluster[Arg] = "ready")
    \/ At("awaitGone") /\ Gone({Arg})
    \/ At("finalize") /\ Gone(InFile)

PollDone ==
    /\ Observed
    /\ Advance
    /\ UNCHANGED <<process, cluster, origin, calm>>

\* Mutant: the poll for the operator has no timeout.
NoTimeoutForOperator(op) == op \in {"found", "awaitGone"}

HasTimeout(op) == op \in {"await", "found", "awaitGone"}

Deadline ==
    /\ todo # <<>> /\ HasTimeout(Head(todo).op)
    /\ ~Observed
    /\ Panic
    /\ calm' = FALSE
    /\ UNCHANGED <<cluster, origin>>

\* The poll for the package manifest takes the empty object of a NotFound for an
\* answer and ends at once, without a channel.
Refusal ==
    \/ At("create") /\ (cluster[Arg] # "absent" \/ ~Accepting(Arg))
    \/ At("apply") /\ ~Accepting(Arg)
    \/ At("lookUp") /\ ~Observed
    \/ At("delete") /\ cluster[Arg] = "absent"
    \/ At("deleteIfFound") /\ cluster[Arg] = "terminating"
    \/ At("deleteUnnamed")
    \/ At("logs") /\ ~clients

Refused ==
    /\ Refusal
    /\ Panic
    /\ UNCHANGED <<cluster, origin, calm>>

\* The calls that cannot fail of themselves.
Harmless == {"sight", "settle", "return"}

Misfortune ==
    /\ todo # <<>> /\ Head(todo).op \notin Harmless
    /\ Panic
    /\ calm' = FALSE
    /\ UNCHANGED <<cluster, origin>>

----------------------------------------------------------------------------
(* The cluster. *)

\* A catalog source in service: this suite's, or one of the cluster's own.
Serving == config.ownCatalog => cluster["catalog"] = "ready"

\* What a controller makes comes from where its maker does, a CSV from the catalog.
Source(o) ==
    IF o \in {"csv", "wideCsv"} /\ config.ownCatalog THEN origin["catalog"] ELSE origin[Maker[o]]

ControllerCreates(o) ==
    /\ o \in DOMAIN Maker
    /\ cluster[o] = "absent"
    /\ cluster[Maker[o]] \in Live
    /\ Accepting(o)
    /\ o \in {"csv", "wideCsv", "manifest"} => Serving
    /\ o = "manifest" => ~config.configured     \* nobody looks for it otherwise
    /\ cluster' = [cluster EXCEPT ![o] = Born(o)]
    /\ origin' = [origin EXCEPT ![o] = Source(o)]
    /\ UNCHANGED <<kind, config, phase, todo, process, failed, report, calm>>

Changes(o, from, to) ==
    /\ cluster[o] = from
    /\ cluster' = [cluster EXCEPT ![o] = to]
    /\ origin' = [origin EXCEPT ![o] = IF to = "absent" THEN 0 ELSE @]
    /\ UNCHANGED <<kind, config, phase, todo, process, failed, report, calm>>

BecomesReady(o) == Changes(o, "pending", "ready")

\* An object goes with its owner, or when its namespace is on its way out.
Collected(o) ==
    /\ \/ o \in DOMAIN Owner /\ cluster[Owner[o]] = "absent"
       \/ o \in DOMAIN Home /\ ~Accepting(o)
    /\ \E from \in Live : Changes(o, from, "terminating")

\* A namespace goes last.
Vanishes(o) ==
    /\ \A p \in DOMAIN Home : Home[p] = o => cluster[p] = "absent"
    /\ Changes(o, "terminating", "absent")

----------------------------------------------------------------------------

RunStep == (\E k \in Kinds : StartSuite(k)) \/ StartSpecs \/ EndSpecs \/ EndSuite

CallStep == \/ Pass \/ Connect \/ CreateObject \/ AdoptCatalog \/ ReturnInfo \/ DeleteObject
            \/ RestartPods \/ NoCsv \/ DeleteFile \/ PollDone \/ Deadline \/ Refused

ClusterStep ==
    \E o \in Objects :
        ControllerCreates(o) \/ BecomesReady(o) \/ Collected(o) \/ Vanishes(o)

AllDone == phase = "idle" /\ Len(report) = Runs
Terminated == AllDone /\ UNCHANGED vars

Next == RunStep \/ CallStep \/ Misfortune \/ Die \/ ClusterStep \/ Terminated

Spec == Init /\ [][Next]_vars

\* The process is scheduled and its waits expire; the cluster ends the deletion of
\* the operator's manifests, for which `kubectl delete` waits without a timeout.
FairSpec == /\ Spec
            /\ WF_vars(RunStep \/ CallStep)
            /\ \A o \in InFile : WF_vars(Vanishes(o))

----------------------------------------------------------------------------

\* What stays for good: at work, and nobody is about to collect it.
Stays(o) ==
    /\ cluster[o] \in Live
    /\ o \in DOMAIN Owner => cluster[Owner[o]] \in Live
    /\ Accepting(o)

Left == \E o \in Own[kind] \cup Selenium : Stays(o)

LastVerdict == report[Len(report)]

\* A suite reported green leaves nothing of what it makes, whatever the suites
\* before it had left: the leftovers it took over are gone, or it is not green.
GreenRunIsClean ==
    phase = "idle" /\ report # <<>> /\ LastVerdict = "passed" => ~Left

\* The specs run against the operator of this run's own catalog or manifests, as
\* long as every suite before was green.
SpecsMeetOwnOperator ==
    phase = "specs" /\ (\A i \in DOMAIN report : report[i] = "passed") =>
        cluster[Operator[kind]] = "ready" /\ origin[Operator[kind]] = run

\* The single namespace suite frees the test namespace even when it could not
\* install, so that the next suite can: if no call fails of itself, and it has not
\* taken over a catalog source.
NamespaceIsFreed ==
    phase = "idle" /\ report # <<>> /\ kind = "single" /\ calm /\ olminfo # "empty" =>
        ~Stays("namespace")

\* The suites carry out the procedure of README.md:27-34.
Procedure == INSTANCE SuiteProcedure
                WITH phase <- phase, failed <- failed, report <- report, clean <- ~Left
ImplementsProcedure == Procedure!Spec

\* README.md:34: the operator is removed and any other resources are cleaned up.
EveryRunCleansUp == phase = "idle" /\ report # <<>> /\ calm => ~Left

\* Every suite ends: no poll is endless, and a failure at any point still leads
\* through AfterSuite to a verdict.
EverySuiteEnds == <>AllDone
=============================================================================
