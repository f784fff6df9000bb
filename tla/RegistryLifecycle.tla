------------------------- MODULE RegistryLifecycle -------------------------
(***************************************************************************)
(* utils/apicurio/registry.go: how the specs of a suite create, await and  *)
(* delete, one after the other, an ApicurioRegistry of the same name.      *)
(*                                                                         *)
(* Three parties share it.  The API server holds the resource (the CR).    *)
(* The operator makes a Deployment, a Service and, on OpenShift, a Route   *)
(* for it, and the garbage collector takes them away some time after their *)
(* CR is gone.  The harness writes to the API server but reads the CR from *)
(* an informer cache that lags behind it; the children it lists directly,  *)
(* by the label they share with those of every earlier CR of that name.    *)
(*                                                                         *)
(* The CRs are counted: the n-th one ever created is incarnation n.        *)
(***************************************************************************)
EXTENDS Naturals

CONSTANT Uses       \* how many specs of the suite use the registry

ASSUME RegistryAssumption == Uses \in Nat

Incarnations == 1 .. Uses

VARIABLES
    uses,           \* specs started so far
    created, gone,  \* CRs created, and removed, in the API server
    deleting,       \* the CR has its deletion timestamp
    seenCreated, seenGone,  \* the same as far as the informer cache knows
    deployment, service, route,     \* the children of every incarnation
    openshift,      \* SuiteContext.IsOpenshift
    pc,             \* where the running spec is
    found,          \* what Get returned to DeleteRegistryAndWait
    ctx,            \* whose child the TestContext was filled from, and the host
    failed,         \* the running or last spec has failed
    unconfirmed,    \* history: some wait for a removed CR has given up
    cleanStart      \* history: at the last Create nothing of an earlier CR stood and
                    \* all removals were confirmed

api == <<created, gone, deleting>>
cache == <<seenCreated, seenGone>>
children == <<deployment, service, route>>
control == <<uses, openshift, found, ctx, failed, unconfirmed, cleanStart>>
vars == <<api, cache, children, control, pc>>

Places == {"idle", "storage", "create", "crPoll", "deploymentPoll", "routePoll",
           "routeList", "serviceList", "resource", "up", "cleanup",
           "deleteGet", "delete", "waitCr", "waitDeployment"}

\* A Route is admitted with a placeholder first ("the operator first sets the
\* route with a non valid host, and later updates it").
RouteStatus == {"none", "bare", "placeholder", "routable"}

CountsOK ==
    /\ uses \in 0 .. Uses
    /\ created \in 0 .. uses
    /\ gone \in 0 .. created
    /\ seenCreated \in 0 .. created
    /\ seenGone \in 0 .. gone

ChildrenOK ==
    /\ deployment \in [Incarnations -> {"none", "starting", "available"}]
    /\ service \in [Incarnations -> {"none", "exists"}]
    /\ route \in [Incarnations -> RouteStatus]

Contexts == [deployment : Nat, route : Nat, host : RouteStatus, service : Nat, resource : Nat]

ControlOK ==
    /\ deleting \in BOOLEAN
    /\ openshift \in BOOLEAN
    /\ pc \in Places
    /\ found \in BOOLEAN
    /\ ctx \in Contexts
    /\ failed \in BOOLEAN
    /\ unconfirmed \in BOOLEAN
    /\ cleanStart \in BOOLEAN

\* The state is well formed: the cache never knows of more than has happened, and
\* the suite never uses the registry more often than it has specs.
TypeOK == CountsOK /\ ChildrenOK /\ ControlOK

NewContext ==
    [deployment |-> 0, route |-> 0, host |-> "none", service |-> 0, resource |-> 0]

Init ==
    /\ uses = 0
    /\ created = 0 /\ gone = 0 /\ deleting = FALSE
    /\ seenCreated = 0 /\ seenGone = 0
    /\ deployment = [i \in Incarnations |-> "none"]
    /\ service = [i \in Incarnations |-> "none"]
    /\ route = [i \in Incarnations |-> "none"]
    /\ openshift \in BOOLEAN
    /\ pc = "idle"
    /\ found = FALSE
    /\ ctx = NewContext
    /\ failed = FALSE
    /\ unconfirmed = FALSE
    /\ cleanStart = FALSE

----------------------------------------------------------------------------

Exists == created > gone            \* the CR, in the API server
Cached == seenCreated > seenGone    \* the CR, to K8sClient.Get
Standing(child) == {i \in Incarnations : child[i] # "none"}

Goto(place) == pc' = place
Untouched == UNCHANGED <<api, cache, children>>

\* A failed assertion: the spec unwinds into its deferred cleanups.
Fail ==
    /\ Goto("cleanup")
    /\ failed' = TRUE
    /\ UNCHANGED <<uses, openshift, found, ctx, unconfirmed, cleanStart>>

\* The same in the cleanups: what is left of them is skipped.
FailCleanup ==
    /\ Goto("idle")
    /\ failed' = TRUE
    /\ UNCHANGED <<uses, openshift, found, ctx, cleanStart>>

----------------------------------------------------------------------------
(* CreateRegistryAndWait, and WaitForRegistryReady in its middle. *)

StartSpec ==
    /\ pc = "idle"
    /\ uses < Uses
    /\ Goto("storage")
    /\ uses' = uses + 1
    /\ failed' = FALSE
    /\ ctx' = NewContext
    /\ UNCHANGED <<openshift, found, unconfirmed, cleanStart>>
    /\ Untouched

StorageReady ==
    /\ pc = "storage"
    /\ Goto("create")
    /\ UNCHANGED control
    /\ Untouched

Create ==
    /\ pc = "create"
    /\ ~Exists
    /\ created' = created + 1
    /\ cleanStart' = (~unconfirmed /\ Standing(deployment) = {} /\ Standing(service) = {}
                        /\ Standing(route) = {})
    /\ Goto("crPoll")
    /\ UNCHANGED <<uses, openshift, found, ctx, failed, unconfirmed, gone, deleting, cache,
                   children>>

AlreadyExists ==
    /\ pc = "create"
    /\ Exists
    /\ Fail
    /\ Untouched

CrPoll ==
    /\ pc = "crPoll"
    /\ Cached
    /\ Goto("deploymentPoll")
    /\ UNCHANGED control
    /\ Untouched

\* Items[0] of the list is any Deployment with the label.
DeploymentPoll ==
    /\ pc = "deploymentPoll"
    /\ \E i \in Standing(deployment) :
        /\ deployment[i] = "available"
        /\ ctx' = [ctx EXCEPT !.deployment = i]
    /\ Goto(IF openshift THEN "routePoll" ELSE "serviceList")
    /\ UNCHANGED <<uses, openshift, found, failed, unconfirmed, cleanStart>>
    /\ Untouched

\* Mutant: the poll is content with any host.
RoutePollAnyHost ==
    /\ pc = "routePoll"
    /\ \E i \in Standing(route) : route[i] # "bare"
    /\ Goto("routeList")
    /\ UNCHANGED control
    /\ Untouched

RoutePoll ==
    /\ pc = "routePoll"
    /\ \E i \in Standing(route) : route[i] = "routable"
    /\ Goto("routeList")
    /\ UNCHANGED control
    /\ Untouched

\* The list is read again; one Route is expected, with an ingress.
RouteList ==
    /\ pc = "routeList"
    /\ \E i \in Incarnations :
        /\ Standing(route) = {i}
        /\ route[i] # "bare"
        /\ ctx' = [ctx EXCEPT !.route = i, !.host = route[i]]
    /\ Goto("serviceList")
    /\ UNCHANGED <<uses, openshift, found, failed, unconfirmed, cleanStart>>
    /\ Untouched

ServiceList ==
    /\ pc = "serviceList"
    /\ \E i \in Incarnations :
        /\ Standing(service) = {i}
        /\ ctx' = [ctx EXCEPT !.service = i]
    /\ Goto("resource")
    /\ UNCHANGED <<uses, openshift, found, failed, unconfirmed, cleanStart>>
    /\ Untouched

Resource ==
    /\ pc = "resource"
    /\ Cached
    /\ ctx' = [ctx EXCEPT !.resource = seenCreated]
    /\ Goto("up")
    /\ UNCHANGED <<uses, openshift, found, failed, unconfirmed, cleanStart>>
    /\ Untouched

\* The test passes.
TestPasses ==
    /\ pc = "up"
    /\ Goto("cleanup")
    /\ UNCHANGED control
    /\ Untouched

\* Mutant: the Deployment is awaited without a deadline.
DeadlineExceptDeployment ==
    /\ pc \in {"storage", "create", "crPoll", "routePoll", "routeList", "serviceList",
               "resource", "up"}
    /\ Fail
    /\ Untouched

\* A wait gives up, a list is not as expected, a call or the test fails: each
\* may happen at any of these places.
GiveUp ==
    /\ pc \in {"storage", "create", "crPoll", "deploymentPoll", "routePoll", "routeList",
               "serviceList", "resource", "up"}
    /\ Fail
    /\ Untouched

----------------------------------------------------------------------------
(* SaveLogsAndExecuteTestCleanups and DeleteRegistryAndWait. *)

LogsSaved ==
    /\ pc = "cleanup"
    /\ Goto("deleteGet")
    /\ UNCHANGED control
    /\ Untouched

\* NotFound is no failure here.
DeleteGet ==
    /\ pc = "deleteGet"
    /\ found' = Cached
    /\ Goto("delete")
    /\ UNCHANGED <<uses, openshift, ctx, failed, unconfirmed, cleanStart>>
    /\ Untouched

\* Delete sends the name that Get filled in.
Delete ==
    /\ pc = "delete"
    /\ found
    /\ Exists
    /\ deleting' = TRUE
    /\ Goto("waitCr")
    /\ UNCHANGED <<created, gone, cache, children, control>>

\* SaveLogs fails, the object Get left empty has no name to delete, the CR is
\* not there, a call fails.
CleanupFails ==
    /\ pc \in {"cleanup", "deleteGet", "delete"}
    /\ FailCleanup
    /\ UNCHANGED unconfirmed
    /\ Untouched

\* Mutant: the wait does not look.
CrGoneUnseen ==
    /\ pc = "waitCr"
    /\ Goto("waitDeployment")
    /\ UNCHANGED control
    /\ Untouched

CrGone ==
    /\ pc = "waitCr"
    /\ ~Cached
    /\ Goto("waitDeployment")
    /\ UNCHANGED control
    /\ Untouched

CrRemains ==
    /\ pc = "waitCr"
    /\ FailCleanup
    /\ unconfirmed' = TRUE
    /\ Untouched

\* err is assigned and never looked at: gone, timed out or failed, it is the same.
WaitDeployment ==
    /\ pc = "waitDeployment"
    /\ Goto("idle")
    /\ UNCHANGED control
    /\ Untouched

----------------------------------------------------------------------------
(* The cluster. *)

CrFinalized ==
    /\ Exists
    /\ deleting
    /\ gone' = gone + 1
    /\ deleting' = FALSE
    /\ UNCHANGED <<created, cache, children, control, pc>>

\* Mutant: the cache drops a CR as soon as that has its deletion timestamp.
CacheSyncAtTimestamp ==
    /\ \/ /\ Cached
          /\ seenGone < gone \/ deleting
          /\ seenGone' = seenGone + 1
          /\ UNCHANGED seenCreated
       \/ ~Cached /\ seenCreated < created /\ seenCreated' = seenCreated + 1
            /\ UNCHANGED seenGone
    /\ UNCHANGED <<api, children, control, pc>>

\* The informer applies the next event of the watch.
CacheSync ==
    /\ \/ Cached /\ seenGone < gone /\ seenGone' = seenGone + 1 /\ UNCHANGED seenCreated
       \/ ~Cached /\ seenCreated < created /\ seenCreated' = seenCreated + 1
            /\ UNCHANGED seenGone
    /\ UNCHANGED <<api, children, control, pc>>

\* The operator works for the CR that stands.
Operated == Exists /\ ~deleting

OperatorCreates ==
    /\ Operated
    /\ \/ /\ deployment[created] = "none"
          /\ deployment' = [deployment EXCEPT ![created] = "starting"]
          /\ UNCHANGED <<service, route>>
       \/ /\ service[created] = "none"
          /\ service' = [service EXCEPT ![created] = "exists"]
          /\ UNCHANGED <<deployment, route>>
       \/ /\ openshift
          /\ route[created] = "none"
          /\ route' = [route EXCEPT ![created] = "bare"]
          /\ UNCHANGED <<deployment, service>>
    /\ UNCHANGED <<api, cache, control, pc>>

\* Pods become available, and may fail again.
DeploymentChanges ==
    /\ \E i \in Standing(deployment), s \in {"starting", "available"} :
        deployment' = [deployment EXCEPT ![i] = s]
    /\ UNCHANGED <<api, cache, service, route, control, pc>>

RouteAdmitted ==
    /\ \E i \in Incarnations :
        /\ route[i] = "bare"
        /\ route' = [route EXCEPT ![i] = "placeholder"]
    /\ UNCHANGED <<api, cache, deployment, service, control, pc>>

HostUpdated ==
    /\ Operated
    /\ route[created] \in {"bare", "placeholder"}
    /\ route' = [route EXCEPT ![created] = "routable"]
    /\ UNCHANGED <<api, cache, deployment, service, control, pc>>

\* The garbage collector: children of a CR that is gone.
Orphans == {i \in Incarnations : i < created \/ (i = created /\ ~Exists)}

Collected ==
    /\ \E i \in Orphans :
        \/ /\ deployment[i] # "none"
           /\ deployment' = [deployment EXCEPT ![i] = "none"]
           /\ UNCHANGED <<service, route>>
        \/ /\ service[i] # "none"
           /\ service' = [service EXCEPT ![i] = "none"]
           /\ UNCHANGED <<deployment, route>>
        \/ /\ route[i] # "none"
           /\ route' = [route EXCEPT ![i] = "none"]
           /\ UNCHANGED <<deployment, service>>
    /\ UNCHANGED <<api, cache, control, pc>>

----------------------------------------------------------------------------

Bringup == \/ StorageReady \/ Create \/ AlreadyExists \/ CrPoll \/ DeploymentPoll
           \/ RoutePoll \/ RouteList \/ ServiceList \/ Resource \/ TestPasses \/ GiveUp

Teardown == \/ LogsSaved \/ DeleteGet \/ Delete \/ CleanupFails \/ CrGone \/ CrRemains
            \/ WaitDeployment

HarnessStep == StartSpec \/ Bringup \/ Teardown

ClusterStep == \/ CrFinalized \/ CacheSync \/ OperatorCreates \/ DeploymentChanges
               \/ RouteAdmitted \/ HostUpdated \/ Collected

\* The suite is over.
Terminated == pc = "idle" /\ uses = Uses /\ UNCHANGED vars

Next == HarnessStep \/ ClusterStep \/ Terminated

Spec == Init /\ [][Next]_vars

\* The spec's goroutine keeps running; nothing is assumed of the cluster.
FairSpec == Spec /\ WF_vars(Bringup \/ Teardown)

----------------------------------------------------------------------------
(* What must hold, and why it does. *)

\* One CR of that name at a time, in the API server and in the cache.
OneAtATime ==
    /\ created <= gone + 1
    /\ seenGone <= seenCreated /\ seenCreated <= seenGone + 1
    /\ deleting => Exists
    /\ pc \in {"storage", "create"} => created < uses

\* As long as every wait for a removed CR has seen it go, the cache lags by one
\* CR at most, and only the spec that waits in waitCr can see it lag behind a removal.
CacheKeepsUp ==
    ~unconfirmed =>
        /\ created <= seenGone + 1
        /\ ~Exists /\ pc # "waitCr" => seenGone = gone
        /\ deleting => pc = "waitCr"
        /\ pc = "delete" /\ found => seenCreated = created
        /\ pc = "waitCr" => seenCreated = created

\* The places from Create to the end of the test; those behind each poll.
Serving == {"crPoll", "deploymentPoll", "routePoll", "routeList", "serviceList",
            "resource", "up"}
PastDeployment == Serving \ {"crPoll", "deploymentPoll"}
PastRoute == {"serviceList", "resource", "up"}

Alone(child) == \A i \in Incarnations : child[i] # "none" => i = created

OwnChildrenOnly ==
    pc \in Serving /\ cleanStart =>
        /\ ~unconfirmed /\ Exists
        /\ Alone(deployment) /\ Alone(service) /\ Alone(route)
        /\ pc \in PastDeployment => ctx.deployment = created
        /\ pc = "routeList" => route[created] = "routable"
        /\ pc \in PastRoute /\ openshift => ctx.route = created /\ ctx.host = "routable"
        /\ pc \in {"resource", "up"} => ctx.service = created
        /\ pc = "up" => ctx.resource = created

\* When DeleteRegistryAndWait stops looking for the CR, and its caller goes on to
\* remove the database or the Kafka cluster, the CR is gone from the API server,
\* although only the cache was asked; and a spec that reports success has left no
\* CR.  A wait that gave up in an earlier spec voids this: the cache may then still
\* show the CR of that spec.
DeletedMeansGone ==
    /\ pc = "waitDeployment" /\ ~unconfirmed => ~Exists
    /\ pc = "idle" /\ ~failed /\ ~unconfirmed => ~Exists

\* The inductive invariant.
IInv == TypeOK /\ OneAtATime /\ CacheKeepsUp /\ OwnChildrenOnly /\ DeletedMeansGone

\* When CreateRegistryAndWait returns, the TestContext describes the registry just
\* created and no earlier one, and its host is the routable one, provided that it had
\* a clean start: no child of an earlier CR was left when it was created, and no
\* earlier wait for a removal had given up, so that the cache knew of the removal.
\* The operator is taken to make nothing, late, for a CR that is deleted.
FreshRegistryIsServed ==
    pc = "up" /\ cleanStart =>
        /\ ctx.deployment = created /\ ctx.service = created /\ ctx.resource = created
        /\ openshift => ctx.route = created /\ ctx.host = "routable"

\* Every spec that starts ends, whatever the cluster does.
EverySpecEnds == (pc # "idle") ~> (pc = "idle")

\* registry.go:26: the deployment of the registry created is awaited.
UpMeansOwnDeployment == pc = "up" => ctx.deployment = created
=============================================================================
