---------------------- MODULE RegistryLifecycle_proofs ----------------------
(***************************************************************************)
(* Proofs about RegistryLifecycle, for any number of specs that use the    *)
(* registry: IInv is inductive, and what follows from it.                  *)
(***************************************************************************)
EXTENDS RegistryLifecycle, TLAPS

\* The tuples of variables, expanded wherever an action is.
USE RegistryAssumption DEF api, cache, children, control, vars, Untouched, Goto

LEMMA NewContextTyped == NewContext \in Contexts
BY DEF NewContext, Contexts, RouteStatus

LEMMA InitIInv == Init => IInv
<1> SUFFICES ASSUME Init PROVE IInv
    OBVIOUS
<1>1. CountsOK BY DEF Init, CountsOK
<1>2. ChildrenOK BY DEF Init, ChildrenOK, RouteStatus
<1>3. ControlOK BY NewContextTyped DEF Init, ControlOK, Places
<1>4. OneAtATime BY DEF Init, OneAtATime, Exists
<1>5. CacheKeepsUp BY DEF Init, CacheKeepsUp, Exists
<1>6. OwnChildrenOnly BY DEF Init, OwnChildrenOnly, Serving
<1>7. DeletedMeansGone BY DEF Init, DeletedMeansGone, Exists
<1> QED BY <1>1, <1>2, <1>3, <1>4, <1>5, <1>6, <1>7 DEF IInv, TypeOK

----------------------------------------------------------------------------
(* Type correctness. *)

LEMMA CountsStep == TypeOK /\ OneAtATime /\ [Next]_vars => CountsOK'
<1> SUFFICES ASSUME CountsOK, OneAtATime, [Next]_vars PROVE CountsOK'
    BY DEF TypeOK
<1> USE DEF CountsOK, Exists
<1>1. CASE StartSpec BY <1>1 DEF StartSpec
<1>2. CASE Create BY <1>2 DEF Create, OneAtATime
<1>3. CASE CrFinalized BY <1>3 DEF CrFinalized
<1>4. CASE CacheSync BY <1>4 DEF CacheSync, Cached
<1>5. CASE Delete BY <1>5 DEF Delete
<1>6. CASE UNCHANGED <<uses, created, gone, seenCreated, seenGone>> BY <1>6
<1> QED
    BY <1>1, <1>2, <1>3, <1>4, <1>5, <1>6
    DEF Next, HarnessStep, Bringup, Teardown, ClusterStep, Terminated,
        StorageReady, AlreadyExists, CrPoll, DeploymentPoll, RoutePoll, RouteList,
        ServiceList, Resource, TestPasses, GiveUp, LogsSaved, DeleteGet, CleanupFails,
        CrGone, CrRemains, WaitDeployment, OperatorCreates, DeploymentChanges,
        RouteAdmitted, HostUpdated, Collected, Fail, FailCleanup

LEMMA ChildrenStep == TypeOK /\ [Next]_vars => ChildrenOK'
<1> SUFFICES ASSUME ChildrenOK, [Next]_vars PROVE ChildrenOK'
    BY DEF TypeOK
<1> USE DEF ChildrenOK, RouteStatus
<1>1. CASE OperatorCreates BY <1>1 DEF OperatorCreates
<1>2. CASE DeploymentChanges BY <1>2 DEF DeploymentChanges
<1>3. CASE RouteAdmitted BY <1>3 DEF RouteAdmitted
<1>4. CASE HostUpdated BY <1>4 DEF HostUpdated
<1>5. CASE Collected BY <1>5 DEF Collected
<1>6. CASE UNCHANGED children BY <1>6
<1> QED
    BY <1>1, <1>2, <1>3, <1>4, <1>5, <1>6
    DEF Next, HarnessStep, StartSpec, Bringup, Teardown, ClusterStep, Terminated,
        StorageReady, Create, AlreadyExists, CrPoll, DeploymentPoll, RoutePoll, RouteList,
        ServiceList, Resource, TestPasses, GiveUp, LogsSaved, DeleteGet, Delete,
        CleanupFails, CrGone, CrRemains, WaitDeployment, CrFinalized, CacheSync

LEMMA FailTyped == ControlOK /\ Fail /\ UNCHANGED deleting => ControlOK'
BY DEF Fail, ControlOK, Places

LEMMA FailCleanupTyped ==
    ControlOK /\ FailCleanup /\ unconfirmed' \in BOOLEAN /\ UNCHANGED deleting => ControlOK'
BY DEF FailCleanup, ControlOK, Places

LEMMA ControlStep == TypeOK /\ [Next]_vars => ControlOK'
<1> SUFFICES ASSUME CountsOK, ChildrenOK, ControlOK, [Next]_vars PROVE ControlOK'
    BY DEF TypeOK
<1>1. CASE StartSpec BY <1>1, NewContextTyped DEF StartSpec, ControlOK, Places
<1>2. CASE Bringup
    <2>1. CASE StorageReady BY <2>1 DEF StorageReady, ControlOK, Places
    <2>2. CASE Create BY <2>2 DEF Create, ControlOK, Places
    <2>3. CASE AlreadyExists BY <2>3, FailTyped DEF AlreadyExists
    <2>4. CASE CrPoll BY <2>4 DEF CrPoll, ControlOK, Places
    <2>5. CASE DeploymentPoll
        BY <2>5 DEF DeploymentPoll, Standing, Incarnations, ControlOK, Contexts, Places
    <2>6. CASE RoutePoll BY <2>6 DEF RoutePoll, ControlOK, Places
    <2>7. CASE RouteList
        <3>1. PICK i \in Incarnations : ctx' = [ctx EXCEPT !.route = i, !.host = route[i]]
            BY <2>7 DEF RouteList
        <3>2. i \in Nat /\ route[i] \in RouteStatus
            BY DEF Incarnations, ChildrenOK
        <3>3. ctx' \in Contexts BY <3>1, <3>2 DEF ControlOK, Contexts
        <3> QED BY <2>7, <3>3 DEF RouteList, ControlOK, Places
    <2>8. CASE ServiceList
        BY <2>8 DEF ServiceList, Incarnations, ControlOK, Contexts, Places
    <2>9. CASE Resource
        BY <2>9 DEF Resource, CountsOK, ControlOK, Contexts, Places
    <2>10. CASE TestPasses BY <2>10 DEF TestPasses, ControlOK, Places
    <2>11. CASE GiveUp BY <2>11, FailTyped DEF GiveUp
    <2> QED BY <1>2, <2>1, <2>2, <2>3, <2>4, <2>5, <2>6, <2>7, <2>8, <2>9, <2>10, <2>11
            DEF Bringup
<1>3. CASE Teardown
    <2>1. CASE LogsSaved BY <2>1 DEF LogsSaved, ControlOK, Places
    <2>2. CASE DeleteGet BY <2>2 DEF DeleteGet, Cached, ControlOK, Places
    <2>3. CASE Delete BY <2>3 DEF Delete, ControlOK, Places
    <2>4. CASE CleanupFails BY <2>4, FailCleanupTyped DEF CleanupFails, ControlOK
    <2>5. CASE CrGone BY <2>5 DEF CrGone, ControlOK, Places
    <2>6. CASE CrRemains BY <2>6, FailCleanupTyped DEF CrRemains
    <2>7. CASE WaitDeployment BY <2>7 DEF WaitDeployment, ControlOK, Places
    <2> QED BY <1>3, <2>1, <2>2, <2>3, <2>4, <2>5, <2>6, <2>7 DEF Teardown
<1>4. CASE CrFinalized BY <1>4 DEF CrFinalized, ControlOK
<1>5. CASE UNCHANGED <<deleting, control, pc>> BY <1>5 DEF ControlOK
<1> QED
    BY <1>1, <1>2, <1>3, <1>4, <1>5
    DEF Next, HarnessStep, ClusterStep, Terminated, CacheSync, OperatorCreates,
        DeploymentChanges, RouteAdmitted, HostUpdated, Collected

LEMMA TypeStep == TypeOK /\ OneAtATime /\ [Next]_vars => TypeOK'
BY CountsStep, ChildrenStep, ControlStep DEF TypeOK

----------------------------------------------------------------------------
(* The CR and the cache. *)

LEMMA OneAtATimeStep == TypeOK /\ OneAtATime /\ [Next]_vars => OneAtATime'
<1> SUFFICES ASSUME CountsOK, OneAtATime, [Next]_vars PROVE OneAtATime'
    BY DEF TypeOK
<1> USE DEF OneAtATime, CountsOK, Exists
<1>1. CASE StartSpec BY <1>1 DEF StartSpec
<1>2. CASE Create BY <1>2 DEF Create
<1>3. CASE Delete BY <1>3 DEF Delete
<1>4. CASE CrFinalized BY <1>4 DEF CrFinalized
<1>5. CASE CacheSync BY <1>5 DEF CacheSync, Cached
<1>6. CASE UNCHANGED <<api, cache, uses>> /\ (pc' \in {"storage", "create"} => pc \in {"storage", "create"})
    BY <1>6
<1> QED
    BY <1>1, <1>2, <1>3, <1>4, <1>5, <1>6
    DEF Next, HarnessStep, Bringup, Teardown, ClusterStep, Terminated,
        StorageReady, AlreadyExists, CrPoll, DeploymentPoll, RoutePoll, RouteList,
        ServiceList, Resource, TestPasses, GiveUp, LogsSaved, DeleteGet, CleanupFails,
        CrGone, CrRemains, WaitDeployment, OperatorCreates, DeploymentChanges,
        RouteAdmitted, HostUpdated, Collected, Fail, FailCleanup

\* Steps that leave the CR and the cache as they are.
LEMMA CacheQuietStep ==
    ASSUME CountsOK, OneAtATime, CacheKeepsUp, DeletedMeansGone,
           UNCHANGED <<api, cache, unconfirmed>>,
           pc' = "delete" => pc = "delete" /\ found' = found,
           pc' = "waitCr" => pc = "waitCr",
           pc = "waitCr" => pc' = "waitCr"
    PROVE  CacheKeepsUp'
BY DEF CacheKeepsUp, Exists

LEMMA CacheStep ==
    TypeOK /\ OneAtATime /\ CacheKeepsUp /\ DeletedMeansGone /\ [Next]_vars => CacheKeepsUp'
<1> SUFFICES ASSUME CountsOK, OneAtATime, CacheKeepsUp, DeletedMeansGone, [Next]_vars
             PROVE  CacheKeepsUp'
    BY DEF TypeOK
<1>1. CASE Create BY <1>1 DEF Create, CacheKeepsUp, CountsOK, OneAtATime, Exists
<1>2. CASE DeleteGet
    <2>1. found' = Cached /\ pc' = "delete" /\ pc = "deleteGet" /\ UNCHANGED <<api, cache, unconfirmed>>
        BY <1>2 DEF DeleteGet
    <2>2. ~unconfirmed /\ Cached => seenCreated = created
        BY DEF CacheKeepsUp, CountsOK, Cached
    <2> QED BY <2>1, <2>2 DEF CacheKeepsUp, Exists
<1>3. CASE Delete BY <1>3 DEF Delete, CacheKeepsUp, CountsOK, OneAtATime, Exists
<1>4. CASE CrGone
    BY <1>4 DEF CrGone, CacheKeepsUp, CountsOK, OneAtATime, Exists, Cached
<1>5. CASE CrRemains BY <1>5 DEF CrRemains, CacheKeepsUp
<1>6. CASE CrFinalized
    BY <1>6 DEF CrFinalized, CacheKeepsUp, CountsOK, OneAtATime, Exists
<1>7. CASE CacheSync
    BY <1>7 DEF CacheSync, CacheKeepsUp, CountsOK, OneAtATime, Exists, Cached
<1>8. CASE StartSpec BY <1>8, CacheQuietStep DEF StartSpec
<1>9. CASE Bringup /\ ~Create
    BY <1>9, CacheQuietStep
    DEF Bringup, StorageReady, AlreadyExists, CrPoll, DeploymentPoll, RoutePoll, RouteList,
        ServiceList, Resource, TestPasses, GiveUp, Fail
<1>10. CASE LogsSaved \/ CleanupFails \/ WaitDeployment
    BY <1>10, CacheQuietStep DEF LogsSaved, CleanupFails, WaitDeployment, FailCleanup
<1>11. CASE UNCHANGED <<api, cache, control, pc>>
    BY <1>11, CacheQuietStep
<1> QED
    BY <1>1, <1>2, <1>3, <1>4, <1>5, <1>6, <1>7, <1>8, <1>9, <1>10, <1>11
    DEF Next, HarnessStep, Teardown, ClusterStep, Terminated, OperatorCreates,
        DeploymentChanges, RouteAdmitted, HostUpdated, Collected

----------------------------------------------------------------------------
(* The removal. *)

LEMMA DeletedStep ==
    TypeOK /\ OneAtATime /\ CacheKeepsUp /\ DeletedMeansGone /\ [Next]_vars
        => DeletedMeansGone'
<1> SUFFICES ASSUME CountsOK, OneAtATime, CacheKeepsUp, DeletedMeansGone, [Next]_vars
             PROVE  DeletedMeansGone'
    BY DEF TypeOK
<1>1. CASE StartSpec BY <1>1 DEF StartSpec, DeletedMeansGone
<1>2. CASE Bringup
    BY <1>2
    DEF Bringup, StorageReady, Create, AlreadyExists, CrPoll, DeploymentPoll, RoutePoll,
        RouteList, ServiceList, Resource, TestPasses, GiveUp, Fail, DeletedMeansGone
<1>3. CASE LogsSaved \/ DeleteGet \/ Delete
    BY <1>3 DEF LogsSaved, DeleteGet, Delete, DeletedMeansGone
<1>4. CASE CleanupFails \/ CrRemains
    BY <1>4 DEF CleanupFails, CrRemains, FailCleanup, DeletedMeansGone
<1>5. CASE CrGone
    BY <1>5 DEF CrGone, CacheKeepsUp, CountsOK, Cached, Exists, DeletedMeansGone
<1>6. CASE WaitDeployment BY <1>6 DEF WaitDeployment, DeletedMeansGone, Exists
<1>7. CASE CrFinalized
    BY <1>7 DEF CrFinalized, OneAtATime, CountsOK, DeletedMeansGone, Exists
<1>8. CASE UNCHANGED <<api, control, pc>> BY <1>8 DEF DeletedMeansGone, Exists
<1> QED
    BY <1>1, <1>2, <1>3, <1>4, <1>5, <1>6, <1>7, <1>8
    DEF Next, HarnessStep, Teardown, ClusterStep, Terminated, CacheSync,
        OperatorCreates, DeploymentChanges, RouteAdmitted, HostUpdated, Collected

----------------------------------------------------------------------------
(* The children. *)

\* What OwnChildrenOnly says while a spec that started clean is served.
Served == pc \in Serving /\ cleanStart

LEMMA OwnCreate ==
    ASSUME CountsOK, OneAtATime, Create
    PROVE  OwnChildrenOnly'
<1>1. /\ pc' = "crPoll" /\ created' = created + 1 /\ gone' = gone /\ ~Exists
      /\ UNCHANGED <<children, unconfirmed>>
    BY DEF Create
<1>2. created' > gone' BY <1>1 DEF CountsOK, OneAtATime, Exists
<1>3. cleanStart' => /\ ~unconfirmed
                     /\ Standing(deployment) = {} /\ Standing(service) = {} /\ Standing(route) = {}
    BY DEF Create
<1>4. cleanStart' => Alone(deployment)' /\ Alone(service)' /\ Alone(route)'
    BY <1>1, <1>3 DEF Standing, Alone
<1> QED
    BY <1>1, <1>2, <1>3, <1>4
    DEF OwnChildrenOnly, PastDeployment, PastRoute, Exists

LEMMA OwnStandsAlone ==
    ASSUME OwnChildrenOnly, Served, NEW i \in Incarnations
    PROVE  /\ deployment[i] # "none" => i = created
           /\ service[i] # "none" => i = created
           /\ route[i] # "none" => i = created
BY DEF OwnChildrenOnly, Served, Alone

LEMMA OwnBringup ==
    ASSUME CountsOK, ControlOK, OneAtATime, CacheKeepsUp, OwnChildrenOnly, Bringup
    PROVE  OwnChildrenOnly'
<1> USE DEF OwnChildrenOnly, Serving, PastDeployment, PastRoute, Exists
<1>1. CASE StorageReady \/ TestPasses BY <1>1 DEF StorageReady, TestPasses
<1>2. CASE Create BY <1>2, OwnCreate
<1>3. CASE AlreadyExists \/ GiveUp BY <1>3 DEF AlreadyExists, GiveUp, Fail
<1>4. CASE CrPoll BY <1>4 DEF CrPoll, Alone
<1>5. CASE DeploymentPoll
    <2> SUFFICES ASSUME cleanStart PROVE OwnChildrenOnly'
        BY <1>5 DEF DeploymentPoll
    <2>1. PICK i \in Incarnations :
              deployment[i] # "none" /\ ctx' = [ctx EXCEPT !.deployment = i]
        BY <1>5 DEF DeploymentPoll, Standing
    <2>2. i = created BY <1>5, <2>1, OwnStandsAlone DEF DeploymentPoll, Served
    <2>3. ctx'.deployment = created BY <2>1, <2>2 DEF ControlOK, Contexts
    <2> QED BY <1>5, <2>3 DEF DeploymentPoll, Alone
<1>6. CASE RoutePoll
    <2> SUFFICES ASSUME cleanStart PROVE OwnChildrenOnly'
        BY <1>6 DEF RoutePoll
    <2>1. PICK i \in Incarnations : route[i] = "routable"
        BY <1>6 DEF RoutePoll, Standing
    <2>2. i = created BY <1>6, <2>1, OwnStandsAlone DEF RoutePoll, Served
    <2> QED BY <1>6, <2>1, <2>2 DEF RoutePoll, Alone
<1>7. CASE RouteList
    <2> SUFFICES ASSUME cleanStart PROVE OwnChildrenOnly'
        BY <1>7 DEF RouteList
    <2>1. PICK i \in Incarnations :
              Standing(route) = {i} /\ ctx' = [ctx EXCEPT !.route = i, !.host = route[i]]
        BY <1>7 DEF RouteList
    <2>2. i = created
        <3>1. route[i] # "none" BY <2>1 DEF Standing
        <3> QED BY <1>7, <3>1, OwnStandsAlone DEF RouteList, Served
    <2>3. route[created] = "routable" BY <1>7 DEF RouteList
    <2>4. /\ ctx'.route = created /\ ctx'.host = "routable"
          /\ ctx'.deployment = ctx.deployment
        BY <2>1, <2>2, <2>3 DEF ControlOK, Contexts
    <2> QED BY <1>7, <2>4 DEF RouteList, Alone
<1>8. CASE ServiceList
    <2> SUFFICES ASSUME cleanStart PROVE OwnChildrenOnly'
        BY <1>8 DEF ServiceList
    <2>1. PICK i \in Incarnations :
              Standing(service) = {i} /\ ctx' = [ctx EXCEPT !.service = i]
        BY <1>8 DEF ServiceList
    <2>2. i = created
        <3>1. service[i] # "none" BY <2>1 DEF Standing
        <3> QED BY <1>8, <3>1, OwnStandsAlone DEF ServiceList, Served
    <2>3. /\ ctx'.service = created /\ ctx'.deployment = ctx.deployment
          /\ ctx'.route = ctx.route /\ ctx'.host = ctx.host
        BY <2>1, <2>2 DEF ControlOK, Contexts
    <2> QED BY <1>8, <2>3 DEF ServiceList, Alone
<1>9. CASE Resource
    <2> SUFFICES ASSUME cleanStart PROVE OwnChildrenOnly'
        BY <1>9 DEF Resource
    <2>1. seenCreated = created
        BY <1>9 DEF Resource, CacheKeepsUp, CountsOK, Cached
    <2>2. /\ ctx'.resource = created /\ ctx'.deployment = ctx.deployment
          /\ ctx'.route = ctx.route /\ ctx'.host = ctx.host /\ ctx'.service = ctx.service
        BY <1>9, <2>1 DEF Resource, ControlOK, Contexts
    <2> QED BY <1>9, <2>2 DEF Resource, Alone
<1> QED BY <1>1, <1>2, <1>3, <1>4, <1>5, <1>6, <1>7, <1>8, <1>9 DEF Bringup

LEMMA OwnTeardown ==
    ASSUME Teardown PROVE OwnChildrenOnly'
BY DEF Teardown, LogsSaved, DeleteGet, Delete, CleanupFails, CrGone, CrRemains,
       WaitDeployment, FailCleanup, OwnChildrenOnly, Serving

LEMMA OwnCluster ==
    ASSUME CountsOK, ChildrenOK, CacheKeepsUp, OwnChildrenOnly, ClusterStep
    PROVE  OwnChildrenOnly'
<1> SUFFICES ASSUME Served PROVE OwnChildrenOnly'
    BY DEF ClusterStep, CrFinalized, CacheSync, OperatorCreates, DeploymentChanges,
           RouteAdmitted, HostUpdated, Collected, OwnChildrenOnly, Served
<1>0. Exists /\ ~unconfirmed BY DEF OwnChildrenOnly, Served
<1>1. CASE CrFinalized
    BY <1>0, <1>1 DEF CrFinalized, CacheKeepsUp, Served, Serving
<1>2. CASE CacheSync BY <1>2 DEF CacheSync, OwnChildrenOnly, Exists, Alone
<1>3. CASE OperatorCreates
    BY <1>3 DEF OperatorCreates, ChildrenOK, OwnChildrenOnly, Exists, Alone
<1>4. CASE DeploymentChanges
    <2>1. PICK i \in Incarnations, s \in {"starting", "available"} :
              deployment[i] # "none" /\ deployment' = [deployment EXCEPT ![i] = s]
        BY <1>4 DEF DeploymentChanges, Standing
    <2>2. i = created BY <2>1, OwnStandsAlone
    <2>3. Alone(deployment)' BY <1>4, <2>1, <2>2, OwnStandsAlone DEF DeploymentChanges, Alone, ChildrenOK
    <2> QED BY <1>4, <2>3 DEF DeploymentChanges, OwnChildrenOnly, Exists, Alone
<1>5. CASE RouteAdmitted
    BY <1>5, OwnStandsAlone DEF RouteAdmitted, ChildrenOK, OwnChildrenOnly, Exists, Alone
<1>6. CASE HostUpdated
    BY <1>6 DEF HostUpdated, ChildrenOK, OwnChildrenOnly, Exists, Alone
<1>7. CASE Collected
    <2>1. PICK i \in Orphans :
              deployment[i] # "none" \/ service[i] # "none" \/ route[i] # "none"
        BY <1>7 DEF Collected
    <2>2. i \in Incarnations /\ i # created
        BY <1>0 DEF Orphans, Incarnations, CountsOK
    <2> QED BY <2>1, <2>2, OwnStandsAlone
<1> QED BY <1>1, <1>2, <1>3, <1>4, <1>5, <1>6, <1>7 DEF ClusterStep

LEMMA OwnStep ==
    TypeOK /\ OneAtATime /\ CacheKeepsUp /\ OwnChildrenOnly /\ [Next]_vars
        => OwnChildrenOnly'
<1> SUFFICES ASSUME CountsOK, ChildrenOK, ControlOK, OneAtATime, CacheKeepsUp,
                    OwnChildrenOnly, [Next]_vars
             PROVE  OwnChildrenOnly'
    BY DEF TypeOK
<1>1. CASE StartSpec BY <1>1 DEF StartSpec, OwnChildrenOnly, Serving
<1>2. CASE UNCHANGED vars BY <1>2 DEF OwnChildrenOnly, Exists, Alone
<1> QED
    BY <1>1, <1>2, OwnBringup, OwnTeardown, OwnCluster DEF Next, HarnessStep, Terminated

----------------------------------------------------------------------------

\* IInv holds in every state of every behaviour.
THEOREM Invariance == Spec => []IInv
<1>1. IInv /\ [Next]_vars => IInv'
    BY TypeStep, OneAtATimeStep, CacheStep, DeletedStep, OwnStep DEF IInv
<1> QED BY InitIInv, <1>1, PTL DEF Spec

\* Every variable stays in its range; the cache is never ahead of the API server.
THEOREM TypeCorrectness == Spec => []TypeOK
BY Invariance, PTL DEF IInv

\* registry.go:180-195: the wait on the cache is enough to know that the CR is gone
\* from the API server, however many specs have used its name before.
THEOREM RemovalIsConfirmed == Spec => []DeletedMeansGone
BY Invariance, PTL DEF IInv

\* registry.go:45-108: what CreateRegistryAndWait writes into the TestContext is the
\* registry it created, if it started clean.
THEOREM FreshRegistry == Spec => []FreshRegistryIsServed
<1>1. IInv => FreshRegistryIsServed
    BY DEF IInv, OwnChildrenOnly, FreshRegistryIsServed, Serving, PastDeployment, PastRoute
<1> QED BY Invariance, <1>1, PTL
=============================================================================
