# TLA+ models of the apicurio-registry e2e test suites

The repository holds ginkgo suites that install the apicurio-registry operator on
a Kubernetes or OpenShift cluster, deploy registries on several storages, test
them, and take everything away again. What makes such suites hard to get right is
not the tests but the harness around them: provisioning that can fail after any
call, cleanups that run while the spec is unwinding, a cluster that creates and
collects objects at its own pace, caches that lag, and specs that reuse each
other's names in one namespace. Nothing in the repository tests the harness.
These modules model it.

## 1. Inventory

Paths are relative to `src/testsuite`.

| Component | State it keeps | Operations | Correct when |
|---|---|---|---|
| Specs (`utils/suite/suite.go` RunSuite, `utils/testcase/testcase.go`) | the call stack and deferred calls of the spec's goroutine; ginkgo's verdicts | run, fail by panic (`RegisterFailHandler(Fail)`), unwind, report | a spec is reported failed iff a call it checked failed; every spec ends |
| TestContext (`utils/types/types.go`) | `cleanupFunctions`, `RegistryName`, `KafkaClusterInfo`, the hosts | RegisterCleanup, ExecuteCleanups | what was deployed is removed, dependents first |
| Registry lifecycle (`utils/apicurio/registry.go`, `deploy/deploy.go`) | the CR (API server), its Deployment, Service, Route, the informer cache behind `K8sClient` | CreateRegistryAndWait, WaitForRegistryReady, DeleteRegistryAndWait | the context describes the registry just created; a registry reported removed is gone |
| PostgreSQL (`utils/sql/postgresql.go`) | claim, Deployment, Service | deploy, remove | removed after the registry that uses it |
| Kafka and Strimzi (`utils/kafkasql`) | operator, clusters, users, certificate secrets, the downloaded bundle file, `StrimziDeployed` | deploy/remove operator, cluster, certificate stores, shared cluster | operator outlives its clusters and goes with the last owner |
| Converters testcase (`utils/converters`) | Debezium objects, a second database and cluster, a reader goroutine | deploy with cleanups registered on the way, rendezvous with the reader | what is deployed goes, or the report tells; the test that waits is always answered |
| Keycloak and security (`utils/keycloak`, `utils/security`) | operator group, subscription, CSV, server, route, realm | deploy, two storages in turn, remove | server goes before its operator, everything before the group |
| OLM (`utils/olm`, `olm/*`) | catalog source, operator group, subscription, install plan, CSV | install, uninstall | uninstall copes with every half-finished install |
| Bundle suite (`bundle`) | namespace, operator manifests | install, uninstall | the same |
| Series of suites (`ginkgo -r --randomize-suites --keep-going`) | `olminfo`, the clients; ginkgo's verdicts; the cluster | BeforeSuite, specs, AfterSuite, for each suite | specs run on this run's operator; green means clean |
| Upgrade suite (`upgrade`) | subscription moved between catalogs, two CSVs | upgrade, verify | data survives; both CSVs are removed |
| Multi-namespace testcase (`testcase.go:119`) | two contexts, two namespaces | nested deferred cleanups | one context's failure does not lose the other |
| Suite set-up (`suite.go:86`) | SuiteContext, manager goroutine, `err` shared by two goroutines | InitSuite, TearDownSuite | no spec runs before the cache does; a start failure is reported |
| Waits, namespaces, pull secrets (`utils/kubernetes`) | – | wait.Poll loops, SetPullSecret | a wait ends; an update does not lose another's |
| Selenium (`utils/selenium`) | namespace, Deployment, Service, Ingress or Route | deploy before the operator, remove after it | gone when the suite is green |
| Functional tests, logs, backup/restore, migration, API client, templates | – | I/O | – |

Interactions: a spec registers and defers cleanups in its TestContext, then calls
the deploy helpers; these write to the API server with the typed clients or
`kubectl` and poll it, partly through the manager's informer cache; operators and
the garbage collector react on their own; a failed assertion panics through all of
it into the deferred calls, which call the removal helpers, which may panic again.

Hard behaviours: cleanup after a failure at any point; a failing cleanup; deadlines
against late answers; stale caches and labels shared by successive objects of one
name; time-of-check to time-of-use between polls and reads; `kubectl delete`
without a timeout; errors dropped; ordering between dependents; leaks from one spec
into the next. `PROJECT.json` lists each hazard at its line.

## 2. Modules

| Module | Models |
|---|---|
| `Harness` | The run of a spec: frames, deferred calls, panics, TestContext, API calls that succeed, are refused, fail or time out; the cluster. An interpreter of *scripts*, parametric in scripts, objects, their relations and the operations that may fail. |
| `SuiteScripts` | One definition per Go function of the suites: its calls in order, as a script. The objects and who makes, owns and needs what. |
| `SuiteContract` | Abstract: what the report promises. |
| `TestSuite` | Harness plus the properties of suites on their cluster. |
| `MCSuite`, `MCNamespaces` | The constants of `TestSuite` for TLC: the specs of one namespace, and the multinamespaced spec. |
| `RegistryLifecycle` | `registry.go` in detail: API server, informer cache, operator, garbage collector, router, over a series of specs. |
| `OperatorScripts` | BeforeSuite and AfterSuite of the bundle, single namespace and clusterwide suites, one definition per Go function, and what they make. |
| `OperatorSuites` | A series of suites on one cluster: process, panics, `olminfo`, OLM and the garbage collector. Composes the scripts of `OperatorScripts`. |
| `SuiteProcedure` | Abstract: the procedure of README.md:27-34 as a reader of the verdicts sees it. |
| `MCOperatorSuites` | The environments of `OperatorSuites` for TLC. |
| `SuiteInit` | InitSuite and the goroutine of the manager, sharing `err`; the informer cache. |
| `PullSecret` | SetPullSecret against the controllers that change the same service account. |
| `KafkaRecords` | The end of ConvertersTestCase and readKafkaMessages, on an unbuffered channel. |
| `SuiteProcess` | Composes the last three: the goroutines of one process. |
| `Harness_proofs`, `RegistryLifecycle_proofs`, `OperatorSuites_proofs`, `SuiteProcess_proofs` | Theorems about the module of that name. |
| `OperatorSeries_proofs` | What a suite leaves to the next one: theorems about `OperatorSuites`, on top of its own. |
| `TestSuite_proofs` | Storage is taken last, by every collection of scripts that meets a condition. |
| `GreenSuite_proofs` | A green suite is clean, for every collection of scripts that meets another. |
| `SuiteScripts_proofs` | The scripts of `SuiteScripts` meet both. |

### How the state and the actions correspond to the code

**Harness.** `stack` is the Go stack: each frame has the steps left, its deferred
calls and whether it is unwinding. `Call`, `Defer`, `Return`, `RunDeferred` are
Go's; `Panic` is a failed `Expect`, which in ginkgo panics; `EndSpec` is ginkgo
recovering it. `cleanups`, `named` and `deployed` are the fields
`cleanupFunctions`, `RegistryName # ""` and `StrimziDeployed`. The flags of suite.go:40-49 and the
profile decide which specs a suite has: `Suites` are the selections a run explores, and a
spec outside the selection is `"skipped"`. `ExecuteCleanups`
pushes one frame that calls the registered functions last to first; a panic in one
drops the rest, as the `for` of types.go:74 does. A step on an object is one call:
`create` (AlreadyExists is fatal), `apply` (kubectl apply), `attempt` (a `create`
inside a script without `set -e`), `await`, `delete` (NotFound is fatal),
`deleteQuietly` (NotFound is accepted), `deleteIfFound` (Get, then Delete),
`deleteRegistry` (Get that accepts NotFound, Delete that does not),
`awaitGone`, `awaitGoneQuietly` (registry.go:197, error dropped), `finalize` (the
wait inside kubectl delete, no timeout), `read` and `erase` (the bundle file),
`returnIfInstalled`, and `saveLogs`, the one step for SaveLogs with its
assertions. `Refused` is a call the cluster's state makes fail;
`Misfortune` any other failure, allowed for the operations in `Flaky`;
`Deadline` a poll that gives up. Objects go absent, pending, ready, terminating;
`ControllerCreates`, `BecomesReady`, `Collected` and `Vanishes` move them between
any two steps of the spec. `mishap` and `erred` are history: something of the
harness failed; a checked call of the running spec failed. `Home` gives the
namespace an object lives in: nothing is created in one that is not there or is
terminating (`Accepting`), what is in it goes with it, and it goes last.

**RegistryLifecycle.** CRs are numbered in order of creation; `created`, `gone`
are what the API server has done and `seenCreated`, `seenGone` what the cache knows.
Every incarnation has its own Deployment, Service and Route, all with one label.
`pc` walks through CreateRegistryAndWait, the test and DeleteRegistryAndWait. `ctx`
records whose children the TestContext was filled from. `openshift` chooses the
branch. Items[0] of a list is any standing child.

**OperatorSuites.** `phase` and `todo` are where the process is: the calls left of
BeforeSuite or AfterSuite, as lists of steps. `Panic` is a failed assertion: in
BeforeSuite it skips the specs and goes on with AfterSuite, in AfterSuite it skips
the rest. `Die` is an assertion that fails in the goroutine of the manager
(suite.go:118), or a signal: no AfterSuite. `clients` is `Clientset` being set
(AfterSuite runs, and dereferences it, even when InitSuite has failed); `catalog` is
the local variable of InstallOperatorOLM and `olminfo` the package variable that is
assigned when it returns. Steps are calls, as in `Harness`; beside those, `adopt`
is Create with "already exists" ignored (olm.go:57), `sight` and `settle` the waits for pods
whose errors are dropped, `restart` the DeleteCollection of the pods on OpenShift, and
the same of the bundle's operator when there is a pull secret (bundle_test.go:68-71),
`lookUp` the poll for the package manifest, `return` the assignment of `olminfo`,
`deleteCsv` the deletion that returns early if there is no CSV (`NoCsv`),
`deleteUnnamed` the deletion of the empty object a refused Create has returned, and
`deleteFile` with `finalize` is kubectl delete -f. `origin` is history: the run that an
object comes from, a CSV from its catalog's. `calm` is history: no call of this run has
failed of itself, that is, other than by what it found on the cluster.

**SuiteProcess.** `main` walks through InitSuite, `manager` is the goroutine of
suite.go:116. Either assigns the shared `err` and then asserts on it; a compiler may
use the assigned value or read the variable again, so `ExpectDetected` and
`ExpectStarted` see one or the other. `CreateNamespace`, `SpecReads` and
`ConvertersTestCase` follow in the goroutine of ginkgo. `version` is the
resourceVersion by which the API server refuses an Update made from a stale copy. `reader` is
the goroutine of readKafkaMessages; `Receive` is the rendezvous; in state `late` it
is at the one attempt wait.Poll makes after its minute is over.

### Abstractions

- A function without deferred calls of its own is inlined in its callers; a panic
  in it unwinds to the same deferred calls either way. `DeployKafkaCluster`'s
  `deployStrimziOperator` stays a script, because of its early return, and
  `RemoveKafkaSqlRegistry` stays one because of its `defer`.
- In `Harness` an object has one status per name. A Deployment of a deleted
  registry that is still there is adopted by the next one of that name; the
  incarnations are told apart in `RegistryLifecycle`.
- `kubectl delete -f bundle` takes operator and CRDs; every Kafka resource goes
  with its CRD. Database Deployments stand for their pods too.
- A Kafka cluster's pods, the entity operator awaited among them, are one object.
- Topics are left out (every cluster of the suites is made with none), as are
  external bootstrap hosts, replica counts and sizes.
- The bundle path is an `https://` URL (the Makefile's default), so the bundle
  is downloaded to a local file that RemoveKafkaSqlRegistry erases.
- `keycloak` runs on OpenShift, where the code runs it, in the bundle suite, whose
  namespace has no OperatorGroup yet; so `DeployKeycloak` creates one.
- `convertersSql` builds its image locally (no `CONVERTERS_URL`).
- The functional tests are one step that passes or fails.
- A catalog source stands for its pods and its gRPC connection. The package manifest is
  made only in environments where the code looks for it. Install plans are part of
  OLM's making of the CSV.
- In `OperatorSuites` the specs are one step that may fail: what they leave is the subject of
  `TestSuite`. The upgrade suite's table is empty, so it is not among the suites.
- The default catalog source of a cluster is always in service. The namespace of the catalog
  source and the clusterwide namespace exist already (olm.go:271 accepts that).
- A read of a cache that has stopped never returns; the time limit of the test binary then
  ends the process, and the process counts as died.
- In `SuiteProcess` one namespace is set up and one spec runs, the converters spec; the
  deployments it makes are in `TestSuite`.
- A failure of a call has no effect on the cluster. A call that takes effect and
  reports an error is not modelled.

## 3. What is checked

| Run | Specs / bound | Shows |
|---|---|---|
| `suite_functional` | storageKafkasql, convertersSql; every operation may fail | TypeOK, CleanSlate, NothingInTheWay, DependentsGoFirst, StorageOutlivesRegistry, GreenSuiteIsClean, ImplementsContract |
| `suite_operator` | keycloak, with sql and kafkasql inside; every operation may fail | CleanSlate, NothingInTheWay, DependentsGoFirst, StorageOutlivesRegistry, GreenSuiteIsClean |
| `suite_kafka` | either scram and tls, or kafkasql and clustered kafkasql with a shared cluster; every operation may fail; fairness | NothingInTheWay, DependentsGoFirst, GreenSuiteIsClean, EverySpecEnds |
| `registry` | `Uses = 2`, on and off OpenShift; fairness | TypeOK, DeletedMeansGone, FreshRegistryIsServed, EverySpecEnds |
| `multinamespace` | the multinamespaced spec; every operation may fail | CleanSlate, DependentsGoFirst, StorageOutlivesRegistry, GreenSuiteIsClean |
| `operator_suites` | `Runs = 2`, three suites, three environments; every call may fail; fairness | TypeOK, GreenRunIsClean, SpecsMeetOwnOperator, NamespaceIsFreed, ImplementsProcedure, EverySuiteEnds |
| `suite_process` | four rows, two records expected, two secrets of others; fairness | TypeOK, StartFailureIsReported, NoSecretLost, RecordsAreThere, ProcessEnds |
| `operator_leak` | `Runs = 1`, the single namespace suite | violation, section 5 |
| `leak_strimzi`, `leak_database`, `leak_logs`, `registry_stale` | | violations, section 5 |

- **CleanSlate**: between specs nothing of them still works, if no operation of the
  harness failed. Failed *tests* are no excuse: this is what the deferred cleanups
  are for.
- **GreenSuiteIsClean**: whatever failed, if the report is all green nothing is
  left: a leak never goes unreported.
- **NothingInTheWay**: without a harness failure no step ever meets AlreadyExists,
  NotFound, a missing file, or silently takes over another spec's remains.
- **DependentsGoFirst**: without a harness failure nothing is removed while
  something the suite made works with it, wherever the test stopped.
- **StorageOutlivesRegistry**: the same for registries and their storage, with *no*
  excuse: through timeouts and failing cleanups.
- **ImplementsContract**: the harness refines `SuiteContract`.
- **EverySpecEnds**: no wait is endless and no panic stops the suite. The wait inside
  `kubectl delete` has no deadline (kafkasql.go:467): it ends only because every removal
  keeps the Strimzi operator until its Kafka resources have gone, the second cluster
  of a spec included. A removal in the other order is the property's mutant.
- **DeletedMeansGone**, **FreshRegistryIsServed**: comments in the module. Both have
  an excuse, and the excuse is needed: once a wait for a removed CR has given up
  (`unconfirmed`), the cache may still show, or already miss, a CR of an earlier
  spec, and TLC finds both properties violated without it. `cleanStart` includes that
  excuse. FreshRegistryIsServed also rests on the operator of the model, which creates nothing
  for a CR that is deleted.
- **GreenRunIsClean**: a suite reported passed leaves nothing of its own that stays, also
  if it took over what an earlier one had left.
- **SpecsMeetOwnOperator**: while every suite was green, the specs of the next run against
  the operator from this run's own catalog or manifests, and it is ready. Without the
  excuse TLC finds the takeover of an old catalog source.
- **NamespaceIsFreed**: a suite that could not install still gives the test namespace back.
- **ImplementsProcedure**: specs only after a deployment that succeeded, AfterSuite in any
  case, passed only if nothing failed and the cluster is clean; and after that nothing comes
  back, not even from OLM.
- **EverySuiteEnds**: every failure leads through AfterSuite to a verdict.
- **StartFailureIsReported**: the shared `err` may be overwritten, and the failure of
  the manager be missed by its own assertion; a process is still not green, because without its
  manager the first read through K8sClient is refused or never returns.
- **NoSecretLost**, **RecordsAreThere**: no confirmed binding is undone; `records[0]` exists.
- **ProcessEnds**: the test waits on the channel without a timeout, so the reader must
  answer on every path.

**Bounds.** Two specs in a run are the least at which one can get in the way of
another, and they run in both orders; every spec starts with a fresh TestContext,
so a third only meets what the second could have met from the first. The pairs
were chosen so that they share names (scram and tls: the cluster, user and
truststore) or the Strimzi operator (kafkasql and converters; kafkasql with a shared
cluster, where it serves two clusters of one spec). The sql spec with a shared cluster is in no
passing run: it leaks (section 5). `Uses = 2` gives one earlier
incarnation; the theorems hold for every `Uses`. Objects are those the specs make.
The multinamespaced spec is alone in its suite. Two runs of suites are the least for one to meet
another's remains, and every order and pair of the three is explored, each in an environment
with the channel and CSV looked up, on OpenShift with its restarted pods and a pull secret, and
with selenium on a default catalog source; the theorems hold for every `Runs` and every set of
environments. Two records expected, where the code asks for one, let a poll end
with too few; two changes of the account are one before and one after it is
read. Deadlock checking is on in every run; a finished suite stutters (`Terminated`).
Registry Deployments are exempt from "nothing left" and from StorageOutlivesRegistry,
because the code gives up its wait for them in silence (registry.go:197, the finding
`registry_stale`), and so is the bundle, a local file.

**Fairness.** `Harness`: the goroutine that runs the specs is scheduled, and a wait
reaches its deadline (`wait.Poll` has one everywhere); a call that fails for no
reason (`Misfortune`) is never forced. Besides, a deletion the API server has
accepted ends as long as what the object works with is ready (`Finalised`): `kubectl
delete` waits without a timeout, and EverySpecEnds fails without this assumption. Of
a Kafka cluster or user whose operator is gone or going nothing is assumed, so the wait of
kafkasql.go:467 may be endless. `RegistryLifecycle`: only that the
goroutine goes on; every wait there has a deadline, so the cluster may do nothing.
`OperatorSuites`: the process goes on and its waits expire (`RunStep`, `CallStep`), and the
deletion of the bundle's manifests ends, because kubectl delete waits for it without
a timeout; `Misfortune`, `Die` and all else on the cluster are not fair.
`SuiteProcess`: the goroutine of ginkgo and the reader are scheduled; of the manager
nothing is assumed.

## 4. What is proved

For **every** value of the constants, by TLAPS:

- `Harness_proofs!TypeCorrectness` and `ReportIsTrue` (`Spec => ImplementsContract`):
  for any specs, scripts, objects and flaky operations, a spec is reported failed iff a
  call it checked failed. The assumption is `HarnessAssumption` (the constants are
  well typed). The invariant: one spec runs while the stack is not empty
  (`OneRunning`), and it has erred iff some frame is unwinding (`PanicIsKept`); the
  contract does not mention the stack, so without the second no step of `EndSpec`
  could be shown to report the truth. Each step but `StartSpec` and `EndSpec`
  either keeps the panics of the stack or begins one (`Moves`); one lemma each for
  Go's, the context's and the API's steps.
- `RegistryLifecycle_proofs!TypeCorrectness`, `RemovalIsConfirmed`
  (`[]DeletedMeansGone`) and `FreshRegistry` (`[]FreshRegistryIsServed`), for every
  `Uses`. DeletedMeansGone is not inductive: the harness looks at the cache, the
  property speaks of the API server. `CacheKeepsUp` bridges them: as long as each
  wait has seen its CR go, the cache is at most one CR behind, and is behind a
  removal only while a spec stands in `waitCr`. `OwnChildrenOnly` says what each poll of
  CreateRegistryAndWait has established, and that no older child can come back.

- `OperatorSuites_proofs!TypeCorrectness`, `GreenRunsAreClean` and `SuitesRefineProcedure`
  (`Spec => ImplementsProcedure`), for every `Runs`, any of the suites in any order, and any set of
  environments (`SuitesAssumption`). GreenRunIsClean speaks of the end of a
  run; the invariant has to say on every step before why it will hold. `RemovalIsDue`
  does: in AfterSuite, of each kind of leftover, either the step that takes it away, and without a
  failure cannot but do so, is still in `todo`, or it has had its effect for good, which
  needs that nobody makes the object again: that the subscription goes before the
  CSV (`Ordered`), and that a namespace on its way out accepts nothing. `InfoIsKnown`
  says that specs, and an AfterSuite without a failure before it, have an `olminfo`;
  `ListsOK` and `NothingElse` bound the steps and the objects there can be. One
  lemma per script says which steps it holds in which order; one per action, that it
  keeps the invariant. The refinement maps each action to one of the abstract
  actions, and everything of the cluster to `Settle`.
- `OperatorSeries_proofs!NamespaceFreed` (`Spec => []NamespaceIsFreed`), from the same
  assumptions. Its invariant, `Freeing`: in AfterSuite of a run in which no call failed of
  itself the namespace has gone, or its deletion is in `todo` and nothing before it can
  fail of itself (`NamespaceFirst`; the steps allowed there are `Certain`), for which the
  clients have to be set (`Connected`).
- `OperatorSeries_proofs!SpecsMeetTheirOperator` (`Spec => []SpecsMeetOwnOperator`). The
  property speaks of one run, its reason is the whole series; the invariant, `Series`, adds
  what green suites hand on. Between runs nothing that makes an operator works
  (`NothingStays`); so whatever works later is of this run's suite and from its images
  (`OfThisRun`), BeforeSuite makes nothing of another suite's (`MakesOwn`), and it does
  not get past the wait for the operator without it (`OperatorComes`; that wait is the last
  step of the bundle's installation, so a restart of the operator comes before it, `AwaitLast`). The clusterwide
  suite is the hard one: UninstallOperatorOLM returns early if it finds no CSV, so
  `OperatorGoes` follows the CSV from its lookup until the operator made for it is gone,
  and needs that the one deletion of a CSV comes after that of its subscription (`CsvLast`).
- `TestSuite_proofs!StorageIsTakenLast`: for **every** collection of scripts that meets
  `WaitsForRegistries`, any specs among them and any operations that may fail,
  `Spec => []StorageOutlivesRegistry`. The condition is on the text of a script alone:
  where it takes a registry's storage, it has waited for that registry to be gone, and has
  not called anything or made that registry since. The invariant, `StorageGuarded`, says the same of
  what is left of every frame: only the innermost may have waited already, and then the
  registry is not there. It is inductive because a panic and a return only drop steps from
  the front frame, and a frame below has a call to come back from.
- `SuiteScripts_proofs!SuitesKeepStorage`: the scripts of the suites meet that condition
  (`SuitesWaitForRegistries`), in both arrangements the suites use: specs that share a
  namespace, and the multinamespaced one (`TheSuites`, which says of the constants what
  `MCSuite` and `MCNamespaces` say; `Specs` and `Flaky` stay free). So the property
  holds for all the specs in one suite, of which TLC can only run two or three.
  Lists of steps are composed as the functions are: lists that take no registry's storage
  (`Harmless`), lists that end with the registry gone (`Cleared`).
- `GreenSuite_proofs!NothingIsForgotten`: for **every** collection of scripts that is
  `Paired`, any specs among them and any operations that may fail,
  `Spec => []GreenSuiteIsClean`. `Paired` again speaks of the text of scripts only. A script
  that makes an object, in a step or by calling one that leaves the removal to its caller,
  sees to the removal: it defers it, or has it still to do itself; or, where the cleanups of
  its context are bound to be executed, it registers it; or, for an operator that is
  installed once, its installer reports whether it was there and the registration depends
  on that (`MakersSeeTo`, `SeesTo`, `Lends`). Besides: what is deferred or registered makes
  nothing itself (`StepsAreSafe`), who calls a script that registers cleanups executes them
  (`CallersFlush`) and begins no new context before (`FlushersRenewNot`), the removal of
  what a controller makes comes after that of what it is made for (`PodsFollow`), no spec
  leaves anything to a caller it has not (`SpecsSeeTo`), and what lives in a namespace has
  it removed (`HomesStand`). The invariant, `NothingForgotten`: as long as nothing is
  reported failed, whatever stands is `Covered` (some frame has deferred its removal, or
  has it before it, or will execute cleanups among which it is, or the installer's answer
  is on its way), and whatever any frame will still make will be (`Sees`). GreenSuiteIsClean
  itself only speaks of the moments between specs, when no frame is left to owe anything. That
  what is owed is done rests on green: a frame that has not panicked gets to all its steps.
  `InUse` is the set of scripts the specs may reach; others may be unpaired.
- `SuiteScripts_proofs!GreenSuitesAreClean`: the scripts of the suites are `Paired`
  (`SharedSuiteIsPaired`, `OwnSuiteIsPaired`): any selection of eight of the eleven specs of one
  namespace, in any order (`SharedSuite`), and the multinamespaced spec (`OwnSuite`). The
  other three, of a shared Kafka cluster (`SharedClusterSpecs`), are left out because the script of
  their test is not: it leaves the Strimzi operator it may install to no caller, the leak that
  `leak_strimzi` shows with the sql spec (section 5). The two on kafkasql, whose own storage
  has installed it before, are model-checked (`suite_kafka`). Each script has a *profile*, what its steps make, call,
  defer and register at most (`Profile`, `EveryScript`), composed as the functions are.
- `SuiteProcess_proofs!TypeCorrectness`, `StartIsReported`, `SecretsStay`, `RecordsExist`,
  for any secrets and numbers of rows, records and changes (`ProcessAssumption`). Their
  invariants: a failure of a call that is still unreported shows in both `err` and the value
  returned, or in the manager and its cache (`WrongShows`, `ReadFirst`); a copy with
  the current version is the current object plus the suite's secret (`CopyIsCurrent`);
  what is sent was decided by the number of records (`ResultIsTrue`).

The proofs are about these modules; that a module says what the code does is
argued by the map in `PROJECT.json`. Only model-checked: CleanSlate, NothingInTheWay
and DependentsGoFirst. They differ from GreenSuiteIsClean in what they excuse: not a
failed assertion of a test, only a failed operation of the harness. So a proof has to follow
the cleanups of a spec that panicked, and show of each of their calls that the cluster does
not refuse it, for which each object must be known to be there or not at each step of
each removal: a second, finer invariant than `Covered`. Liveness (EverySpecEnds, EverySuiteEnds, ProcessEnds)
is out of the prover's reach.

## 5. Disagreements found

README.md:32 promises that "provisioning and deprovisioning is done for each
testcase". Three runs state that as `EverySpecDeprovisions` and find it violated:

- `leak_strimzi`: with a shared Kafka cluster, a sql spec in which nothing fails leaves
  the Strimzi operator (sharedkafka.go:28 removes the cluster only).
- `leak_database`: when the database is not ready in time, the cleanup's Delete of a
  registry never created panics (registry.go:176) and the database stays; the
  next sql spec fails on it.
- `leak_logs`: a failure to save the logs skips all cleanups (testcase.go:196), with the
  registry and its database up.
- `registry_stale`: registry.go:26 promises to wait for the deployment of the
  registry created; the wait for the old one to go is dropped (registry.go:197) and the
  first with the label is taken (registry.go:153), so the next spec may accept the
  Deployment of a registry already deleted.

README.md:34 promises that a suite ends by removing the operator and "any other resources".
`operator_leak` states that as `EveryRunCleansUp`, for a run in which no call fails of
itself, and finds it violated: the poll for the package manifest takes the empty object of a
NotFound for an answer (olm.go:309), the empty channel is refused (olm.go:369),
`olminfo` is never assigned (olm.go:384), and UninstallOperatorOLM skips the catalog
source. The next suite finds it and fails in turn, after its own specs, on the empty name
it took the catalog source over with.

## 6. Not modelled

- The branch of the bundle suite for a directory of manifests (bundle_test.go:55-65 and
  89-97): one `kubectl apply` and one `kubectl delete` per file, the wait and the namespace
  after it as with one file. The Makefile gives a file.
- A CSV that OLM makes late, of an install plan that has outlived its subscription: OLM makes a
  CSV only while the subscription stands. So no run says that the early return
  of DeleteSubscription (olm.go:240) is harmless.
- The guard of DeleteSubscription on StartingCSV (olm.go:234): of the operator's own subscription
  InstallOperatorOLM has asserted that it is set (olm.go:370), of Keycloak's it is as long
  as the package manifest has its default channel among its channels.
- Failures half way, once the report is red: where a cleanup or a deployment fails, the
  properties that hold say that the report shows it. What then stays is the code's, and is named
  by the findings of section 5.

- The upgrade suite, backup and restore, data migration: their table entries or specs are
  commented out (upgrade_test.go:37, testcase.go:98-114), so none of this code runs.
- KafkaConnect and the branch of `E2E_CONVERTERS_URL`: it is marked "TODO finish this"
  (kafkasql.go:357), and with it kafkaConnectURL stays empty, so the spec cannot get
  past its first request.
- The HTTP side of the functional tests, the Maven process, the registry API client: I/O
  without state of the suites'. Keycloak's realm set-up is one step that may fail.
- IsOpenshift read when the tables are declared (testcase.go:26): it decides a size, which is
  data here.
- Templates, constants, image names: formatting and configuration.
- Two suites at once on a cluster: ginkgo runs them one after the other.

What could be taken further: CleanSlate and NothingInTheWay proved from a condition on scripts
as GreenSuiteIsClean is, with the state of each object known at every step of a removal.
