-------------------------- MODULE OperatorScripts --------------------------
(***************************************************************************)
(* What the suites do before and after their specs, as lists of steps for  *)
(* module OperatorSuites: one definition per Go function, in the order of  *)
(* its calls; and what they make on the cluster.                           *)
(***************************************************************************)
EXTENDS Sequences

(* What the suites make, and what comes of it. *)

Subscription == [single |-> "subscription", clusterwide |-> "wideSubscription"]
Csv == [single |-> "csv", clusterwide |-> "wideCsv"]
Operator == [single |-> "operator", clusterwide |-> "wideOperator",
             bundle |-> "bundleOperator"]

\* The controller of the one makes the other: the package server the manifest of a
\* catalog source, OLM a CSV and its Deployment.  A catalog source stands for its pods.
Maker == [manifest |-> "catalog",
          csv |-> "subscription", operator |-> "csv",
          wideCsv |-> "wideSubscription", wideOperator |-> "wideCsv",
          bundleOperator |-> "manifests"]

\* Objects collected with another one.  A CSV outlives its subscription.
Owner == [manifest |-> "catalog", operator |-> "csv", wideOperator |-> "wideCsv",
          bundleOperator |-> "manifests"]

Home == [group |-> "namespace", subscription |-> "namespace", csv |-> "namespace",
         operator |-> "namespace", manifests |-> "namespace",
         bundleOperator |-> "namespace", seleniumDeployment |-> "seleniumNamespace",
         seleniumService |-> "seleniumNamespace", seleniumIngress |-> "seleniumNamespace"]

\* At work as soon as they exist.
Passive == {"namespace", "group", "subscription", "wideSubscription", "manifests",
            "clusterManifests", "manifest", "seleniumNamespace", "seleniumService",
            "seleniumIngress"}
Objects == Passive \cup DOMAIN Maker \cup {"catalog", "seleniumDeployment"}

Selenium == {"seleniumNamespace", "seleniumDeployment", "seleniumService", "seleniumIngress"}
Own == [bundle |-> {"namespace", "manifests", "clusterManifests", "bundleOperator"},
        single |-> {"namespace", "catalog", "group", "subscription", "csv", "operator"},
        clusterwide |-> {"catalog", "wideSubscription", "wideCsv", "wideOperator"}]

Status == {"absent", "pending", "ready", "terminating"}
Live == {"pending", "ready"}

----------------------------------------------------------------------------
(* BeforeSuite and AfterSuite, a list of calls each. *)

Ops == {"connect", "check", "create", "apply", "adopt", "found", "sight", "restart",
        "settle", "await", "lookUp", "return", "logs", "delete", "deleteQuietly",
        "deleteIfFound", "deleteCsv", "deleteUnnamed", "deleteFile", "finalize",
        "awaitGone"}
Steps == [op : Ops, arg : Objects \cup {"-"}]

Step(op, arg) == <<[op |-> op, arg |-> arg]>>
Check == Step("check", "-")
When(condition, steps) == IF condition THEN steps ELSE <<>>

DeleteTestNamespace(ns) == Step("deleteIfFound", ns) \o Step("awaitGone", ns)

\* The ingress controller is awaited first on plain kubernetes, the route read
\* last on OpenShift.
deploySeleniumChrome ==
    Check \o Step("create", "seleniumNamespace") \o Step("create", "seleniumDeployment")
      \o Step("create", "seleniumService") \o Step("create", "seleniumIngress")
      \o Step("await", "seleniumDeployment") \o Check

removeSeleniumChrome ==
    Step("delete", "seleniumDeployment") \o Step("delete", "seleniumService")
      \o Step("delete", "seleniumIngress") \o DeleteTestNamespace("seleniumNamespace")

InitSuite(config) == Step("connect", "-") \o When(config.selenium, deploySeleniumChrome)

CreateCatalogSource(config) ==
    Step("adopt", "catalog") \o Step("found", "catalog") \o Step("sight", "catalog")
      \o When(config.openshift, Step("restart", "catalog"))
      \o Step("settle", "catalog") \o Step("await", "catalog")

\* The check is CreateNamespace of the catalog's namespace, which may exist.
InstallOperatorOLM(kind, config) ==
    When(kind = "single", Step("create", "namespace"))
      \o Check
      \o When(config.ownCatalog, CreateCatalogSource(config))
      \o When(kind = "single", Step("create", "group"))
      \o When(~config.configured, Step("lookUp", "manifest"))
      \o Step("create", Subscription[kind])
      \o Step("await", Operator[kind])
      \o Step("return", "-")

\* The bundle is one file.  With a pull secret (PullSecret has the detail) the pods of the
\* operator are deleted before the wait for it.
installOperator(config) ==
    Step("create", "namespace") \o Step("apply", "manifests")
      \o Step("apply", "clusterManifests")
      \o When(config.pullSecret, Check \o Step("restart", "bundleOperator"))
      \o Step("await", "bundleOperator")

\* Mutant: the CSV is left installed.
DeleteSubscriptionOnly(kind) == Step("deleteQuietly", Subscription[kind])

\* StartingCSV is not "": InstallOperatorOLM has asserted that (olm.go:370).
DeleteSubscription(kind) ==
    Step("deleteQuietly", Subscription[kind]) \o Step("deleteCsv", Csv[kind])
      \o Step("awaitGone", Operator[kind])

\* Mutant: the catalog source is left to whoever comes next.
UninstallKeepingCatalog(kind, olminfo) ==
    Step("logs", "-")
      \o When(olminfo # "none", DeleteSubscription(kind))
      \o When(kind = "single", DeleteTestNamespace("namespace"))

\* Mutant: the namespace goes only if there is an installation to remove.
UninstallInstalled(kind, olminfo) ==
    Step("logs", "-")
      \o When(olminfo # "none", DeleteSubscription(kind)
            \o When(kind = "single", Step("deleteQuietly", "group"))
            \o When(olminfo = "own", Step("deleteQuietly", "catalog"))
            \o When(olminfo = "empty", Step("deleteUnnamed", "-"))
            \o When(kind = "single", DeleteTestNamespace("namespace")))

\* olminfo is "none" (nil), or tells what its CatalogSource is: "nil", the "own"
\* one, or "empty", the object without a name that a refused Create returns.
UninstallOperatorOLM(kind, olminfo) ==
    Step("logs", "-")
      \o When(olminfo # "none", DeleteSubscription(kind)
            \o When(kind = "single", Step("deleteQuietly", "group"))
            \o When(olminfo = "own", Step("deleteQuietly", "catalog"))
            \o When(olminfo = "empty", Step("deleteUnnamed", "-")))
      \o When(kind = "single", DeleteTestNamespace("namespace"))

uninstallOperator ==
    Step("logs", "-") \o Step("deleteFile", "-") \o Step("finalize", "-")
      \o Step("awaitGone", "bundleOperator") \o DeleteTestNamespace("namespace")

BeforeSuite(kind, config) ==
    InitSuite(config)
      \o IF kind = "bundle" THEN installOperator(config) ELSE InstallOperatorOLM(kind, config)

\* PreTearDown, the removal of the operator, TearDownSuite.
AfterSuite(kind, config, olminfo) ==
    When(config.selenium, Step("logs", "-"))
      \o (IF kind = "bundle" THEN uninstallOperator ELSE UninstallOperatorOLM(kind, olminfo))
      \o When(config.selenium, removeSeleniumChrome)
      \o Check
=============================================================================
