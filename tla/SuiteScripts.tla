--------------------------- MODULE SuiteScripts ----------------------------
(***************************************************************************)
(* The test functions of the suites as scripts for module Harness: one     *)
(* definition per Go function, in the order of its calls.  A function      *)
(* without deferred calls is inlined in its callers; the others are        *)
(* entries of SuiteBody.  A debug `get` through kubectl is left out where  *)
(* an assertion on the API stands next to it.                              *)
(*                                                                         *)
(* The specs share one namespace, but for those of the multinamespace      *)
(* suite, and name what they create the same way each time: two specs on   *)
(* the same storage use the same objects.                                  *)
(***************************************************************************)
EXTENDS Sequences

Step(op, arg) == [op |-> op, arg |-> arg]
Bare(op) == <<Step(op, "-")>>

Calling(script)  == <<Step("call", script)>>
Deferring(script) == <<Step("defer", script)>>
Register(script) == <<Step("register", script)>>
Create(o)        == <<Step("create", o)>>
Apply(o)         == <<Step("apply", o)>>
Await(o)         == <<Step("await", o)>>
Delete(o)        == <<Step("delete", o)>>
Check            == Bare("check")

\* `kubectl delete` does not return before the object is gone.
KubectlDelete(o) == <<Step("delete", o), Step("finalize", o)>>

\* Get, and if it is found Delete and WaitForObjectDeleted.
RemoveIfFound(o) == <<Step("deleteIfFound", o), Step("awaitGone", o)>>

----------------------------------------------------------------------------
(* What the suites create. *)

SqlDb == [pvc |-> "sqlPvc", dep |-> "sqlDatabase", svc |-> "sqlService"]
DebeziumDb == [pvc |-> "debeziumPvc", dep |-> "debeziumDatabase", svc |-> "debeziumDbService"]

SqlRegistry == [cr |-> "sqlRegistry", dep |-> "sqlDeployment"]
KafkaRegistry == [cr |-> "kafkaRegistry", dep |-> "kafkaDeployment"]

\* What MultinamespacedTestCase makes in each of its namespaces.
First == [namespace |-> "firstNamespace",
          db |-> [pvc |-> "firstPvc", dep |-> "firstDatabase", svc |-> "firstService"],
          registry |-> [cr |-> "firstRegistry", dep |-> "firstDeployment"]]
Second == [namespace |-> "secondNamespace",
           db |-> [pvc |-> "secondPvc", dep |-> "secondDatabase", svc |-> "secondService"],
           registry |-> [cr |-> "secondRegistry", dep |-> "secondDeployment"]]

\* Keycloak, and the operator OLM installs for it.
Keycloak == [group |-> "keycloakGroup", sub |-> "keycloakSubscription",
             csv |-> "keycloakCsv", operator |-> "keycloakOperator",
             server |-> "keycloakServer", pods |-> "keycloakPods",
             svc |-> "keycloakService", route |-> "keycloakRoute",
             realm |-> "keycloakRealm"]

StorageKafka == [cr |-> "storageKafka", pods |-> "storageKafkaPods"]
DebeziumKafka == [cr |-> "debeziumKafka", pods |-> "debeziumKafkaPods"]
SharedKafka == [cr |-> "sharedKafka", pods |-> "sharedKafkaPods"]

----------------------------------------------------------------------------
(* utils/sql/postgresql.go *)

deployPostgresqlDatabase(db) ==
    Create(db.pvc) \o Create(db.dep) \o Create(db.svc) \o Await(db.dep) \o Check

\* Mutant: the claim is forgotten.
RemoveDatabaseKeepingClaim(db) == RemoveIfFound(db.dep) \o RemoveIfFound(db.svc)

RemovePostgresqlDatabase(db) ==
    RemoveIfFound(db.dep) \o RemoveIfFound(db.pvc) \o RemoveIfFound(db.svc)

----------------------------------------------------------------------------
(* utils/apicurio/registry.go: RegistryLifecycle has the detail. *)

CreateRegistryAndWait(reg) ==
    Bare("name") \o Create(reg.cr) \o Await(reg.cr) \o Await(reg.dep) \o Check

DeleteRegistryAndWait(reg) ==
    <<Step("deleteRegistry", reg.cr), Step("awaitGone", reg.cr),
      Step("awaitGoneQuietly", reg.dep)>>

----------------------------------------------------------------------------
(* utils/kafkasql/kafkasql.go *)

deployStrimziOperator ==
    <<Step("returnIfInstalled", "strimzi")>> \o Apply("bundleFile")
      \o <<Step("deleteQuietly", "strimzi"), Step("finalize", "strimzi")>>
      \o Create("strimzi") \o Await("strimzi") \o Bare("installed")

\* The KafkaUser of a secured cluster ("tls", "scram").
Secured(security, steps) == IF security = "" THEN <<>> ELSE steps

DeployKafkaCluster(kafka, security) ==
    Calling("deployStrimziOperator") \o Apply(kafka.cr)
      \o Secured(security, Apply("kafkaUser")) \o Await(kafka.pods) \o Check

RemoveKafkaCluster(kafka, security) ==
    KubectlDelete(kafka.cr) \o Secured(security, KubectlDelete("kafkaUser"))
      \o <<Step("awaitGone", kafka.pods)>>

RemoveStrimziOperator ==
    <<Step("read", "bundleFile")>> \o KubectlDelete("strimzi")

\* scripts/kafka/create_cert_stores.sh has no `set -e`: only its last command counts,
\* which for scram is an `if` that does nothing.
CreateCertStores(security) ==
    CASE security = ""      -> <<>>
      [] security = "scram" -> <<Step("attempt", "truststore")>>
      [] security = "tls"   -> <<Step("attempt", "truststore")>> \o Create("keystore")

\* Mutant: scram is taken for unsecured.
DeleteTlsStores(security) ==
    CASE security # "tls" -> <<>>
      [] security = "tls" -> KubectlDelete("truststore") \o KubectlDelete("keystore")

DeleteCertStores(security) ==
    CASE security = ""      -> <<>>
      [] security = "scram" -> KubectlDelete("truststore")
      [] security = "tls"   -> KubectlDelete("truststore") \o KubectlDelete("keystore")

\* Mutant: the operator goes before the cluster it runs.
RemoveOperatorFirst(security) ==
    DeleteRegistryAndWait(KafkaRegistry) \o DeleteCertStores(security)
      \o Deferring("removeBundleFile") \o RemoveStrimziOperator
      \o RemoveKafkaCluster(StorageKafka, security)

\* Mutant: the cluster goes while the registry still uses it.
RemoveKafkaBeforeRegistry(security) ==
    RemoveKafkaCluster(StorageKafka, security) \o DeleteRegistryAndWait(KafkaRegistry)
      \o DeleteCertStores(security) \o Deferring("removeBundleFile")
      \o RemoveStrimziOperator

RemoveKafkaSqlRegistry(security) ==
    DeleteRegistryAndWait(KafkaRegistry) \o DeleteCertStores(security)
      \o RemoveKafkaCluster(StorageKafka, security)
      \o Deferring("removeBundleFile") \o RemoveStrimziOperator

----------------------------------------------------------------------------
(* utils/sql/postgresql.go: the registry and its database *)

\* Mutant: the database goes first.
RemoveDatabaseThenRegistry(registry, db) ==
    RemovePostgresqlDatabase(db) \o DeleteRegistryAndWait(registry)

RemoveJpaRegistry(registry, db) ==
    DeleteRegistryAndWait(registry) \o RemovePostgresqlDatabase(db)

----------------------------------------------------------------------------
(* utils/apicurio/deploy/deploy.go *)

DeploySqlRegistry(registry, db) ==
    Bare("name") \o deployPostgresqlDatabase(db) \o CreateRegistryAndWait(registry)

DeployKafkaRegistry(security) ==
    DeployKafkaCluster(StorageKafka, security) \o CreateCertStores(security)
      \o CreateRegistryAndWait(KafkaRegistry)

----------------------------------------------------------------------------
(* utils/logs/logs.go *)

\* It asserts on everything it reads and writes.
SaveLogs == Bare("saveLogs")

----------------------------------------------------------------------------
(* utils/testcase/testcase.go *)

\* Mutant: the cleanups wait for a test that passed.
executeTestUndeferred(deploy, remove, test) ==
    Register(remove) \o deploy \o Calling(test) \o Calling("SaveLogsAndExecuteTestCleanups")

executeTestOnStorage(deploy, remove, test) ==
    Register(remove) \o Deferring("SaveLogsAndExecuteTestCleanups") \o deploy \o Calling(test)

SaveLogsAndExecuteTestCleanups == SaveLogs \o Bare("cleanups")

BasicTest == Bare("test")

\* Mutant: the shared cluster stays if the test fails.
SharedKafkaTestUndeferred ==
    DeployKafkaCluster(SharedKafka, "") \o Bare("test") \o Calling("RemoveSharedKafka")

\* The test function of executeTestCase, with a shared Kafka cluster and without.
SharedKafkaTest ==
    DeployKafkaCluster(SharedKafka, "") \o Deferring("RemoveSharedKafka") \o Bare("test")

----------------------------------------------------------------------------
(* utils/converters/converters.go, with a Debezium image built locally. *)

Debezium == <<"debezium", "debeziumService", "debeziumIngress">>

deployDebezium ==
    Create(Debezium[1]) \o Create(Debezium[2]) \o Create(Debezium[3])
      \o Register("debeziumCleanup") \o Await(Debezium[1])

debeziumCleanup == Delete(Debezium[1]) \o Delete(Debezium[2]) \o Delete(Debezium[3])

\* The image is built and pushed first.
ConvertersTestCase ==
    Check \o DeployKafkaCluster(DebeziumKafka, "")
      \o <<Step("registerIfDeployed", "strimziCleanup")>>
      \o Register("kafkaCleanup")
      \o deployPostgresqlDatabase(DebeziumDb)
      \o Register("postgresCleanup")
      \o deployDebezium
      \o Bare("test")

----------------------------------------------------------------------------

(* utils/keycloak/keycloak.go, on OpenShift *)

installKeycloakOperator ==
    Create(Keycloak.group) \o Create(Keycloak.sub) \o Await(Keycloak.operator)

DeployKeycloak ==
    installKeycloakOperator \o Apply(Keycloak.server) \o Await(Keycloak.pods)
      \o Create(Keycloak.svc) \o Create(Keycloak.route) \o Await(Keycloak.route)
      \o Apply(Keycloak.realm)

\* Mutant: the operator group stays.
removeOperatorKeepingGroup ==
    <<Step("deleteQuietly", Keycloak.sub), Step("deleteQuietly", Keycloak.csv),
      Step("awaitGone", Keycloak.operator)>>

\* The package manifest names the CSV of its default channel: StartingCSV is not "".
removeKeycloakOperator ==
    <<Step("deleteQuietly", Keycloak.sub), Step("deleteQuietly", Keycloak.csv),
      Step("deleteQuietly", Keycloak.group), Step("awaitGone", Keycloak.operator)>>

\* Mutant: the operator goes before the server it runs.
RemoveKeycloakOperatorFirst ==
    removeKeycloakOperator \o KubectlDelete(Keycloak.realm) \o KubectlDelete(Keycloak.server)
      \o Delete(Keycloak.svc) \o Delete(Keycloak.route)

RemoveKeycloak ==
    KubectlDelete(Keycloak.realm) \o KubectlDelete(Keycloak.server)
      \o <<Step("awaitGone", Keycloak.pods)>>
      \o Delete(Keycloak.svc) \o Delete(Keycloak.route) \o removeKeycloakOperator

----------------------------------------------------------------------------
(* utils/security/security.go *)

Testcase ==
    DeployKeycloak \o Deferring("RemoveKeycloak")
      \o Calling("securitySql") \o Calling("securityKafkasql")

runStorageSecurityTest(deploy, closure) ==
    Bare("newContext") \o Deferring(closure) \o deploy \o Bare("test")

SaveLogsAndRemove(remove) == SaveLogs \o remove

----------------------------------------------------------------------------
(* utils/testcase/testcase.go: two registries in namespaces of their own. *)

\* The pull secret follows the namespace.
CreateTestNamespace(namespace) == Create(namespace) \o Check
DeleteTestNamespace(namespace) == RemoveIfFound(namespace)

MultinamespacedTestCase ==
    CreateTestNamespace(First.namespace) \o CreateTestNamespace(Second.namespace)
      \o Deferring("multinamespaceCleanup")
      \o DeploySqlRegistry(First.registry, First.db) \o BasicTest
      \o DeploySqlRegistry(Second.registry, Second.db) \o BasicTest

\* Mutant: the namespaces are deleted in the loop and not deferred.
multinamespaceCleanupUndeferred ==
    SaveLogsAndRemove(RemoveJpaRegistry(First.registry, First.db))
      \o DeleteTestNamespace(First.namespace)
      \o SaveLogsAndRemove(RemoveJpaRegistry(Second.registry, Second.db))
      \o DeleteTestNamespace(Second.namespace)

\* Mutant: the deferred calls share the variable of the loop.
multinamespaceCleanupOfLast ==
    Deferring("deleteSecond") \o SaveLogsAndRemove(RemoveJpaRegistry(First.registry, First.db))
      \o Deferring("deleteSecond")
      \o SaveLogsAndRemove(RemoveJpaRegistry(Second.registry, Second.db))

\* Each context holds one cleanup, registered just before it is executed.
multinamespaceCleanup ==
    Deferring("deleteFirst") \o SaveLogsAndRemove(RemoveJpaRegistry(First.registry, First.db))
      \o Deferring("deleteSecond")
      \o SaveLogsAndRemove(RemoveJpaRegistry(Second.registry, Second.db))

----------------------------------------------------------------------------
(* Who makes what, and what goes with what.  A controller creates the      *)
(* Deployment of a registry, the pods of a Kafka cluster or a Keycloak; OLM*)
(* a CSV for a subscription and a Deployment for a CSV.  They go with what *)
(* they were made for, except a CSV, which outlives its subscription.  The *)
(* Strimzi bundle holds the CRDs, and every Kafka goes with them.          *)

MadeFor ==
    [firstDeployment |-> "firstRegistry", secondDeployment |-> "secondRegistry",
     sqlDeployment |-> "sqlRegistry", kafkaDeployment |-> "kafkaRegistry",
     storageKafkaPods |-> "storageKafka", debeziumKafkaPods |-> "debeziumKafka",
     sharedKafkaPods |-> "sharedKafka", keycloakPods |-> "keycloakServer",
     keycloakCsv |-> "keycloakSubscription", keycloakOperator |-> "keycloakCsv"]

GoesWith ==
    [firstDeployment |-> "firstRegistry", secondDeployment |-> "secondRegistry",
     sqlDeployment |-> "sqlRegistry", kafkaDeployment |-> "kafkaRegistry",
     storageKafkaPods |-> "storageKafka", debeziumKafkaPods |-> "debeziumKafka",
     sharedKafkaPods |-> "sharedKafka", keycloakPods |-> "keycloakServer",
     keycloakOperator |-> "keycloakCsv", storageKafka |-> "strimzi",
     debeziumKafka |-> "strimzi", sharedKafka |-> "strimzi", kafkaUser |-> "strimzi"]

LivesIn ==
    [firstPvc |-> "firstNamespace", firstDatabase |-> "firstNamespace",
     firstService |-> "firstNamespace", firstRegistry |-> "firstNamespace",
     firstDeployment |-> "firstNamespace",
     secondPvc |-> "secondNamespace", secondDatabase |-> "secondNamespace",
     secondService |-> "secondNamespace", secondRegistry |-> "secondNamespace",
     secondDeployment |-> "secondNamespace"]

\* A registry and its Deployment work on a database or on the pods of a Kafka cluster.
WorksWith ==
    [sqlRegistry |-> {"sqlDatabase", "sqlService"},
     sqlDeployment |-> {"sqlDatabase", "sqlService"}, sqlDatabase |-> {"sqlPvc"},
     firstRegistry |-> {"firstDatabase", "firstService"},
     firstDeployment |-> {"firstDatabase", "firstService"}, firstDatabase |-> {"firstPvc"},
     secondRegistry |-> {"secondDatabase", "secondService"},
     secondDeployment |-> {"secondDatabase", "secondService"}, secondDatabase |-> {"secondPvc"},
     kafkaRegistry |-> {"storageKafkaPods"}, kafkaDeployment |-> {"storageKafkaPods"},
     storageKafka |-> {"strimzi"}, storageKafkaPods |-> {"strimzi"},
     debeziumKafka |-> {"strimzi"}, debeziumKafkaPods |-> {"strimzi"},
     sharedKafka |-> {"strimzi"}, sharedKafkaPods |-> {"strimzi"},
     debeziumDatabase |-> {"debeziumPvc"}, debezium |-> {"debeziumKafkaPods", "debeziumDatabase"},
     keycloakServer |-> {"keycloakOperator"}, keycloakPods |-> {"keycloakOperator"},
     keycloakRealm |-> {"keycloakPods"}]

Awaited ==
    DOMAIN MadeFor \cup {SqlDb.dep, DebeziumDb.dep, First.db.dep, Second.db.dep,
                        Debezium[1], "strimzi", Keycloak.route}

\* What MultinamespacedTestCase makes, and what the other specs make.
MultinamespaceObjects == {First.namespace, Second.namespace} \cup DOMAIN LivesIn
SuiteObjects ==
    (Awaited \ DOMAIN LivesIn) \cup {SqlDb.pvc, SqlDb.svc, DebeziumDb.pvc, DebeziumDb.svc, SqlRegistry.cr,
                  KafkaRegistry.cr, StorageKafka.cr, DebeziumKafka.cr, SharedKafka.cr,
                  "kafkaUser", "truststore", "keystore", "bundleFile", Debezium[2],
                  Debezium[3], Keycloak.group, Keycloak.sub, Keycloak.server,
                  Keycloak.svc, Keycloak.realm}

\* A table for every object of a suite.
Total(table, objects, default) ==
    [o \in objects |-> IF o \in DOMAIN table THEN table[o] ELSE default]

----------------------------------------------------------------------------

Multinamespace ==
    [multinamespace |-> MultinamespacedTestCase,
     multinamespaceCleanup |-> multinamespaceCleanup,
     deleteFirst |-> DeleteTestNamespace(First.namespace),
     deleteSecond |-> DeleteTestNamespace(Second.namespace)]

\* What every test on a database has around it, and every one on Kafka.
OnSql(test) == executeTestOnStorage(DeploySqlRegistry(SqlRegistry, SqlDb), "RemoveJpaRegistry", test)
OnKafka(security, remove, test) == executeTestOnStorage(DeployKafkaRegistry(security), remove, test)

SuiteBody ==
    [storageSql |-> OnSql("test"),
     clusteredSql |-> OnSql("test"),
     storageKafkasql |-> OnKafka("", "RemoveKafkaSqlRegistry", "test"),
     clusteredKafkasql |-> OnKafka("", "RemoveKafkaSqlRegistry", "test"),
     scram |-> OnKafka("scram", "RemoveScram", "test"),
     tls |-> OnKafka("tls", "RemoveTls", "test"),
     convertersSql |-> OnSql("ConvertersTestCase"),
     sqlSharedkafka |-> OnSql("SharedKafkaTest"),
     kafkasqlSharedkafka |-> OnKafka("", "RemoveKafkaSqlRegistry", "SharedKafkaTest"),
     clusteredSharedkafka |-> OnKafka("", "RemoveKafkaSqlRegistry", "SharedKafkaTest"),
     keycloak |-> Testcase,
     test |-> BasicTest,
     SharedKafkaTest |-> SharedKafkaTest,
     RemoveSharedKafka |-> RemoveKafkaCluster(SharedKafka, ""),
     ConvertersTestCase |-> ConvertersTestCase,
     SaveLogsAndExecuteTestCleanups |-> SaveLogsAndExecuteTestCleanups,
     RemoveJpaRegistry |-> RemoveJpaRegistry(SqlRegistry, SqlDb),
     RemoveKafkaSqlRegistry |-> RemoveKafkaSqlRegistry(""),
     RemoveScram |-> RemoveKafkaSqlRegistry("scram"),
     RemoveTls |-> RemoveKafkaSqlRegistry("tls"),
     removeBundleFile |-> <<Step("erase", "bundleFile")>>,
     deployStrimziOperator |-> deployStrimziOperator,
     strimziCleanup |-> RemoveStrimziOperator,
     kafkaCleanup |-> RemoveKafkaCluster(DebeziumKafka, ""),
     postgresCleanup |-> RemovePostgresqlDatabase(DebeziumDb),
     debeziumCleanup |-> debeziumCleanup,
     RemoveKeycloak |-> RemoveKeycloak,
     securitySql |-> runStorageSecurityTest(DeploySqlRegistry(SqlRegistry, SqlDb), "closureSql"),
     securityKafkasql |-> runStorageSecurityTest(DeployKafkaRegistry(""), "closureKafkasql"),
     closureSql |-> SaveLogsAndRemove(RemoveJpaRegistry(SqlRegistry, SqlDb)),
     closureKafkasql |-> SaveLogsAndRemove(RemoveKafkaSqlRegistry(""))]

=============================================================================
