------------------------ MODULE SuiteScripts_proofs -------------------------
(***************************************************************************)
(* The scripts of the suites meet the conditions of TestSuite_proofs and of*)
(* GreenSuite_proofs: every one of them that takes the storage of a        *)
(* registry has waited for that registry to be gone, and every one sees to *)
(* the removal of what it makes, but for the specs of a shared Kafka       *)
(* cluster.  The theorems hold for any selection of the other specs and any*)
(* operations that may fail.                                               *)
(***************************************************************************)
EXTENDS GreenSuite_proofs, SuiteScripts

\* The suites that share one namespace, and the multinamespace suite.
SharedNamespace ==
    /\ Scripts = DOMAIN SuiteBody /\ Body = SuiteBody
    /\ Objects = SuiteObjects /\ None = "none"
    /\ Maker = Total(MadeFor, SuiteObjects, "none")
    /\ Owner = Total(GoesWith, SuiteObjects, "none")
    /\ Needs = Total(WorksWith, SuiteObjects, {})
    /\ Registries = {SqlRegistry.cr, KafkaRegistry.cr}

OwnNamespaces ==
    /\ Scripts = DOMAIN Multinamespace /\ Body = Multinamespace
    /\ Objects = MultinamespaceObjects /\ None = "none"
    /\ Maker = Total(MadeFor, MultinamespaceObjects, "none")
    /\ Owner = Total(GoesWith, MultinamespaceObjects, "none")
    /\ Needs = Total(WorksWith, MultinamespaceObjects, {})
    /\ Registries = {First.registry.cr, Second.registry.cr}

TheSuites == SharedNamespace \/ OwnNamespaces

\* What a registry depends on, its database or its Kafka cluster.
Storage ==
    [sqlRegistry |-> {"sqlDatabase", "sqlService"},
     kafkaRegistry |-> {"storageKafkaPods", "storageKafka"},
     firstRegistry |-> {"firstDatabase", "firstService"},
     secondRegistry |-> {"secondDatabase", "secondService"}]
TheRegistries == {"sqlRegistry", "kafkaRegistry", "firstRegistry", "secondRegistry"}
AllStorage == UNION {Storage[r] : r \in TheRegistries}

LEMMA RegistryNames ==
    ASSUME TheSuites
    PROVE  /\ Registries \subseteq TheRegistries /\ Registries \subseteq Objects
           /\ \A r \in Registries : Maker[r] = None
<1> USE DEF TheRegistries, Total, MadeFor, First, Second, SqlRegistry, KafkaRegistry
<1>1. CASE SharedNamespace
    BY <1>1 DEF SharedNamespace, SuiteObjects
<1>2. CASE OwnNamespaces
    BY <1>2 DEF OwnNamespaces, MultinamespaceObjects, LivesIn
<1> QED BY <1>1, <1>2 DEF TheSuites

LEMMA StorageNames ==
    ASSUME TheSuites, NEW r \in Registries, NEW o, DependsOn(r, o), o # "none"
    PROVE  o \in Storage[r]
<1>0. r \in TheRegistries /\ r \in Objects BY RegistryNames
<1>1. PICK objects : /\ Objects = objects
                     /\ Owner = Total(GoesWith, objects, "none")
                     /\ Needs = Total(WorksWith, objects, {})
    BY DEF TheSuites, SharedNamespace, OwnNamespaces
<1>2. Needs[r] = WorksWith[r]
    BY <1>0, <1>1 DEF Total, WorksWith, TheRegistries
<1>3. ASSUME NEW q \in Needs[r], Owner[q] = o PROVE o \in Storage[r]
    <2>1. q \in Objects BY <1>0, HarnessAssumption
    <2>2. o = IF q \in DOMAIN GoesWith THEN GoesWith[q] ELSE "none"
        BY <1>1, <1>3, <2>1 DEF Total
    <2>3. r # "kafkaRegistry" => q \notin DOMAIN GoesWith
        BY <1>0, <1>2 DEF WorksWith, GoesWith, TheRegistries
    <2>4. r = "kafkaRegistry" => q = "storageKafkaPods"
        BY <1>2 DEF WorksWith
    <2> QED BY <1>0, <2>2, <2>3, <2>4 DEF GoesWith, Storage
<1> QED BY <1>0, <1>2, <1>3 DEF DependsOn, Storage, WorksWith, TheRegistries

----------------------------------------------------------------------------
(* Lists of steps that take no storage, and lists that wait for a registry first. *)

\* The names that occur in the scripts.
Names ==
    {"-", "sqlPvc", "sqlDatabase", "sqlService", "debeziumPvc", "debeziumDatabase",
     "debeziumDbService", "firstPvc", "firstDatabase", "firstService", "secondPvc",
     "secondDatabase", "secondService", "sqlRegistry", "sqlDeployment", "kafkaRegistry",
     "kafkaDeployment", "firstRegistry", "firstDeployment", "secondRegistry",
     "secondDeployment", "firstNamespace", "secondNamespace", "keycloakGroup",
     "keycloakSubscription", "keycloakCsv", "keycloakOperator", "keycloakServer",
     "keycloakPods", "keycloakService", "keycloakRoute", "keycloakRealm", "storageKafka",
     "storageKafkaPods", "debeziumKafka", "debeziumKafkaPods", "sharedKafka",
     "sharedKafkaPods", "strimzi", "bundleFile", "kafkaUser", "truststore", "keystore",
     "debezium", "debeziumService", "debeziumIngress",
     "test", "SharedKafkaTest", "RemoveSharedKafka", "ConvertersTestCase",
     "SaveLogsAndExecuteTestCleanups", "RemoveJpaRegistry", "RemoveKafkaSqlRegistry",
     "RemoveScram", "RemoveTls", "removeBundleFile", "deployStrimziOperator",
     "strimziCleanup", "kafkaCleanup", "postgresCleanup", "debeziumCleanup",
     "RemoveKeycloak", "securitySql", "securityKafkasql", "closureSql", "closureKafkasql",
     "multinamespaceCleanup", "deleteFirst", "deleteSecond"}

Texts == [op : Ops, arg : Names]
Spared(r) == {x \in Texts : x.op \in Removals => x.arg \notin Storage[r] \cup {"none"}}
Harmless == {x \in Texts : x.op \in Removals => x.arg \notin AllStorage \cup {"none"}}

\* r has been waited for, and is not made any more.
Cleared(s, r) == \E j \in 1 .. Len(s) : Awaits(s[j], r) /\ Unmade(s, r, j + 1, Len(s))

InOrder(s) ==
    /\ s \in Seq(Texts)
    /\ \A r \in Registries : Guarded(s, r)

LEMMA ConcatIndices ==
    ASSUME NEW s \in Seq(Texts), NEW t \in Seq(Texts)
    PROVE  /\ s \o t \in Seq(Texts)
           /\ Len(s) \in Nat /\ Len(t) \in Nat /\ Len(s \o t) = Len(s) + Len(t)
           /\ \A i \in 1 .. Len(s) : (s \o t)[i] = s[i]
           /\ \A i \in 1 .. Len(t) : (s \o t)[Len(s) + i] = t[i]
           /\ \A i \in 1 .. Len(s \o t) :
                  i \notin 1 .. Len(s) => i - Len(s) \in 1 .. Len(t) /\ i = Len(s) + (i - Len(s))
BY ConcatProperties

LEMMA SparedGuarded ==
    ASSUME TheSuites, NEW r \in Registries, NEW s \in Seq(Spared(r))
    PROVE  s \in Seq(Texts) /\ Guarded(s, r)
<1>1. s \in Seq(Texts)
    BY SeqMonotonic DEF Spared
<1>2. ASSUME NEW i \in 1 .. Len(s) PROVE ~Takes(s[i], r)
    <2>1. s[i] \in Spared(r) OBVIOUS
    <2> QED BY <2>1, StorageNames DEF Spared, Takes
<1> QED BY <1>1, <1>2 DEF Guarded

LEMMA HarmlessSpared ==
    ASSUME TheSuites, NEW r \in Registries, NEW s \in Seq(Harmless)
    PROVE  s \in Seq(Spared(r))
<1>1. Harmless \subseteq Spared(r)
    BY RegistryNames DEF Harmless, Spared, AllStorage
<1> QED BY <1>1, SeqMonotonic

LEMMA HarmlessInOrder ==
    ASSUME TheSuites, NEW s \in Seq(Harmless)
    PROVE  InOrder(s)
<1>1. Harmless \subseteq Texts BY DEF Harmless
<1>2. s \in Seq(Texts) BY <1>1, SeqMonotonic
<1> QED BY <1>2, HarmlessSpared, SparedGuarded DEF InOrder

LEMMA HarmlessConcat ==
    ASSUME NEW s \in Seq(Harmless), NEW t \in Seq(Harmless)
    PROVE  s \o t \in Seq(Harmless)
BY ConcatProperties

\* The calls that take nothing away, and what may be taken away at any time.
Calls == Ops \ Removals
Free == Names \ (AllStorage \cup {"none"})

LEMMA HarmlessStep ==
    /\ \A op \in Calls : \A o \in Names : Step(op, o) \in Harmless
    /\ \A op \in Ops : \A o \in Free : Step(op, o) \in Harmless
BY DEF Step, Harmless, Texts, Calls, Free

LEMMA CallNames ==
    /\ {"call", "defer", "register", "registerIfDeployed", "create", "apply", "attempt", "await",
        "awaitGone", "awaitGoneQuietly", "finalize", "read", "erase", "returnIfInstalled",
        "newContext", "name", "installed", "cleanups", "saveLogs", "check",
        "test"} \subseteq Calls
    /\ {"delete", "deleteQuietly", "deleteIfFound", "deleteRegistry"} \subseteq Ops
    /\ Calls \subseteq Ops
BY DEF Calls, Removals, Ops, ObjectOps, ScriptOps, PlainOps

LEMMA GuardedConcat ==
    ASSUME NEW r, NEW s \in Seq(Texts), NEW t \in Seq(Texts), Guarded(s, r), Guarded(t, r)
    PROVE  Guarded(s \o t, r)
<1> DEFINE u == s \o t
<1>0. /\ Len(s) \in Nat /\ Len(t) \in Nat /\ Len(u) = Len(s) + Len(t)
      /\ \A i \in 1 .. Len(s) : u[i] = s[i]
      /\ \A i \in 1 .. Len(t) : u[Len(s) + i] = t[i]
    BY ConcatIndices
<1> HIDE DEF u
<1> SUFFICES ASSUME NEW i \in 1 .. Len(u), Takes(u[i], r)
             PROVE  \E j \in 1 .. i - 1 : Awaits(u[j], r) /\ Unmade(u, r, j + 1, i - 1)
    BY DEF Guarded, u
<1>1. CASE i \in 1 .. Len(s)
    <2>1. PICK j \in 1 .. i - 1 : Awaits(s[j], r) /\ Unmade(s, r, j + 1, i - 1)
        BY <1>0, <1>1 DEF Guarded
    <2>2. j \in 1 .. Len(s) /\ \A k \in j + 1 .. i - 1 : k \in 1 .. Len(s)
        BY <1>0, <1>1
    <2> QED BY <1>0, <2>1, <2>2 DEF Unmade
<1>2. CASE i \notin 1 .. Len(s)
    <2> DEFINE m == i - Len(s)
    <2>1. m \in 1 .. Len(t) /\ i = Len(s) + m BY <1>0, <1>2
    <2>2. PICK j \in 1 .. m - 1 : Awaits(t[j], r) /\ Unmade(t, r, j + 1, m - 1)
        BY <1>0, <2>1 DEF Guarded
    <2>3. Len(s) + j \in 1 .. i - 1 /\ u[Len(s) + j] = t[j] BY <1>0, <2>1
    <2>4. ASSUME NEW k \in Len(s) + j + 1 .. i - 1 PROVE ~MayMake(u[k], r)
        <3>1. k - Len(s) \in j + 1 .. m - 1 /\ k - Len(s) \in 1 .. Len(t) /\ k = Len(s) + (k - Len(s))
            BY <1>0, <2>1
        <3>2. u[k] = t[k - Len(s)] BY <1>0, <3>1
        <3> QED BY <2>2, <3>1, <3>2 DEF Unmade
    <2>5. Unmade(u, r, Len(s) + j + 1, i - 1) BY <2>4 DEF Unmade
    <2> QED BY <2>2, <2>3, <2>5
<1> QED BY <1>1, <1>2

LEMMA InOrderConcat ==
    ASSUME NEW s, NEW t, InOrder(s), InOrder(t)
    PROVE  InOrder(s \o t)
BY ConcatIndices, GuardedConcat DEF InOrder

\* Once r is gone its storage may go.
LEMMA ClearedConcat ==
    ASSUME NEW r, NEW s \in Seq(Texts), NEW t \in Seq(Texts), Guarded(s, r), Cleared(s, r),
           \A i \in 1 .. Len(t) : ~MayMake(t[i], r)
    PROVE  Guarded(s \o t, r) /\ Cleared(s \o t, r)
<1> DEFINE u == s \o t
<1>0. /\ Len(s) \in Nat /\ Len(t) \in Nat /\ Len(u) = Len(s) + Len(t)
      /\ \A i \in 1 .. Len(s) : u[i] = s[i]
      /\ \A i \in 1 .. Len(t) : u[Len(s) + i] = t[i]
    BY ConcatIndices
<1> HIDE DEF u
<1>1. PICK j \in 1 .. Len(s) : Awaits(s[j], r) /\ Unmade(s, r, j + 1, Len(s))
    BY DEF Cleared
<1>2. ASSUME NEW k \in j + 1 .. Len(u) PROVE ~MayMake(u[k], r)
    <2>1. CASE k <= Len(s)
        <3>1. k \in j + 1 .. Len(s) /\ k \in 1 .. Len(s) BY <1>0, <2>1
        <3> QED BY <1>0, <1>1, <3>1 DEF Unmade
    <2>2. CASE k > Len(s)
        <3>1. k - Len(s) \in 1 .. Len(t) /\ k = Len(s) + (k - Len(s)) BY <1>0, <2>2
        <3> QED BY <1>0, <3>1
    <2> QED BY <1>0, <2>1, <2>2
<1>3. j \in 1 .. Len(u) /\ Awaits(u[j], r) BY <1>0, <1>1
<1>4. Cleared(u, r)
    BY <1>2, <1>3 DEF Cleared, Unmade
<1>5. Guarded(u, r)
    <2> SUFFICES ASSUME NEW i \in 1 .. Len(u), Takes(u[i], r)
                 PROVE  \E m \in 1 .. i - 1 : Awaits(u[m], r) /\ Unmade(u, r, m + 1, i - 1)
        BY DEF Guarded
    <2>1. CASE i \in 1 .. Len(s)
        <3>1. PICK m \in 1 .. i - 1 : Awaits(s[m], r) /\ Unmade(s, r, m + 1, i - 1)
            BY <1>0, <2>1 DEF Guarded
        <3>2. m \in 1 .. Len(s) /\ \A k \in m + 1 .. i - 1 : k \in 1 .. Len(s)
            BY <1>0, <2>1
        <3> QED BY <1>0, <3>1, <3>2 DEF Unmade
    <2>2. CASE i \notin 1 .. Len(s)
        <3>1. j \in 1 .. i - 1 BY <1>0, <2>2
        <3>2. \A k \in j + 1 .. i - 1 : k \in j + 1 .. Len(u) BY <1>0
        <3> QED BY <1>2, <1>3, <3>1, <3>2 DEF Unmade
    <2> QED BY <2>1, <2>2
<1> QED BY <1>4, <1>5 DEF u

----------------------------------------------------------------------------
(* The scripts, from the bottom up. *)

LEMMA HarmlessPieces ==
    /\ \A o \in Names :
           /\ Calling(o) \in Seq(Harmless) /\ Deferring(o) \in Seq(Harmless)
           /\ Register(o) \in Seq(Harmless) /\ Create(o) \in Seq(Harmless)
           /\ Apply(o) \in Seq(Harmless) /\ Await(o) \in Seq(Harmless)
    /\ \A op \in Calls : \A o \in Names : <<Step(op, o)>> \in Seq(Harmless)
    /\ \A op \in Calls : Bare(op) \in Seq(Harmless)
    /\ Check \in Seq(Harmless) /\ SaveLogs \in Seq(Harmless)
    /\ \A o \in Free :
           /\ Delete(o) \in Seq(Harmless)
           /\ KubectlDelete(o) \in Seq(Harmless)
           /\ RemoveIfFound(o) \in Seq(Harmless)
<1>1. \A op \in Calls : \A o \in Names : <<Step(op, o)>> \in Seq(Harmless)
    BY HarmlessStep
<1>2. \A op \in Calls : Bare(op) \in Seq(Harmless)
    <2>1. "-" \in Names BY DEF Names
    <2> QED BY <1>1, <2>1 DEF Bare
<1>3. \A o \in Names :
          /\ Calling(o) \in Seq(Harmless) /\ Deferring(o) \in Seq(Harmless)
          /\ Register(o) \in Seq(Harmless) /\ Create(o) \in Seq(Harmless)
          /\ Apply(o) \in Seq(Harmless) /\ Await(o) \in Seq(Harmless)
    BY <1>1, CallNames DEF Calling, Deferring, Register, Create, Apply, Await
<1>4. Check \in Seq(Harmless) /\ SaveLogs \in Seq(Harmless)
    BY <1>2, CallNames DEF Check, SaveLogs
<1>5. ASSUME NEW o \in Free
      PROVE  /\ Delete(o) \in Seq(Harmless)
             /\ KubectlDelete(o) \in Seq(Harmless)
             /\ RemoveIfFound(o) \in Seq(Harmless)
    <2>1. /\ Step("delete", o) \in Harmless /\ Step("finalize", o) \in Harmless
          /\ Step("deleteIfFound", o) \in Harmless /\ Step("awaitGone", o) \in Harmless
        BY HarmlessStep, CallNames
    <2> QED BY <2>1 DEF Delete, KubectlDelete, RemoveIfFound
<1> QED BY <1>1, <1>2, <1>3, <1>4, <1>5

LEMMA FreeNames ==
    {"sqlPvc", "debeziumPvc", "debeziumDatabase", "debeziumDbService", "firstPvc", "secondPvc",
     "strimzi", "kafkaUser", "truststore", "keystore", "debeziumKafka", "sharedKafka",
     "debezium", "debeziumService", "debeziumIngress", "keycloakGroup", "keycloakSubscription",
     "keycloakCsv", "keycloakServer", "keycloakService", "keycloakRoute", "keycloakRealm",
     "firstNamespace", "secondNamespace"} \subseteq Free
<1>1. AllStorage = {"sqlDatabase", "sqlService", "storageKafkaPods", "storageKafka",
                    "firstDatabase", "firstService", "secondDatabase", "secondService"}
    BY DEF AllStorage, TheRegistries, Storage
<1> QED BY <1>1 DEF Free, Names

LEMMA DatabaseHarmless ==
    /\ \A db \in {SqlDb, DebeziumDb, First.db, Second.db} :
           deployPostgresqlDatabase(db) \in Seq(Harmless)
    /\ RemovePostgresqlDatabase(DebeziumDb) \in Seq(Harmless)
<1>1. ASSUME NEW db \in {SqlDb, DebeziumDb, First.db, Second.db}
      PROVE  deployPostgresqlDatabase(db) \in Seq(Harmless)
    <2>1. db.pvc \in Names /\ db.dep \in Names /\ db.svc \in Names
        BY DEF Names, SqlDb, DebeziumDb, First, Second
    <2> QED BY <2>1, HarmlessPieces, HarmlessConcat DEF deployPostgresqlDatabase
<1>2. RemovePostgresqlDatabase(DebeziumDb) \in Seq(Harmless)
    BY FreeNames, HarmlessPieces, HarmlessConcat DEF RemovePostgresqlDatabase, DebeziumDb
<1> QED BY <1>1, <1>2

LEMMA RegistryHarmless ==
    \A reg \in {SqlRegistry, KafkaRegistry, First.registry, Second.registry} :
        CreateRegistryAndWait(reg) \in Seq(Harmless)
<1> SUFFICES ASSUME NEW reg \in {SqlRegistry, KafkaRegistry, First.registry, Second.registry}
             PROVE  CreateRegistryAndWait(reg) \in Seq(Harmless)
    OBVIOUS
<1>1. reg.cr \in Names /\ reg.dep \in Names
    BY DEF Names, SqlRegistry, KafkaRegistry, First, Second
<1>2. Bare("name") \in Seq(Harmless)
    BY HarmlessPieces, CallNames
<1> QED BY <1>1, <1>2, HarmlessPieces, HarmlessConcat DEF CreateRegistryAndWait

Securities == {"", "scram", "tls"}
Clusters == {StorageKafka, DebeziumKafka, SharedKafka}

LEMMA SecuredHarmless ==
    ASSUME NEW s \in Seq(Harmless), NEW security
    PROVE  Secured(security, s) \in Seq(Harmless)
<1>1. CASE security = ""
    <2>1. Secured(security, s) = <<>> BY <1>1 DEF Secured
    <2>2. <<>> \in Seq(Harmless) OBVIOUS
    <2> QED BY <2>1, <2>2
<1>2. CASE security # ""
    BY <1>2 DEF Secured
<1> QED BY <1>1, <1>2

LEMMA KafkaHarmless ==
    /\ \A kafka \in Clusters : \A security \in Securities :
           DeployKafkaCluster(kafka, security) \in Seq(Harmless)
    /\ \A kafka \in {DebeziumKafka, SharedKafka} : RemoveKafkaCluster(kafka, "") \in Seq(Harmless)
    /\ \A security \in Securities :
           /\ CreateCertStores(security) \in Seq(Harmless)
           /\ DeleteCertStores(security) \in Seq(Harmless)
    /\ deployStrimziOperator \in Seq(Harmless)
    /\ RemoveStrimziOperator \in Seq(Harmless)
    /\ <<Step("erase", "bundleFile")>> \in Seq(Harmless)
<1>1. ASSUME NEW kafka \in Clusters, NEW security \in Securities
      PROVE  DeployKafkaCluster(kafka, security) \in Seq(Harmless)
    <2>1. kafka.cr \in Names /\ kafka.pods \in Names
        BY DEF Names, Clusters, StorageKafka, DebeziumKafka, SharedKafka
    <2>2. Secured(security, Apply("kafkaUser")) \in Seq(Harmless)
        BY HarmlessPieces, SecuredHarmless DEF Names
    <2>3. Calling("deployStrimziOperator") \in Seq(Harmless)
        BY HarmlessPieces DEF Names
    <2> QED BY <2>1, <2>2, <2>3, HarmlessPieces, HarmlessConcat DEF DeployKafkaCluster
<1>2. ASSUME NEW kafka \in {DebeziumKafka, SharedKafka}
      PROVE  RemoveKafkaCluster(kafka, "") \in Seq(Harmless)
    <2>1. kafka.cr \in Free /\ kafka.pods \in Names
        BY FreeNames DEF Names, DebeziumKafka, SharedKafka
    <2>2. Secured("", KubectlDelete("kafkaUser")) \in Seq(Harmless)
        BY HarmlessPieces, FreeNames, SecuredHarmless
    <2>3. <<Step("awaitGone", kafka.pods)>> \in Seq(Harmless)
        BY <2>1, HarmlessPieces, CallNames
    <2> QED BY <2>1, <2>2, <2>3, HarmlessPieces, HarmlessConcat DEF RemoveKafkaCluster
<1>3. ASSUME NEW security \in Securities
      PROVE  CreateCertStores(security) \in Seq(Harmless) /\ DeleteCertStores(security) \in Seq(Harmless)
    <2>1. /\ <<Step("attempt", "truststore")>> \in Seq(Harmless)
          /\ Create("keystore") \in Seq(Harmless) /\ <<>> \in Seq(Harmless)
        BY HarmlessPieces, CallNames DEF Names
    <2>2. /\ KubectlDelete("truststore") \in Seq(Harmless)
          /\ KubectlDelete("keystore") \in Seq(Harmless)
        BY HarmlessPieces, FreeNames
    <2>3. /\ <<Step("attempt", "truststore")>> \o Create("keystore") \in Seq(Harmless)
          /\ KubectlDelete("truststore") \o KubectlDelete("keystore") \in Seq(Harmless)
        BY <2>1, <2>2, HarmlessConcat
    <2> QED BY <2>1, <2>2, <2>3 DEF Securities, CreateCertStores, DeleteCertStores
<1>4. deployStrimziOperator \in Seq(Harmless)
    <2>1. /\ <<Step("returnIfInstalled", "strimzi")>> \in Seq(Harmless)
          /\ Bare("installed") \in Seq(Harmless)
        BY HarmlessPieces, CallNames DEF Names
    <2>2. /\ Step("deleteQuietly", "strimzi") \in Harmless /\ Step("finalize", "strimzi") \in Harmless
        BY FreeNames, HarmlessStep, CallNames
    <2>3. <<Step("deleteQuietly", "strimzi"), Step("finalize", "strimzi")>> \in Seq(Harmless)
        BY <2>2
    <2>4. /\ Apply("bundleFile") \in Seq(Harmless) /\ Create("strimzi") \in Seq(Harmless)
          /\ Await("strimzi") \in Seq(Harmless)
        BY HarmlessPieces DEF Names
    <2> QED BY <2>1, <2>3, <2>4, HarmlessConcat DEF deployStrimziOperator
<1>5. RemoveStrimziOperator \in Seq(Harmless)
    <2>1. <<Step("read", "bundleFile")>> \in Seq(Harmless)
        BY HarmlessPieces, CallNames DEF Names
    <2> QED BY <2>1, HarmlessPieces, HarmlessConcat, FreeNames DEF RemoveStrimziOperator
<1>6. <<Step("erase", "bundleFile")>> \in Seq(Harmless)
    BY HarmlessPieces, CallNames DEF Names
<1> QED BY <1>1, <1>2, <1>3, <1>4, <1>5, <1>6

LEMMA RegistryNameHarmless ==
    /\ Bare("name") \in Seq(Harmless) /\ Bare("test") \in Seq(Harmless)
    /\ Bare("newContext") \in Seq(Harmless) /\ Bare("cleanups") \in Seq(Harmless)
    /\ BasicTest \in Seq(Harmless)
    /\ SaveLogsAndExecuteTestCleanups \in Seq(Harmless)
<1>1. /\ Bare("name") \in Seq(Harmless) /\ Bare("test") \in Seq(Harmless)
      /\ Bare("newContext") \in Seq(Harmless) /\ Bare("cleanups") \in Seq(Harmless)
    BY HarmlessPieces, CallNames
<1> QED BY <1>1, HarmlessPieces, HarmlessConcat DEF BasicTest, SaveLogsAndExecuteTestCleanups

LEMMA DeployHarmless ==
    /\ DeploySqlRegistry(SqlRegistry, SqlDb) \in Seq(Harmless)
    /\ DeploySqlRegistry(First.registry, First.db) \in Seq(Harmless)
    /\ DeploySqlRegistry(Second.registry, Second.db) \in Seq(Harmless)
    /\ \A security \in Securities : DeployKafkaRegistry(security) \in Seq(Harmless)
<1>1. ASSUME NEW db \in {SqlDb, DebeziumDb, First.db, Second.db},
             NEW reg \in {SqlRegistry, KafkaRegistry, First.registry, Second.registry}
      PROVE  DeploySqlRegistry(reg, db) \in Seq(Harmless)
    BY DatabaseHarmless, RegistryHarmless, RegistryNameHarmless, HarmlessConcat
       DEF DeploySqlRegistry
<1>2. ASSUME NEW security \in Securities
      PROVE  DeployKafkaRegistry(security) \in Seq(Harmless)
    BY KafkaHarmless, RegistryHarmless, HarmlessConcat DEF DeployKafkaRegistry, Clusters
<1> QED BY <1>1, <1>2

\* The specs that deploy a registry, and what they test it with.
LEMMA TestsHarmless ==
    /\ \A test \in Names : OnSql(test) \in Seq(Harmless)
    /\ \A security \in Securities : \A remove, test \in Names :
           OnKafka(security, remove, test) \in Seq(Harmless)
    /\ SharedKafkaTest \in Seq(Harmless)
    /\ ConvertersTestCase \in Seq(Harmless)
    /\ debeziumCleanup \in Seq(Harmless)
<1>1. ASSUME NEW deploy \in Seq(Harmless), NEW remove \in Names, NEW test \in Names
      PROVE  executeTestOnStorage(deploy, remove, test) \in Seq(Harmless)
    <2>1. /\ Register(remove) \in Seq(Harmless) /\ Calling(test) \in Seq(Harmless)
          /\ Deferring("SaveLogsAndExecuteTestCleanups") \in Seq(Harmless)
        <3>1. "SaveLogsAndExecuteTestCleanups" \in Names BY DEF Names
        <3> QED BY <3>1, HarmlessPieces
    <2> QED BY <2>1, HarmlessConcat DEF executeTestOnStorage
<1>0. {"RemoveJpaRegistry", "test"} \subseteq Names BY DEF Names
<1>2. \A test \in Names : OnSql(test) \in Seq(Harmless)
    BY <1>0, <1>1, DeployHarmless DEF OnSql
<1>3. ASSUME NEW security \in Securities, NEW remove \in Names, NEW test \in Names
      PROVE  OnKafka(security, remove, test) \in Seq(Harmless)
    BY <1>0, <1>1, <1>3, DeployHarmless DEF OnKafka
<1>4. SharedKafkaTest \in Seq(Harmless)
    <2>1. /\ DeployKafkaCluster(SharedKafka, "") \in Seq(Harmless)
          /\ Deferring("RemoveSharedKafka") \in Seq(Harmless)
        BY KafkaHarmless, HarmlessPieces DEF Clusters, Securities, Names
    <2> QED BY <2>1, RegistryNameHarmless, HarmlessConcat DEF SharedKafkaTest
<1>5. debeziumCleanup \in Seq(Harmless)
    BY HarmlessPieces, HarmlessConcat, FreeNames DEF debeziumCleanup, Debezium
<1>6. ConvertersTestCase \in Seq(Harmless)
    <2>1. deployDebezium \in Seq(Harmless)
        <3>1. /\ Create("debezium") \in Seq(Harmless) /\ Create("debeziumService") \in Seq(Harmless)
              /\ Create("debeziumIngress") \in Seq(Harmless) /\ Await("debezium") \in Seq(Harmless)
              /\ Register("debeziumCleanup") \in Seq(Harmless)
            BY HarmlessPieces DEF Names
        <3> QED BY <3>1, HarmlessConcat DEF deployDebezium, Debezium
    <2>2. DeployKafkaCluster(DebeziumKafka, "") \in Seq(Harmless)
        BY KafkaHarmless DEF Clusters, Securities
    <2>3. /\ <<Step("registerIfDeployed", "strimziCleanup")>> \in Seq(Harmless)
          /\ Register("kafkaCleanup") \in Seq(Harmless) /\ Register("postgresCleanup") \in Seq(Harmless)
        BY HarmlessPieces, CallNames DEF Names
    <2>4. deployPostgresqlDatabase(DebeziumDb) \in Seq(Harmless) /\ Check \in Seq(Harmless)
        BY DatabaseHarmless, HarmlessPieces
    <2> QED BY <2>1, <2>2, <2>3, <2>4, RegistryNameHarmless, HarmlessConcat DEF ConvertersTestCase
<1> QED BY <1>2, <1>3, <1>4, <1>5, <1>6

LEMMA KeycloakHarmless ==
    /\ Testcase \in Seq(Harmless)
    /\ RemoveKeycloak \in Seq(Harmless)
    /\ \A deploy \in Seq(Harmless) : \A closure \in Names :
           runStorageSecurityTest(deploy, closure) \in Seq(Harmless)
<1>1. /\ Keycloak.group \in Free /\ Keycloak.sub \in Free /\ Keycloak.csv \in Free
      /\ Keycloak.server \in Free /\ Keycloak.svc \in Free /\ Keycloak.route \in Free
      /\ Keycloak.realm \in Free /\ Keycloak.pods \in Names /\ Keycloak.operator \in Names
      /\ Free \subseteq Names
    <2>1. Keycloak.pods \in Names /\ Keycloak.operator \in Names
        BY DEF Keycloak, Names
    <2>2. Free \subseteq Names BY DEF Free
    <2> QED BY <2>1, <2>2, FreeNames DEF Keycloak
<1>2. DeployKeycloak \in Seq(Harmless)
    <2>1. installKeycloakOperator \in Seq(Harmless)
        BY <1>1, HarmlessPieces, HarmlessConcat DEF installKeycloakOperator
    <2>2. /\ Apply(Keycloak.server) \in Seq(Harmless) /\ Await(Keycloak.pods) \in Seq(Harmless)
          /\ Create(Keycloak.svc) \in Seq(Harmless) /\ Create(Keycloak.route) \in Seq(Harmless)
          /\ Await(Keycloak.route) \in Seq(Harmless) /\ Apply(Keycloak.realm) \in Seq(Harmless)
        BY <1>1, HarmlessPieces
    <2> QED BY <2>1, <2>2, HarmlessConcat DEF DeployKeycloak
<1>3. Testcase \in Seq(Harmless)
    <2>1. /\ Deferring("RemoveKeycloak") \in Seq(Harmless) /\ Calling("securitySql") \in Seq(Harmless)
          /\ Calling("securityKafkasql") \in Seq(Harmless)
        BY HarmlessPieces DEF Names
    <2> QED BY <1>2, <2>1, HarmlessConcat DEF Testcase
<1>4. RemoveKeycloak \in Seq(Harmless)
    <2>1. /\ Step("deleteQuietly", Keycloak.sub) \in Harmless
          /\ Step("deleteQuietly", Keycloak.csv) \in Harmless
          /\ Step("deleteQuietly", Keycloak.group) \in Harmless
          /\ Step("awaitGone", Keycloak.operator) \in Harmless
          /\ Step("awaitGone", Keycloak.pods) \in Harmless
        BY <1>1, HarmlessStep, CallNames
    <2>2. removeKeycloakOperator \in Seq(Harmless)
        BY <2>1 DEF removeKeycloakOperator
    <2>3. <<Step("awaitGone", Keycloak.pods)>> \in Seq(Harmless)
        BY <2>1
    <2>4. /\ KubectlDelete(Keycloak.realm) \in Seq(Harmless)
          /\ KubectlDelete(Keycloak.server) \in Seq(Harmless)
          /\ Delete(Keycloak.svc) \in Seq(Harmless) /\ Delete(Keycloak.route) \in Seq(Harmless)
        BY <1>1, HarmlessPieces
    <2> QED BY <2>2, <2>3, <2>4, HarmlessConcat DEF RemoveKeycloak
<1>5. ASSUME NEW deploy \in Seq(Harmless), NEW closure \in Names
      PROVE  runStorageSecurityTest(deploy, closure) \in Seq(Harmless)
    BY RegistryNameHarmless, HarmlessPieces, HarmlessConcat DEF runStorageSecurityTest
<1> QED BY <1>3, <1>4, <1>5

----------------------------------------------------------------------------
(* The two removals of a registry with its storage. *)

LEMMA SparedSteps ==
    ASSUME NEW r \in TheRegistries
    PROVE  /\ \A op \in Calls : \A o \in Names : Step(op, o) \in Spared(r)
           /\ \A op \in Ops : \A o \in Names \ (Storage[r] \cup {"none"}) : Step(op, o) \in Spared(r)
BY DEF Step, Spared, Texts, Calls

\* DeleteRegistryAndWait ends with its registry gone; it takes no storage.
LEMMA DeletionClears ==
    ASSUME TheSuites,
           NEW reg \in {SqlRegistry, KafkaRegistry, First.registry, Second.registry}
    PROVE  /\ InOrder(DeleteRegistryAndWait(reg))
           /\ Cleared(DeleteRegistryAndWait(reg), reg.cr)
           /\ DeleteRegistryAndWait(reg) \in Seq(Harmless)
<1> DEFINE s == DeleteRegistryAndWait(reg)
<1>1. reg.cr \in Free /\ reg.cr \in Names /\ reg.dep \in Names
    BY DEF Free, AllStorage, Storage, TheRegistries, Names, SqlRegistry, KafkaRegistry, First, Second
<1>2. /\ Step("deleteRegistry", reg.cr) \in Harmless /\ Step("awaitGone", reg.cr) \in Harmless
      /\ Step("awaitGoneQuietly", reg.dep) \in Harmless
    BY <1>1, HarmlessStep, CallNames
<1>3. s \in Seq(Harmless)
    BY <1>2 DEF DeleteRegistryAndWait
<1>4. Len(s) = 3 /\ s[2] = Step("awaitGone", reg.cr) /\ s[3] = Step("awaitGoneQuietly", reg.dep)
    BY DEF DeleteRegistryAndWait
<1> HIDE DEF s
<1>5. Awaits(s[2], reg.cr) /\ ~MayMake(s[3], reg.cr)
    BY <1>4 DEF Awaits, MayMake, Step
<1>6. Cleared(s, reg.cr)
    BY <1>4, <1>5 DEF Cleared, Unmade
<1> QED BY <1>3, <1>6, HarmlessInOrder DEF s

\* A list of calls that make no registry and run no script.
Making == {"create", "apply", "attempt", "call", "cleanups"}
Passing == {x \in Texts : x.op \notin Making}

LEMMA PassingMakesNone ==
    ASSUME NEW s \in Seq(Passing), NEW r, NEW i \in 1 .. Len(s)
    PROVE  ~MayMake(s[i], r)
<1>1. s[i] \in Passing OBVIOUS
<1> QED BY <1>1 DEF Passing, Making, MayMake

LEMMA PassingStep ==
    \A op \in Ops \ Making : \A o \in Names : Step(op, o) \in Passing
BY DEF Step, Passing, Texts

LEMMA PassingConcat ==
    ASSUME NEW s \in Seq(Passing), NEW t \in Seq(Passing)
    PROVE  s \o t \in Seq(Passing)
BY ConcatProperties

\* The database of a registry, or its Kafka cluster, is removed after the registry.
LEMMA ClearedRemoval ==
    ASSUME TheSuites,
           NEW reg \in {SqlRegistry, KafkaRegistry, First.registry, Second.registry},
           NEW t \in Seq(Passing),
           \A r \in Registries \ {reg.cr} : t \in Seq(Spared(r))
    PROVE  InOrder(DeleteRegistryAndWait(reg) \o t)
<1> DEFINE s == DeleteRegistryAndWait(reg)
<1>1. InOrder(s) /\ Cleared(s, reg.cr)
    BY DeletionClears
<1> HIDE DEF s
<1>2. s \in Seq(Texts) /\ t \in Seq(Texts)
    <2>1. Passing \subseteq Texts BY DEF Passing
    <2> QED BY <1>1, <2>1, SeqMonotonic DEF InOrder
<1>3. s \o t \in Seq(Texts)
    BY <1>2, ConcatProperties
<1>4. ASSUME NEW r \in Registries PROVE Guarded(s \o t, r)
    <2>0. Guarded(s, r) BY <1>1 DEF InOrder
    <2>1. CASE r = reg.cr
        BY <1>1, <1>2, <2>0, <2>1, ClearedConcat, PassingMakesNone
    <2>2. CASE r # reg.cr
        <3>1. Guarded(t, r) BY <2>2, SparedGuarded
        <3> QED BY <1>2, <2>0, <3>1, GuardedConcat
    <2> QED BY <2>1, <2>2
<1> QED BY <1>3, <1>4 DEF InOrder, s

LEMMA SparedConcat ==
    ASSUME NEW r, NEW s \in Seq(Spared(r)), NEW t \in Seq(Spared(r))
    PROVE  s \o t \in Seq(Spared(r))
BY ConcatProperties

Sites == {<<SqlRegistry, SqlDb>>, <<First.registry, First.db>>, <<Second.registry, Second.db>>}

LEMMA RemoveJpaInOrder ==
    ASSUME TheSuites, NEW site \in Sites
    PROVE  InOrder(RemoveJpaRegistry(site[1], site[2]))
<1> DEFINE reg == site[1]
           db == site[2]
           t == RemovePostgresqlDatabase(db)
<1>1. /\ reg \in {SqlRegistry, KafkaRegistry, First.registry, Second.registry}
      /\ db.dep \in Names /\ db.pvc \in Names /\ db.svc \in Names
    BY DEF Sites, SqlRegistry, SqlDb, First, Second, Names
<1>2. \A r \in TheRegistries \ {reg.cr} :
          {db.dep, db.pvc, db.svc} \cap (Storage[r] \cup {"none"}) = {}
    BY DEF Sites, SqlRegistry, SqlDb, First, Second, Storage, TheRegistries
<1> HIDE DEF reg, db
<1>3. ASSUME NEW o \in Names
      PROVE  RemoveIfFound(o) \in Seq(Passing)
    <2>1. {"deleteIfFound", "awaitGone"} \subseteq Ops \ Making
        BY DEF Ops, ObjectOps, Making
    <2>2. Step("deleteIfFound", o) \in Passing /\ Step("awaitGone", o) \in Passing
        BY <2>1, PassingStep
    <2> QED BY <2>2 DEF RemoveIfFound
<1>4. ASSUME NEW r \in TheRegistries, NEW o \in Names \ (Storage[r] \cup {"none"})
      PROVE  RemoveIfFound(o) \in Seq(Spared(r))
    <2>1. Step("deleteIfFound", o) \in Spared(r) /\ Step("awaitGone", o) \in Spared(r)
        BY CallNames, SparedSteps
    <2> QED BY <2>1 DEF RemoveIfFound
<1>5. t \in Seq(Passing)
    BY <1>1, <1>3, PassingConcat DEF RemovePostgresqlDatabase
<1>6. ASSUME NEW r \in Registries \ {reg.cr} PROVE t \in Seq(Spared(r))
    <2>1. r \in TheRegistries \ {reg.cr} BY RegistryNames
    <2>2. /\ RemoveIfFound(db.dep) \in Seq(Spared(r)) /\ RemoveIfFound(db.pvc) \in Seq(Spared(r))
          /\ RemoveIfFound(db.svc) \in Seq(Spared(r))
        BY <1>1, <1>2, <1>4, <2>1
    <2> QED BY <2>2, SparedConcat DEF RemovePostgresqlDatabase
<1> HIDE DEF t
<1> QED BY <1>1, <1>5, <1>6, ClearedRemoval DEF RemoveJpaRegistry, t, reg, db

LEMMA RemoveKafkaInOrder ==
    ASSUME TheSuites, NEW security \in Securities
    PROVE  InOrder(RemoveKafkaSqlRegistry(security))
<1> DEFINE d == DeleteRegistryAndWait(KafkaRegistry)
           c == DeleteCertStores(security)
           k == RemoveKafkaCluster(StorageKafka, security)
           f == Deferring("removeBundleFile")
           b == RemoveStrimziOperator
           t == c \o k \o f \o b
<1>1. ASSUME NEW o \in Names
      PROVE  KubectlDelete(o) \in Seq(Passing) /\ <<Step("awaitGone", o)>> \in Seq(Passing)
    <2>1. {"delete", "finalize", "awaitGone"} \subseteq Ops \ Making
        BY DEF Ops, ObjectOps, Making
    <2>2. /\ Step("delete", o) \in Passing /\ Step("finalize", o) \in Passing
          /\ Step("awaitGone", o) \in Passing
        BY <2>1, PassingStep
    <2> QED BY <2>2 DEF KubectlDelete
<1>2. c \in Seq(Passing)
    <2>1. KubectlDelete("truststore") \in Seq(Passing) /\ KubectlDelete("keystore") \in Seq(Passing)
        BY <1>1 DEF Names
    <2>2. KubectlDelete("truststore") \o KubectlDelete("keystore") \in Seq(Passing)
        BY <2>1, PassingConcat
    <2>3. <<>> \in Seq(Passing) OBVIOUS
    <2> QED BY <2>1, <2>2, <2>3 DEF DeleteCertStores, Securities
<1>3. k \in Seq(Passing)
    <2>1. /\ KubectlDelete("storageKafka") \in Seq(Passing)
          /\ <<Step("awaitGone", "storageKafkaPods")>> \in Seq(Passing)
          /\ KubectlDelete("kafkaUser") \in Seq(Passing)
        BY <1>1 DEF Names
    <2>2. <<>> \in Seq(Passing) OBVIOUS
    <2>3. Secured(security, KubectlDelete("kafkaUser")) \in Seq(Passing)
        BY <2>1, <2>2 DEF Secured, Securities
    <2> QED BY <2>1, <2>3, PassingConcat DEF RemoveKafkaCluster, StorageKafka
<1>4. f \in Seq(Passing) /\ b \in Seq(Passing)
    <2>1. {"read", "defer"} \subseteq Ops \ Making
        BY DEF Ops, ObjectOps, ScriptOps, Making
    <2>2. {"removeBundleFile", "bundleFile", "strimzi"} \subseteq Names BY DEF Names
    <2>3. /\ Step("defer", "removeBundleFile") \in Passing
          /\ Step("read", "bundleFile") \in Passing
        BY <2>1, <2>2, PassingStep
    <2>4. f \in Seq(Passing) /\ <<Step("read", "bundleFile")>> \in Seq(Passing)
        BY <2>3 DEF Deferring
    <2> QED BY <1>1, <2>2, <2>4, PassingConcat DEF RemoveStrimziOperator
<1>5. ASSUME NEW r \in Registries \ {KafkaRegistry.cr}
      PROVE  /\ c \in Seq(Spared(r)) /\ k \in Seq(Spared(r))
             /\ f \in Seq(Spared(r)) /\ b \in Seq(Spared(r))
    <2>1. r \in TheRegistries \ {"kafkaRegistry"} BY RegistryNames DEF KafkaRegistry
    <2>2. c \in Seq(Spared(r)) /\ b \in Seq(Spared(r)) /\ f \in Seq(Spared(r))
        <3>1. f \in Seq(Harmless) BY HarmlessPieces DEF Names
        <3> QED BY <3>1, KafkaHarmless, HarmlessSpared
    <2>3. k \in Seq(Spared(r))
        <3>1. {"storageKafka", "storageKafkaPods", "kafkaUser"} \subseteq Names \ (Storage[r] \cup {"none"})
            BY <2>1 DEF Names, Storage, TheRegistries
        <3>2. ASSUME NEW o \in {"storageKafka", "storageKafkaPods", "kafkaUser"}
              PROVE  /\ KubectlDelete(o) \in Seq(Spared(r))
                     /\ <<Step("awaitGone", o)>> \in Seq(Spared(r))
            <4>1. /\ Step("delete", o) \in Spared(r) /\ Step("finalize", o) \in Spared(r)
                  /\ Step("awaitGone", o) \in Spared(r)
                BY <2>1, <3>1, CallNames, SparedSteps
            <4> QED BY <4>1 DEF KubectlDelete
        <3>3. <<>> \in Seq(Spared(r)) OBVIOUS
        <3>4. Secured(security, KubectlDelete("kafkaUser")) \in Seq(Spared(r))
            BY <3>2, <3>3 DEF Secured, Securities
        <3> QED BY <3>2, <3>4, SparedConcat DEF RemoveKafkaCluster, StorageKafka
    <2> QED BY <2>2, <2>3
<1>6. d \in Seq(Texts)
    BY DeletionClears DEF InOrder
<1> HIDE DEF c, k, f, b
<1>7. t \in Seq(Passing)
    BY <1>2, <1>3, <1>4, PassingConcat
<1>8. \A r \in Registries \ {KafkaRegistry.cr} : t \in Seq(Spared(r))
    BY <1>5, SparedConcat
<1>9. RemoveKafkaSqlRegistry(security) = d \o t
    <2>1. /\ c \in Seq(Texts) /\ k \in Seq(Texts) /\ f \in Seq(Texts) /\ b \in Seq(Texts)
        <3>1. Passing \subseteq Texts BY DEF Passing
        <3> QED BY <1>2, <1>3, <1>4, <3>1, SeqMonotonic
    <2>2. RemoveKafkaSqlRegistry(security) = (((d \o c) \o k) \o f) \o b
        BY DEF RemoveKafkaSqlRegistry, c, k, f, b
    <2> HIDE DEF d
    <2>3. /\ c \o k \in Seq(Texts) /\ (c \o k) \o f \in Seq(Texts)
        BY <2>1, ConcatProperties
    <2>4. (d \o c) \o k = d \o (c \o k) BY <1>6, <2>1
    <2>5. (d \o (c \o k)) \o f = d \o ((c \o k) \o f) BY <1>6, <2>1, <2>3
    <2>6. (d \o ((c \o k) \o f)) \o b = d \o (((c \o k) \o f) \o b) BY <1>6, <2>1, <2>3
    <2> QED BY <2>2, <2>4, <2>5, <2>6
<1> HIDE DEF t
<1> QED BY <1>7, <1>8, <1>9, ClearedRemoval

----------------------------------------------------------------------------
(* Every script of the two kinds of suites. *)

\* The closures of the security and of the multinamespace testcase.
LEMMA ClosuresInOrder ==
    ASSUME TheSuites
    PROVE  /\ InOrder(SaveLogsAndRemove(RemoveJpaRegistry(SqlRegistry, SqlDb)))
           /\ InOrder(SaveLogsAndRemove(RemoveKafkaSqlRegistry("")))
           /\ InOrder(multinamespaceCleanup)
<1>1. InOrder(SaveLogs)
    BY HarmlessPieces, HarmlessInOrder
<1>2. ASSUME NEW site \in Sites
      PROVE  InOrder(SaveLogsAndRemove(RemoveJpaRegistry(site[1], site[2])))
    BY <1>1, RemoveJpaInOrder, InOrderConcat DEF SaveLogsAndRemove
<1>3. /\ InOrder(SaveLogsAndRemove(RemoveJpaRegistry(SqlRegistry, SqlDb)))
      /\ InOrder(SaveLogsAndRemove(RemoveJpaRegistry(First.registry, First.db)))
      /\ InOrder(SaveLogsAndRemove(RemoveJpaRegistry(Second.registry, Second.db)))
    <2>1. /\ <<SqlRegistry, SqlDb>> \in Sites
          /\ <<First.registry, First.db>> \in Sites
          /\ <<Second.registry, Second.db>> \in Sites
        BY DEF Sites
    <2> QED BY <1>2, <2>1
<1>4. InOrder(SaveLogsAndRemove(RemoveKafkaSqlRegistry("")))
    <2>1. "" \in Securities BY DEF Securities
    <2> QED BY <1>1, <2>1, RemoveKafkaInOrder, InOrderConcat DEF SaveLogsAndRemove
<1>5. InOrder(Deferring("deleteFirst")) /\ InOrder(Deferring("deleteSecond"))
    <2>1. {"deleteFirst", "deleteSecond"} \subseteq Names BY DEF Names
    <2> QED BY <2>1, HarmlessPieces, HarmlessInOrder
<1>6. InOrder(multinamespaceCleanup)
    BY <1>3, <1>5, InOrderConcat DEF multinamespaceCleanup
<1> QED BY <1>3, <1>4, <1>6

LEMMA MultinamespaceHarmless ==
    /\ MultinamespacedTestCase \in Seq(Harmless)
    /\ DeleteTestNamespace(First.namespace) \in Seq(Harmless)
    /\ DeleteTestNamespace(Second.namespace) \in Seq(Harmless)
<1>1. First.namespace \in Free /\ Second.namespace \in Free
    BY FreeNames DEF First, Second
<1>2. Free \subseteq Names BY DEF Free
<1>3. /\ CreateTestNamespace(First.namespace) \in Seq(Harmless)
      /\ CreateTestNamespace(Second.namespace) \in Seq(Harmless)
    BY <1>1, <1>2, HarmlessPieces, HarmlessConcat DEF CreateTestNamespace
<1>4. Deferring("multinamespaceCleanup") \in Seq(Harmless)
    <2>1. "multinamespaceCleanup" \in Names BY DEF Names
    <2> QED BY <2>1, HarmlessPieces
<1>5. MultinamespacedTestCase \in Seq(Harmless)
    BY <1>3, <1>4, DeployHarmless, RegistryNameHarmless, HarmlessConcat
       DEF MultinamespacedTestCase
<1> QED BY <1>1, <1>5, HarmlessPieces DEF DeleteTestNamespace

LEMMA SharedScripts ==
    ASSUME TheSuites, NEW s \in DOMAIN SuiteBody
    PROVE  InOrder(SuiteBody[s])
<1>0. {"", "scram", "tls"} = Securities BY DEF Securities
<1>1. \A x \in Seq(Harmless) : InOrder(x)
    BY HarmlessInOrder
<1>2. /\ InOrder(OnSql("test")) /\ InOrder(OnSql("ConvertersTestCase"))
      /\ InOrder(OnSql("SharedKafkaTest"))
    <2>1. {"test", "ConvertersTestCase", "SharedKafkaTest"} \subseteq Names BY DEF Names
    <2> QED BY <1>1, <2>1, TestsHarmless
<1>3. /\ InOrder(OnKafka("", "RemoveKafkaSqlRegistry", "test"))
      /\ InOrder(OnKafka("", "RemoveKafkaSqlRegistry", "SharedKafkaTest"))
      /\ InOrder(OnKafka("scram", "RemoveScram", "test"))
      /\ InOrder(OnKafka("tls", "RemoveTls", "test"))
    <2>1. {"RemoveKafkaSqlRegistry", "RemoveScram", "RemoveTls", "test", "SharedKafkaTest"}
              \subseteq Names
        BY DEF Names
    <2> QED BY <1>0, <1>1, <2>1, TestsHarmless
<1>4. /\ InOrder(Testcase) /\ InOrder(RemoveKeycloak) /\ InOrder(BasicTest)
      /\ InOrder(SharedKafkaTest) /\ InOrder(ConvertersTestCase) /\ InOrder(debeziumCleanup)
      /\ InOrder(SaveLogsAndExecuteTestCleanups)
    BY <1>1, KeycloakHarmless, TestsHarmless, RegistryNameHarmless
<1>5. /\ InOrder(RemoveKafkaCluster(SharedKafka, ""))
      /\ InOrder(RemoveKafkaCluster(DebeziumKafka, ""))
      /\ InOrder(deployStrimziOperator) /\ InOrder(RemoveStrimziOperator)
      /\ InOrder(<<Step("erase", "bundleFile")>>)
      /\ InOrder(RemovePostgresqlDatabase(DebeziumDb))
    BY <1>1, KafkaHarmless, DatabaseHarmless
<1>6. /\ InOrder(RemoveJpaRegistry(SqlRegistry, SqlDb))
      /\ InOrder(RemoveKafkaSqlRegistry("")) /\ InOrder(RemoveKafkaSqlRegistry("scram"))
      /\ InOrder(RemoveKafkaSqlRegistry("tls"))
    <2>1. <<SqlRegistry, SqlDb>> \in Sites BY DEF Sites
    <2> QED BY <1>0, <2>1, RemoveJpaInOrder, RemoveKafkaInOrder
<1>7. /\ InOrder(runStorageSecurityTest(DeploySqlRegistry(SqlRegistry, SqlDb), "closureSql"))
      /\ InOrder(runStorageSecurityTest(DeployKafkaRegistry(""), "closureKafkasql"))
    <2>1. {"closureSql", "closureKafkasql"} \subseteq Names BY DEF Names
    <2> QED BY <1>0, <1>1, <2>1, DeployHarmless, KeycloakHarmless
<1>8. /\ InOrder(SaveLogsAndRemove(RemoveJpaRegistry(SqlRegistry, SqlDb)))
      /\ InOrder(SaveLogsAndRemove(RemoveKafkaSqlRegistry("")))
    BY ClosuresInOrder
<1>9. s \in {"storageSql", "clusteredSql", "storageKafkasql", "clusteredKafkasql", "scram",
           "tls", "convertersSql", "sqlSharedkafka", "kafkasqlSharedkafka",
           "clusteredSharedkafka", "keycloak", "test", "SharedKafkaTest",
           "RemoveSharedKafka", "ConvertersTestCase", "SaveLogsAndExecuteTestCleanups",
           "RemoveJpaRegistry", "RemoveKafkaSqlRegistry", "RemoveScram", "RemoveTls",
           "removeBundleFile", "deployStrimziOperator", "strimziCleanup", "kafkaCleanup",
           "postgresCleanup", "debeziumCleanup", "RemoveKeycloak", "securitySql",
           "securityKafkasql", "closureSql", "closureKafkasql"}
    BY DEF SuiteBody
<1>10. /\ InOrder(SuiteBody.storageSql) /\ InOrder(SuiteBody.clusteredSql)
       /\ InOrder(SuiteBody.convertersSql) /\ InOrder(SuiteBody.sqlSharedkafka)
    BY <1>2 DEF SuiteBody
<1>11. /\ InOrder(SuiteBody.storageKafkasql) /\ InOrder(SuiteBody.clusteredKafkasql)
       /\ InOrder(SuiteBody.scram) /\ InOrder(SuiteBody.tls)
       /\ InOrder(SuiteBody.kafkasqlSharedkafka) /\ InOrder(SuiteBody.clusteredSharedkafka)
    BY <1>3 DEF SuiteBody
<1>12. /\ InOrder(SuiteBody.keycloak) /\ InOrder(SuiteBody.RemoveKeycloak)
       /\ InOrder(SuiteBody.test) /\ InOrder(SuiteBody.SharedKafkaTest)
       /\ InOrder(SuiteBody.ConvertersTestCase) /\ InOrder(SuiteBody.debeziumCleanup)
       /\ InOrder(SuiteBody.SaveLogsAndExecuteTestCleanups)
    BY <1>4 DEF SuiteBody
<1>13. /\ InOrder(SuiteBody.RemoveSharedKafka) /\ InOrder(SuiteBody.kafkaCleanup)
       /\ InOrder(SuiteBody.deployStrimziOperator) /\ InOrder(SuiteBody.strimziCleanup)
       /\ InOrder(SuiteBody.removeBundleFile) /\ InOrder(SuiteBody.postgresCleanup)
    BY <1>5 DEF SuiteBody
<1>14. /\ InOrder(SuiteBody.RemoveJpaRegistry)
       /\ InOrder(SuiteBody.RemoveKafkaSqlRegistry) /\ InOrder(SuiteBody.RemoveScram)
       /\ InOrder(SuiteBody.RemoveTls)
    BY <1>6 DEF SuiteBody
<1>15. /\ InOrder(SuiteBody.securitySql) /\ InOrder(SuiteBody.securityKafkasql)
       /\ InOrder(SuiteBody.closureSql) /\ InOrder(SuiteBody.closureKafkasql)
    BY <1>7, <1>8 DEF SuiteBody
<1> QED BY <1>9, <1>10, <1>11, <1>12, <1>13, <1>14, <1>15

LEMMA MultinamespaceScripts ==
    ASSUME TheSuites, NEW s \in DOMAIN Multinamespace
    PROVE  InOrder(Multinamespace[s])
<1>1. /\ InOrder(MultinamespacedTestCase)
      /\ InOrder(DeleteTestNamespace(First.namespace))
      /\ InOrder(DeleteTestNamespace(Second.namespace))
    BY MultinamespaceHarmless, HarmlessInOrder
<1>2. InOrder(multinamespaceCleanup) BY ClosuresInOrder
<1>3. s \in {"multinamespace", "multinamespaceCleanup", "deleteFirst", "deleteSecond"}
    BY DEF Multinamespace
<1>4. /\ Multinamespace["multinamespace"] = MultinamespacedTestCase
      /\ Multinamespace["multinamespaceCleanup"] = multinamespaceCleanup
      /\ Multinamespace["deleteFirst"] = DeleteTestNamespace(First.namespace)
      /\ Multinamespace["deleteSecond"] = DeleteTestNamespace(Second.namespace)
    BY DEF Multinamespace
<1>5. QED BY <1>1, <1>2, <1>3, <1>4

LEMMA SuitesWaitForRegistries ==
    ASSUME TheSuites
    PROVE  WaitsForRegistries
<1>1. ASSUME NEW s \in Scripts PROVE InOrder(Body[s])
    <2>1. CASE SharedNamespace
        <3>1. s \in DOMAIN SuiteBody /\ Body[s] = SuiteBody[s] BY <2>1 DEF SharedNamespace
        <3> QED BY <3>1, SharedScripts
    <2>2. CASE OwnNamespaces
        <3>1. s \in DOMAIN Multinamespace /\ Body[s] = Multinamespace[s] BY <2>2 DEF OwnNamespaces
        <3> QED BY <3>1, MultinamespaceScripts
    <2> QED BY <2>1, <2>2 DEF TheSuites
<1> QED BY <1>1, RegistryNames DEF WaitsForRegistries, InOrder

\* Whichever specs a suite selects and whichever operations fail in them, no
\* deprovisioning takes a database or a Kafka cluster away from a registry that is
\* still there: DeleteRegistryAndWait (registry.go:168-199) returns once the resource is
\* gone, and panics when the wait times out, before RemoveJpaRegistry (postgresql.go:77-83)
\* and RemoveKafkaSqlRegistry (kafkasql.go:132-152) take what it stores its data in.
THEOREM SuitesKeepStorage ==
    ASSUME TheSuites
    PROVE  Spec => []StorageOutlivesRegistry
BY SuitesWaitForRegistries, StorageIsTakenLast

----------------------------------------------------------------------------
(* What a list of steps makes, calls and leaves to others.  The theorem of *)
(* GreenSuite_proofs asks this of every script; the lists are joined, so it *)
(* is enough to know it of their parts.                                     *)

Endings == Removals \cup {"awaitGone", "finalize"}
Watched == {"storageKafka", "debeziumKafka", "sharedKafka", "keycloakServer",
            "keycloakSubscription", "keycloakCsv"}
Oddities == {"cleanups", "newContext", "returnIfInstalled", "erase"}

\* The steps that a profile p allows.
Allowed(p) ==
    {x \in Texts : /\ x.op \in Makings => x.arg \in p.made
                   /\ x.op = "call" => x.arg \in p.calls
                   /\ x.op = "defer" => x.arg \in p.defers
                   /\ x.op \in {"register", "registerIfDeployed"} => x.arg \in p.keeps
                   /\ x.op \in Oddities => x.op \in p.odd
                   /\ x.op \in Endings /\ x.arg \in Watched => x.arg \in p.ends}

LEMMA AllowedConcat ==
    ASSUME NEW p, NEW s \in Seq(Allowed(p)), NEW t \in Seq(Allowed(p))
    PROVE  s \o t \in Seq(Allowed(p))
BY ConcatProperties

LEMMA OpNames ==
    /\ {"call", "defer", "register", "registerIfDeployed", "create", "apply", "attempt", "await",
        "awaitGone", "awaitGoneQuietly", "finalize", "read", "erase", "returnIfInstalled",
        "newContext", "name", "installed", "cleanups", "saveLogs", "check", "test", "delete",
        "deleteQuietly", "deleteIfFound", "deleteRegistry"} \subseteq Ops
    /\ "-" \in Names
BY DEF Ops, ObjectOps, ScriptOps, PlainOps, Names

LEMMA AllowedSteps ==
    ASSUME NEW p, NEW o \in Names
    PROVE  /\ \A op \in Makings : o \in p.made => Step(op, o) \in Allowed(p)
           /\ o \in p.calls => Step("call", o) \in Allowed(p)
           /\ o \in p.defers => Step("defer", o) \in Allowed(p)
           /\ \A op \in {"register", "registerIfDeployed"} :
                  o \in p.keeps => Step(op, o) \in Allowed(p)
           /\ \A op \in Oddities : op \in p.odd => Step(op, o) \in Allowed(p)
           /\ \A op \in Endings :
                  o \notin Watched \/ o \in p.ends => Step(op, o) \in Allowed(p)
           /\ \A op \in {"await", "awaitGoneQuietly", "read", "name", "installed", "check",
                       "saveLogs", "test"} :
                  Step(op, o) \in Allowed(p)
<1>1. \A op \in Ops : Step(op, o) \in Texts BY DEF Step, Texts
<1> QED
    BY <1>1, OpNames DEF Step, Allowed, Makings, Endings, Oddities, Removals

LEMMA AllowedPieces ==
    ASSUME NEW p, NEW o \in Names
    PROVE  /\ o \in p.made => Create(o) \in Seq(Allowed(p)) /\ Apply(o) \in Seq(Allowed(p))
           /\ o \in p.calls => Calling(o) \in Seq(Allowed(p))
           /\ o \in p.defers => Deferring(o) \in Seq(Allowed(p))
           /\ o \in p.keeps => Register(o) \in Seq(Allowed(p))
           /\ Await(o) \in Seq(Allowed(p))
           /\ o \notin Watched \/ o \in p.ends =>
                  /\ Delete(o) \in Seq(Allowed(p)) /\ KubectlDelete(o) \in Seq(Allowed(p))
                  /\ RemoveIfFound(o) \in Seq(Allowed(p))
           /\ \A op \in {"name", "installed", "check", "saveLogs", "test"} : Bare(op) \in Seq(Allowed(p))
           /\ \A op \in Oddities : op \in p.odd => Bare(op) \in Seq(Allowed(p))
           /\ Check \in Seq(Allowed(p)) /\ SaveLogs \in Seq(Allowed(p))
<1>1. "-" \in Names BY OpNames
<1>2. \A op \in {"name", "installed", "check", "saveLogs", "test"} : Bare(op) \in Seq(Allowed(p))
    BY <1>1, AllowedSteps DEF Bare
<1>3. \A op \in Oddities : op \in p.odd => Bare(op) \in Seq(Allowed(p))
    BY <1>1, AllowedSteps DEF Bare
<1>4. Check \in Seq(Allowed(p)) /\ SaveLogs \in Seq(Allowed(p))
    BY <1>2 DEF Check, SaveLogs
<1>5. /\ o \in p.made => Create(o) \in Seq(Allowed(p)) /\ Apply(o) \in Seq(Allowed(p))
      /\ o \in p.calls => Calling(o) \in Seq(Allowed(p))
      /\ o \in p.defers => Deferring(o) \in Seq(Allowed(p))
      /\ o \in p.keeps => Register(o) \in Seq(Allowed(p))
      /\ Await(o) \in Seq(Allowed(p))
    BY AllowedSteps DEF Create, Apply, Calling, Deferring, Register, Await, Makings
<1>6. ASSUME o \notin Watched \/ o \in p.ends
      PROVE  /\ Delete(o) \in Seq(Allowed(p)) /\ KubectlDelete(o) \in Seq(Allowed(p))
             /\ RemoveIfFound(o) \in Seq(Allowed(p))
    <2>1. {"delete", "finalize", "deleteIfFound", "awaitGone"} \subseteq Endings
        BY DEF Endings, Removals
    <2>2. /\ Step("delete", o) \in Allowed(p) /\ Step("finalize", o) \in Allowed(p)
          /\ Step("deleteIfFound", o) \in Allowed(p) /\ Step("awaitGone", o) \in Allowed(p)
        BY <1>6, <2>1, AllowedSteps
    <2> QED BY <2>2 DEF Delete, KubectlDelete, RemoveIfFound
<1> QED BY <1>2, <1>3, <1>4, <1>5, <1>6

Dbs == {SqlDb, DebeziumDb, First.db, Second.db}
Regs == {SqlRegistry, KafkaRegistry, First.registry, Second.registry}

LEMMA DatabaseAllowed ==
    ASSUME NEW p, NEW db \in Dbs
    PROVE  /\ {db.pvc, db.dep, db.svc} \subseteq p.made =>
                  deployPostgresqlDatabase(db) \in Seq(Allowed(p))
           /\ RemovePostgresqlDatabase(db) \in Seq(Allowed(p))
<1>1. /\ db.pvc \in Names /\ db.dep \in Names /\ db.svc \in Names
      /\ db.pvc \notin Watched /\ db.dep \notin Watched /\ db.svc \notin Watched
    BY DEF Names, Dbs, SqlDb, DebeziumDb, First, Second, Watched
<1>2. {db.pvc, db.dep, db.svc} \subseteq p.made =>
          deployPostgresqlDatabase(db) \in Seq(Allowed(p))
    BY <1>1, AllowedPieces, AllowedConcat DEF deployPostgresqlDatabase
<1>3. RemovePostgresqlDatabase(db) \in Seq(Allowed(p))
    BY <1>1, AllowedPieces, AllowedConcat DEF RemovePostgresqlDatabase
<1> QED BY <1>2, <1>3

LEMMA RegistryAllowed ==
    ASSUME NEW p, NEW reg \in Regs
    PROVE  /\ reg.cr \in p.made => CreateRegistryAndWait(reg) \in Seq(Allowed(p))
           /\ DeleteRegistryAndWait(reg) \in Seq(Allowed(p))
<1>1. reg.cr \in Names /\ reg.dep \in Names /\ reg.cr \notin Watched
    BY DEF Names, Regs, SqlRegistry, KafkaRegistry, First, Second, Watched
<1>2. reg.cr \in p.made => CreateRegistryAndWait(reg) \in Seq(Allowed(p))
    BY <1>1, AllowedPieces, AllowedConcat DEF CreateRegistryAndWait
<1>3. DeleteRegistryAndWait(reg) \in Seq(Allowed(p))
    <2>1. {"deleteRegistry", "awaitGone"} \subseteq Endings BY DEF Endings, Removals
    <2>2. /\ Step("deleteRegistry", reg.cr) \in Allowed(p) /\ Step("awaitGone", reg.cr) \in Allowed(p)
          /\ Step("awaitGoneQuietly", reg.dep) \in Allowed(p)
        BY <1>1, <2>1, AllowedSteps
    <2> QED BY <2>2 DEF DeleteRegistryAndWait
<1> QED BY <1>2, <1>3

LEMMA EmptyAllowed ==
    ASSUME NEW p
    PROVE  <<>> \in Seq(Allowed(p))
<1> DEFINE S == Allowed(p)
<1> HIDE DEF S
<1>1. <<>> \in Seq(S) OBVIOUS
<1> QED BY <1>1 DEF S

LEMMA SecuredAllowed ==
    ASSUME NEW p, NEW security, NEW s, security # "" => s \in Seq(Allowed(p))
    PROVE  Secured(security, s) \in Seq(Allowed(p))
<1>1. CASE security = ""
    <2>1. Secured(security, s) = <<>> BY <1>1 DEF Secured
    <2>2. <<>> \in Seq(Allowed(p)) BY EmptyAllowed
    <2> QED BY <2>1, <2>2
<1>2. CASE security # ""
    BY <1>2 DEF Secured
<1> QED BY <1>1, <1>2

LEMMA ClusterAllowed ==
    ASSUME NEW p, NEW kafka \in Clusters, NEW security \in Securities
    PROVE  /\ /\ kafka.cr \in p.made /\ "deployStrimziOperator" \in p.calls
              /\ security # "" => "kafkaUser" \in p.made
              => DeployKafkaCluster(kafka, security) \in Seq(Allowed(p))
           /\ kafka.cr \in p.ends => RemoveKafkaCluster(kafka, security) \in Seq(Allowed(p))
<1>1. /\ kafka.cr \in Names /\ kafka.pods \in Names /\ kafka.pods \notin Watched
      /\ "deployStrimziOperator" \in Names /\ "kafkaUser" \in Names /\ "kafkaUser" \notin Watched
    BY DEF Clusters, StorageKafka, DebeziumKafka, SharedKafka, Names, Watched
<1>2. ASSUME kafka.cr \in p.made, "deployStrimziOperator" \in p.calls,
             security # "" => "kafkaUser" \in p.made
      PROVE  DeployKafkaCluster(kafka, security) \in Seq(Allowed(p))
    <2>1. Secured(security, Apply("kafkaUser")) \in Seq(Allowed(p))
        BY <1>1, <1>2, AllowedPieces, SecuredAllowed
    <2> QED BY <1>1, <1>2, <2>1, AllowedPieces, AllowedConcat DEF DeployKafkaCluster
<1>3. ASSUME kafka.cr \in p.ends
      PROVE  RemoveKafkaCluster(kafka, security) \in Seq(Allowed(p))
    <2>1. Secured(security, KubectlDelete("kafkaUser")) \in Seq(Allowed(p))
        BY <1>1, AllowedPieces, SecuredAllowed
    <2>2. "awaitGone" \in Endings BY DEF Endings
    <2>3. <<Step("awaitGone", kafka.pods)>> \in Seq(Allowed(p))
        BY <1>1, <2>2, AllowedSteps
    <2> QED BY <1>1, <1>3, <2>1, <2>3, AllowedPieces, AllowedConcat DEF RemoveKafkaCluster
<1> QED BY <1>2, <1>3

LEMMA StrimziAllowed ==
    ASSUME NEW p
    PROVE  /\ "returnIfInstalled" \in p.odd /\ {"strimzi", "bundleFile"} \subseteq p.made
              => deployStrimziOperator \in Seq(Allowed(p))
           /\ RemoveStrimziOperator \in Seq(Allowed(p))
           /\ "erase" \in p.odd => <<Step("erase", "bundleFile")>> \in Seq(Allowed(p))
<1>1. {"strimzi", "bundleFile"} \subseteq Names \ Watched
    BY DEF Names, Watched
<1>2. /\ Step("deleteQuietly", "strimzi") \in Allowed(p) /\ Step("finalize", "strimzi") \in Allowed(p)
      /\ Step("read", "bundleFile") \in Allowed(p)
    <2>1. {"deleteQuietly", "finalize"} \subseteq Endings BY DEF Endings, Removals
    <2> QED BY <1>1, <2>1, AllowedSteps
<1>3. ASSUME "returnIfInstalled" \in p.odd, {"strimzi", "bundleFile"} \subseteq p.made
      PROVE  deployStrimziOperator \in Seq(Allowed(p))
    <2>1. "returnIfInstalled" \in Oddities BY DEF Oddities
    <2>2. <<Step("returnIfInstalled", "strimzi")>> \in Seq(Allowed(p))
        BY <1>1, <1>3, <2>1, AllowedSteps
    <2>3. <<Step("deleteQuietly", "strimzi"), Step("finalize", "strimzi")>> \in Seq(Allowed(p))
        BY <1>2
    <2> QED BY <1>1, <1>3, <2>2, <2>3, AllowedPieces, AllowedConcat DEF deployStrimziOperator
<1>4. RemoveStrimziOperator \in Seq(Allowed(p))
    <2>1. <<Step("read", "bundleFile")>> \in Seq(Allowed(p)) BY <1>2
    <2> QED BY <1>1, <2>1, AllowedPieces, AllowedConcat DEF RemoveStrimziOperator
<1>5. "erase" \in p.odd => <<Step("erase", "bundleFile")>> \in Seq(Allowed(p))
    <2>1. "erase" \in Oddities BY DEF Oddities
    <2> QED BY <1>1, <2>1, AllowedSteps
<1> QED BY <1>3, <1>4, <1>5

LEMMA StoresAllowed ==
    ASSUME NEW p, NEW security \in Securities
    PROVE  /\ /\ security # "" => "truststore" \in p.made
              /\ security = "tls" => "keystore" \in p.made
              => CreateCertStores(security) \in Seq(Allowed(p))
           /\ DeleteCertStores(security) \in Seq(Allowed(p))
<1>1. {"truststore", "keystore"} \subseteq Names \ Watched
    BY DEF Names, Watched
<1>2. <<>> \in Seq(Allowed(p)) BY EmptyAllowed
<1>3. ASSUME security # "" => "truststore" \in p.made, security = "tls" => "keystore" \in p.made
      PROVE  CreateCertStores(security) \in Seq(Allowed(p))
    <2>1. ASSUME security # "" PROVE <<Step("attempt", "truststore")>> \in Seq(Allowed(p))
        <3>1. "attempt" \in Makings BY DEF Makings
        <3>2. Step("attempt", "truststore") \in Allowed(p)
            BY <1>1, <1>3, <2>1, <3>1, AllowedSteps
        <3> QED BY <3>2
    <2>2. security = "tls" => Create("keystore") \in Seq(Allowed(p))
        BY <1>1, <1>3, AllowedPieces
    <2> QED BY <1>2, <2>1, <2>2, AllowedConcat DEF CreateCertStores, Securities
<1>4. DeleteCertStores(security) \in Seq(Allowed(p))
    <2>1. /\ KubectlDelete("truststore") \in Seq(Allowed(p))
          /\ KubectlDelete("keystore") \in Seq(Allowed(p))
        BY <1>1, AllowedPieces
    <2> QED BY <1>2, <2>1, AllowedConcat DEF DeleteCertStores, Securities
<1> QED BY <1>3, <1>4

LEMMA RemovalAllowed ==
    ASSUME NEW p
    PROVE  /\ \A reg \in Regs : \A db \in Dbs : RemoveJpaRegistry(reg, db) \in Seq(Allowed(p))
           /\ "removeBundleFile" \in p.defers /\ "storageKafka" \in p.ends =>
                  \A security \in Securities : RemoveKafkaSqlRegistry(security) \in Seq(Allowed(p))
<1>1. \A reg \in Regs : \A db \in Dbs : RemoveJpaRegistry(reg, db) \in Seq(Allowed(p))
    BY RegistryAllowed, DatabaseAllowed, AllowedConcat DEF RemoveJpaRegistry
<1>2. ASSUME "removeBundleFile" \in p.defers, "storageKafka" \in p.ends, NEW security \in Securities
      PROVE  RemoveKafkaSqlRegistry(security) \in Seq(Allowed(p))
    <2>1. KafkaRegistry \in Regs /\ StorageKafka \in Clusters /\ StorageKafka.cr = "storageKafka"
        BY DEF Regs, Clusters, StorageKafka
    <2>2. Deferring("removeBundleFile") \in Seq(Allowed(p))
        BY <1>2, AllowedPieces DEF Names
    <2>3. DeleteRegistryAndWait(KafkaRegistry) \in Seq(Allowed(p))
        BY <2>1, RegistryAllowed
    <2>4. /\ DeleteCertStores(security) \in Seq(Allowed(p))
          /\ RemoveKafkaCluster(StorageKafka, security) \in Seq(Allowed(p))
          /\ RemoveStrimziOperator \in Seq(Allowed(p))
        BY <1>2, <2>1, StoresAllowed, ClusterAllowed, StrimziAllowed
    <2> QED BY <2>2, <2>3, <2>4, AllowedConcat DEF RemoveKafkaSqlRegistry
<1> QED BY <1>1, <1>2

LEMMA DeployAllowed ==
    ASSUME NEW p
    PROVE  /\ \A reg \in Regs : \A db \in Dbs :
                  {db.pvc, db.dep, db.svc, reg.cr} \subseteq p.made =>
                      DeploySqlRegistry(reg, db) \in Seq(Allowed(p))
           /\ \A security \in Securities :
                  /\ {"storageKafka", "kafkaRegistry"} \subseteq p.made
                  /\ "deployStrimziOperator" \in p.calls
                  /\ security # "" => {"kafkaUser", "truststore"} \subseteq p.made
                  /\ security = "tls" => "keystore" \in p.made
                  => DeployKafkaRegistry(security) \in Seq(Allowed(p))
<1>1. ASSUME NEW reg \in Regs, NEW db \in Dbs, {db.pvc, db.dep, db.svc, reg.cr} \subseteq p.made
      PROVE  DeploySqlRegistry(reg, db) \in Seq(Allowed(p))
    <2>1. Bare("name") \in Seq(Allowed(p)) BY OpNames, AllowedPieces
    <2>2. deployPostgresqlDatabase(db) \in Seq(Allowed(p)) BY <1>1, DatabaseAllowed
    <2>3. CreateRegistryAndWait(reg) \in Seq(Allowed(p)) BY <1>1, RegistryAllowed
    <2> QED BY <2>1, <2>2, <2>3, AllowedConcat DEF DeploySqlRegistry
<1>2. ASSUME NEW security \in Securities, {"storageKafka", "kafkaRegistry"} \subseteq p.made,
             "deployStrimziOperator" \in p.calls,
             security # "" => {"kafkaUser", "truststore"} \subseteq p.made,
             security = "tls" => "keystore" \in p.made
      PROVE  DeployKafkaRegistry(security) \in Seq(Allowed(p))
    <2>1. /\ KafkaRegistry \in Regs /\ StorageKafka \in Clusters
          /\ StorageKafka.cr = "storageKafka" /\ KafkaRegistry.cr = "kafkaRegistry"
        BY DEF Regs, Clusters, StorageKafka, KafkaRegistry
    <2>2. DeployKafkaCluster(StorageKafka, security) \in Seq(Allowed(p))
        BY <1>2, <2>1, ClusterAllowed
    <2>3. CreateCertStores(security) \in Seq(Allowed(p))
        BY <1>2, StoresAllowed
    <2>4. CreateRegistryAndWait(KafkaRegistry) \in Seq(Allowed(p))
        BY <1>2, <2>1, RegistryAllowed
    <2> QED BY <2>2, <2>3, <2>4, AllowedConcat DEF DeployKafkaRegistry
<1> QED BY <1>1, <1>2

LEMMA TestsAllowed ==
    ASSUME NEW p
    PROVE  /\ \A deploy \in Seq(Allowed(p)) : \A remove \in Names : \A test \in Names :
                  /\ remove \in p.keeps /\ test \in p.calls
                  /\ "SaveLogsAndExecuteTestCleanups" \in p.defers
                  => executeTestOnStorage(deploy, remove, test) \in Seq(Allowed(p))
           /\ BasicTest \in Seq(Allowed(p))
           /\ "cleanups" \in p.odd => SaveLogsAndExecuteTestCleanups \in Seq(Allowed(p))
           /\ \A remove \in Seq(Allowed(p)) : SaveLogsAndRemove(remove) \in Seq(Allowed(p))
           /\ \A deploy \in Seq(Allowed(p)) : \A closure \in Names :
                  "newContext" \in p.odd /\ closure \in p.defers
                  => runStorageSecurityTest(deploy, closure) \in Seq(Allowed(p))
<1>0. "-" \in Names BY OpNames
<1>1. ASSUME NEW deploy \in Seq(Allowed(p)), NEW remove \in Names, NEW test \in Names,
             remove \in p.keeps, test \in p.calls,
             "SaveLogsAndExecuteTestCleanups" \in p.defers
      PROVE  executeTestOnStorage(deploy, remove, test) \in Seq(Allowed(p))
    <2>1. "SaveLogsAndExecuteTestCleanups" \in Names BY DEF Names
    <2>2. /\ Register(remove) \in Seq(Allowed(p)) /\ Calling(test) \in Seq(Allowed(p))
          /\ Deferring("SaveLogsAndExecuteTestCleanups") \in Seq(Allowed(p))
        BY <1>1, <2>1, AllowedPieces
    <2> QED BY <2>2, AllowedConcat DEF executeTestOnStorage
<1>2. Bare("test") \in Seq(Allowed(p)) /\ SaveLogs \in Seq(Allowed(p))
    BY <1>0, AllowedPieces
<1>3. \A op \in Oddities : op \in p.odd => Bare(op) \in Seq(Allowed(p))
    BY <1>0, AllowedPieces
<1>4. "cleanups" \in p.odd => SaveLogsAndExecuteTestCleanups \in Seq(Allowed(p))
    <2>1. "cleanups" \in Oddities BY DEF Oddities
    <2> QED BY <1>2, <1>3, <2>1, AllowedConcat DEF SaveLogsAndExecuteTestCleanups
<1>5. ASSUME NEW deploy \in Seq(Allowed(p)), NEW closure \in Names,
             "newContext" \in p.odd, closure \in p.defers
      PROVE  runStorageSecurityTest(deploy, closure) \in Seq(Allowed(p))
    <2>1. "newContext" \in Oddities BY DEF Oddities
    <2>2. Bare("newContext") \in Seq(Allowed(p)) /\ Deferring(closure) \in Seq(Allowed(p))
        BY <1>3, <1>5, <2>1, AllowedPieces
    <2> QED BY <1>2, <2>2, AllowedConcat DEF runStorageSecurityTest
<1>6. BasicTest \in Seq(Allowed(p))
    BY <1>2 DEF BasicTest
<1>7. \A remove \in Seq(Allowed(p)) : SaveLogsAndRemove(remove) \in Seq(Allowed(p))
    BY <1>2, AllowedConcat DEF SaveLogsAndRemove
<1> QED BY <1>1, <1>4, <1>5, <1>6, <1>7

ConvertersMade ==
    {"debeziumKafka", "debeziumPvc", "debeziumDatabase", "debeziumDbService", "debezium",
     "debeziumService", "debeziumIngress"}

LEMMA ConvertersAllowed ==
    ASSUME NEW p
    PROVE  /\ /\ ConvertersMade \subseteq p.made /\ "deployStrimziOperator" \in p.calls
              /\ {"strimziCleanup", "kafkaCleanup", "postgresCleanup", "debeziumCleanup"} \subseteq p.keeps
              => ConvertersTestCase \in Seq(Allowed(p))
           /\ debeziumCleanup \in Seq(Allowed(p))
           /\ /\ "sharedKafka" \in p.made /\ "deployStrimziOperator" \in p.calls
              /\ "RemoveSharedKafka" \in p.defers
              => SharedKafkaTest \in Seq(Allowed(p))
<1>0. "" \in Securities /\ DebeziumKafka \in Clusters /\ SharedKafka \in Clusters /\ DebeziumDb \in Dbs
    BY DEF Securities, Clusters, Dbs
<1>1. ASSUME ConvertersMade \subseteq p.made, "deployStrimziOperator" \in p.calls,
             {"strimziCleanup", "kafkaCleanup", "postgresCleanup", "debeziumCleanup"} \subseteq p.keeps
      PROVE  ConvertersTestCase \in Seq(Allowed(p))
    <2>1. deployDebezium \in Seq(Allowed(p))
        <3>1. /\ Create("debezium") \in Seq(Allowed(p)) /\ Create("debeziumService") \in Seq(Allowed(p))
              /\ Create("debeziumIngress") \in Seq(Allowed(p)) /\ Await("debezium") \in Seq(Allowed(p))
              /\ Register("debeziumCleanup") \in Seq(Allowed(p))
            BY <1>1, AllowedPieces DEF Names, ConvertersMade
        <3> QED BY <3>1, AllowedConcat DEF deployDebezium, Debezium
    <2>2. DeployKafkaCluster(DebeziumKafka, "") \in Seq(Allowed(p))
        BY <1>0, <1>1, ClusterAllowed DEF DebeziumKafka, ConvertersMade
    <2>3. <<Step("registerIfDeployed", "strimziCleanup")>> \in Seq(Allowed(p))
        <3>1. Step("registerIfDeployed", "strimziCleanup") \in Allowed(p)
            BY <1>1, AllowedSteps DEF Names
        <3> QED BY <3>1
    <2>4. Register("kafkaCleanup") \in Seq(Allowed(p)) /\ Register("postgresCleanup") \in Seq(Allowed(p))
        BY <1>1, AllowedPieces DEF Names
    <2>5. deployPostgresqlDatabase(DebeziumDb) \in Seq(Allowed(p))
        BY <1>0, <1>1, DatabaseAllowed DEF DebeziumDb, ConvertersMade
    <2>6. Check \in Seq(Allowed(p)) /\ Bare("test") \in Seq(Allowed(p))
        BY OpNames, AllowedPieces
    <2> QED BY <2>1, <2>2, <2>3, <2>4, <2>5, <2>6, AllowedConcat DEF ConvertersTestCase
<1>2. debeziumCleanup \in Seq(Allowed(p))
    <2>1. \A o \in {"debezium", "debeziumService", "debeziumIngress"} : Delete(o) \in Seq(Allowed(p))
        BY AllowedPieces DEF Names, Watched
    <2> QED BY <2>1, AllowedConcat DEF debeziumCleanup, Debezium
<1>3. ASSUME "sharedKafka" \in p.made, "deployStrimziOperator" \in p.calls,
             "RemoveSharedKafka" \in p.defers
      PROVE  SharedKafkaTest \in Seq(Allowed(p))
    <2>1. DeployKafkaCluster(SharedKafka, "") \in Seq(Allowed(p))
        BY <1>0, <1>3, ClusterAllowed DEF SharedKafka
    <2>2. Deferring("RemoveSharedKafka") \in Seq(Allowed(p)) /\ Bare("test") \in Seq(Allowed(p))
        BY <1>3, AllowedPieces DEF Names
    <2> QED BY <2>1, <2>2, AllowedConcat DEF SharedKafkaTest
<1> QED BY <1>1, <1>2, <1>3

KeycloakMade ==
    {"keycloakGroup", "keycloakSubscription", "keycloakServer", "keycloakService",
     "keycloakRoute", "keycloakRealm"}

LEMMA KeycloakAllowed ==
    ASSUME NEW p
    PROVE  /\ /\ KeycloakMade \subseteq p.made /\ "RemoveKeycloak" \in p.defers
              /\ {"securitySql", "securityKafkasql"} \subseteq p.calls
              => Testcase \in Seq(Allowed(p))
           /\ {"keycloakServer", "keycloakSubscription", "keycloakCsv"} \subseteq p.ends
              => RemoveKeycloak \in Seq(Allowed(p))
<1>1. ASSUME KeycloakMade \subseteq p.made, "RemoveKeycloak" \in p.defers,
             {"securitySql", "securityKafkasql"} \subseteq p.calls
      PROVE  Testcase \in Seq(Allowed(p))
    <2>1. /\ Create("keycloakGroup") \in Seq(Allowed(p)) /\ Create("keycloakSubscription") \in Seq(Allowed(p))
          /\ Await("keycloakOperator") \in Seq(Allowed(p)) /\ Apply("keycloakServer") \in Seq(Allowed(p))
          /\ Await("keycloakPods") \in Seq(Allowed(p)) /\ Create("keycloakService") \in Seq(Allowed(p))
          /\ Create("keycloakRoute") \in Seq(Allowed(p)) /\ Await("keycloakRoute") \in Seq(Allowed(p))
          /\ Apply("keycloakRealm") \in Seq(Allowed(p))
        <3>1. KeycloakMade \cup {"keycloakOperator", "keycloakPods"} \subseteq Names
            BY DEF KeycloakMade, Names
        <3>2. /\ \A o \in KeycloakMade : Create(o) \in Seq(Allowed(p)) /\ Apply(o) \in Seq(Allowed(p))
              /\ \A o \in KeycloakMade \cup {"keycloakOperator", "keycloakPods"} :
                     Await(o) \in Seq(Allowed(p))
            BY <1>1, <3>1, AllowedPieces
        <3> QED BY <3>2 DEF KeycloakMade
    <2>2. /\ Deferring("RemoveKeycloak") \in Seq(Allowed(p)) /\ Calling("securitySql") \in Seq(Allowed(p))
          /\ Calling("securityKafkasql") \in Seq(Allowed(p))
        BY <1>1, AllowedPieces DEF Names
    <2>3. installKeycloakOperator \in Seq(Allowed(p))
        BY <2>1, AllowedConcat DEF installKeycloakOperator, Keycloak
    <2>4. DeployKeycloak \in Seq(Allowed(p))
        BY <2>1, <2>3, AllowedConcat DEF DeployKeycloak, Keycloak
    <2> QED BY <2>2, <2>4, AllowedConcat DEF Testcase
<1>2. ASSUME {"keycloakServer", "keycloakSubscription", "keycloakCsv"} \subseteq p.ends
      PROVE  RemoveKeycloak \in Seq(Allowed(p))
    <2>1. /\ KubectlDelete("keycloakRealm") \in Seq(Allowed(p)) /\ KubectlDelete("keycloakServer") \in Seq(Allowed(p))
          /\ Delete("keycloakService") \in Seq(Allowed(p)) /\ Delete("keycloakRoute") \in Seq(Allowed(p))
        BY <1>2, AllowedPieces DEF Names, Watched
    <2>2. {"deleteQuietly", "awaitGone"} \subseteq Endings BY DEF Endings, Removals
    <2>3. /\ Step("deleteQuietly", "keycloakSubscription") \in Allowed(p)
          /\ Step("deleteQuietly", "keycloakCsv") \in Allowed(p)
          /\ Step("deleteQuietly", "keycloakGroup") \in Allowed(p)
          /\ Step("awaitGone", "keycloakOperator") \in Allowed(p)
          /\ Step("awaitGone", "keycloakPods") \in Allowed(p)
        BY <1>2, <2>2, AllowedSteps DEF Names, Watched
    <2>4. removeKeycloakOperator \in Seq(Allowed(p))
        BY <2>3 DEF removeKeycloakOperator, Keycloak
    <2>5. <<Step("awaitGone", "keycloakPods")>> \in Seq(Allowed(p)) BY <2>3
    <2> QED BY <2>1, <2>4, <2>5, AllowedConcat DEF RemoveKeycloak, Keycloak
<1> QED BY <1>1, <1>2

MultinamespaceMade == MultinamespaceObjects \ {"firstDeployment", "secondDeployment"}

LEMMA MultinamespaceAllowed ==
    ASSUME NEW p
    PROVE  /\ MultinamespaceMade \subseteq p.made /\ "multinamespaceCleanup" \in p.defers
              => MultinamespacedTestCase \in Seq(Allowed(p))
           /\ {"deleteFirst", "deleteSecond"} \subseteq p.defers
              => multinamespaceCleanup \in Seq(Allowed(p))
           /\ \A o \in {"firstNamespace", "secondNamespace"} : DeleteTestNamespace(o) \in Seq(Allowed(p))
<1>0. /\ First.db \in Dbs /\ Second.db \in Dbs /\ First.registry \in Regs /\ Second.registry \in Regs
      /\ First.namespace = "firstNamespace" /\ Second.namespace = "secondNamespace"
    BY DEF Dbs, Regs, First, Second
<1>1. ASSUME MultinamespaceMade \subseteq p.made, "multinamespaceCleanup" \in p.defers
      PROVE  MultinamespacedTestCase \in Seq(Allowed(p))
    <2>1. /\ {First.db.pvc, First.db.dep, First.db.svc, First.registry.cr} \subseteq p.made
          /\ {Second.db.pvc, Second.db.dep, Second.db.svc, Second.registry.cr} \subseteq p.made
          /\ {"firstNamespace", "secondNamespace"} \subseteq p.made
        BY <1>1 DEF First, Second, MultinamespaceMade, MultinamespaceObjects, LivesIn
    <2>2. /\ DeploySqlRegistry(First.registry, First.db) \in Seq(Allowed(p))
          /\ DeploySqlRegistry(Second.registry, Second.db) \in Seq(Allowed(p))
        BY <1>0, <2>1, DeployAllowed
    <2>3. /\ Create("firstNamespace") \in Seq(Allowed(p)) /\ Create("secondNamespace") \in Seq(Allowed(p))
          /\ Deferring("multinamespaceCleanup") \in Seq(Allowed(p)) /\ Check \in Seq(Allowed(p))
        BY <1>1, <2>1, AllowedPieces DEF Names
    <2>4. /\ CreateTestNamespace(First.namespace) \in Seq(Allowed(p))
          /\ CreateTestNamespace(Second.namespace) \in Seq(Allowed(p))
        BY <1>0, <2>3, AllowedConcat DEF CreateTestNamespace
    <2>5. BasicTest \in Seq(Allowed(p)) BY TestsAllowed
    <2> QED BY <2>2, <2>3, <2>4, <2>5, AllowedConcat DEF MultinamespacedTestCase
<1>2. ASSUME {"deleteFirst", "deleteSecond"} \subseteq p.defers
      PROVE  multinamespaceCleanup \in Seq(Allowed(p))
    <2>1. Deferring("deleteFirst") \in Seq(Allowed(p)) /\ Deferring("deleteSecond") \in Seq(Allowed(p))
        BY <1>2, AllowedPieces DEF Names
    <2>2. /\ RemoveJpaRegistry(First.registry, First.db) \in Seq(Allowed(p))
          /\ RemoveJpaRegistry(Second.registry, Second.db) \in Seq(Allowed(p))
        BY <1>0, RemovalAllowed
    <2>3. /\ SaveLogsAndRemove(RemoveJpaRegistry(First.registry, First.db)) \in Seq(Allowed(p))
          /\ SaveLogsAndRemove(RemoveJpaRegistry(Second.registry, Second.db)) \in Seq(Allowed(p))
        BY <2>2, TestsAllowed
    <2> QED BY <2>1, <2>3, AllowedConcat DEF multinamespaceCleanup
<1>3. \A o \in {"firstNamespace", "secondNamespace"} : DeleteTestNamespace(o) \in Seq(Allowed(p))
    BY AllowedPieces DEF DeleteTestNamespace, Names, Watched
<1> QED BY <1>1, <1>2, <1>3

----------------------------------------------------------------------------
(* The suites that share a namespace: what their scripts do. *)

SharedSpecs ==
    {"storageSql", "clusteredSql", "storageKafkasql", "clusteredKafkasql", "scram", "tls",
     "convertersSql", "keycloak"}
SharedClusterSpecs == {"sqlSharedkafka", "kafkasqlSharedkafka", "clusteredSharedkafka"}
Abandoned == SharedClusterSpecs \cup {"SharedKafkaTest"}

\* One namespace that no spec makes, and the specs but those of a shared Kafka cluster: their
\* test leaves Strimzi to whoever else removes it.
SharedSuite ==
    /\ SharedNamespace
    /\ Home = Total(LivesIn, SuiteObjects, "none")
    /\ Unawaited = {SqlRegistry.dep, KafkaRegistry.dep, "bundleFile"}
    /\ InUse = DOMAIN SuiteBody \ Abandoned
    /\ Specs \subseteq SharedSpecs

\* The scripts that remove, in the order of their making; and the scripts that make.
SqlRemovals == {"RemoveJpaRegistry", "closureSql"}
KafkaRemovals == {"RemoveKafkaSqlRegistry", "RemoveScram", "RemoveTls", "closureKafkasql"}
OtherRemovals ==
    {"RemoveSharedKafka", "strimziCleanup", "kafkaCleanup", "postgresCleanup", "debeziumCleanup",
     "RemoveKeycloak"}
Deprovisioning == SqlRemovals \cup KafkaRemovals \cup OtherRemovals
SqlSpecs == {"storageSql", "clusteredSql", "convertersSql", "sqlSharedkafka"}
KafkaSpecs ==
    {"storageKafkasql", "clusteredKafkasql", "scram", "tls", "kafkasqlSharedkafka",
     "clusteredSharedkafka"}

SqlMade == {"sqlPvc", "sqlDatabase", "sqlService", "sqlRegistry"}
SecurityOf == [storageKafkasql |-> "", clusteredKafkasql |-> "", scram |-> "scram", tls |-> "tls",
               kafkasqlSharedkafka |-> "", clusteredSharedkafka |-> "",
               securityKafkasql |-> "", RemoveKafkaSqlRegistry |-> "", RemoveScram |-> "scram",
               RemoveTls |-> "tls", closureKafkasql |-> ""]
KafkaMade(security) ==
    {"storageKafka", "kafkaRegistry"} \cup
        CASE security = "" -> {}
          [] security = "scram" -> {"kafkaUser", "truststore"}
          [] security = "tls" -> {"kafkaUser", "truststore", "keystore"}

Profile(made, calls, defers, keeps, odd, ends) ==
    [made |-> made, calls |-> calls, defers |-> defers, keeps |-> keeps, odd |-> odd, ends |-> ends]

LEMMA ProfileParts ==
    \A made, calls, defers, keeps, odd, ends :
        LET p == Profile(made, calls, defers, keeps, odd, ends)
        IN  /\ p.made = made /\ p.calls = calls /\ p.defers = defers /\ p.keeps = keeps
            /\ p.odd = odd /\ p.ends = ends
BY DEF Profile

\* The removals make and call nothing; `ends` says what they take from controllers.
LEMMA RemovalScripts ==
    ASSUME NEW ends,
           NEW s \in Deprovisioning \cup {"test", "removeBundleFile", "SaveLogsAndExecuteTestCleanups"},
           s \in KafkaRemovals => "storageKafka" \in ends,
           s = "kafkaCleanup" => "debeziumKafka" \in ends,
           s = "RemoveSharedKafka" => "sharedKafka" \in ends,
           s = "RemoveKeycloak" => {"keycloakServer", "keycloakSubscription", "keycloakCsv"} \subseteq ends
    PROVE  SuiteBody[s] \in
               Seq(Allowed(Profile({}, {}, {"removeBundleFile"}, {}, {"cleanups", "erase"}, ends)))
<1> DEFINE p == Profile({}, {}, {"removeBundleFile"}, {}, {"cleanups", "erase"}, ends)
<1>1. p.defers = {"removeBundleFile"} /\ p.odd = {"cleanups", "erase"} /\ p.ends = ends
    BY DEF Profile
<1> HIDE DEF p
<1>2. /\ SqlRegistry \in Regs /\ SqlDb \in Dbs /\ DebeziumDb \in Dbs
      /\ {"", "scram", "tls"} \subseteq Securities
      /\ DebeziumKafka \in Clusters /\ SharedKafka \in Clusters
      /\ DebeziumKafka.cr = "debeziumKafka" /\ SharedKafka.cr = "sharedKafka"
    BY DEF Regs, Dbs, Securities, Clusters, DebeziumKafka, SharedKafka
<1>3. RemoveJpaRegistry(SqlRegistry, SqlDb) \in Seq(Allowed(p))
    BY <1>2, RemovalAllowed
<1>4. CASE s \in SqlRemovals
    <2>1. SaveLogsAndRemove(RemoveJpaRegistry(SqlRegistry, SqlDb)) \in Seq(Allowed(p))
        BY <1>3, TestsAllowed
    <2>2. SuiteBody.RemoveJpaRegistry \in Seq(Allowed(p)) /\ SuiteBody.closureSql \in Seq(Allowed(p))
        BY <1>3, <2>1 DEF SuiteBody
    <2> QED BY <1>4, <2>2 DEF SqlRemovals, p
<1>5. CASE s \in KafkaRemovals
    <2>1. \A security \in Securities : RemoveKafkaSqlRegistry(security) \in Seq(Allowed(p))
        BY <1>1, <1>5, RemovalAllowed
    <2>2. SaveLogsAndRemove(RemoveKafkaSqlRegistry("")) \in Seq(Allowed(p))
        BY <1>2, <2>1, TestsAllowed
    <2>3. /\ SuiteBody.RemoveKafkaSqlRegistry \in Seq(Allowed(p))
          /\ SuiteBody.RemoveScram \in Seq(Allowed(p)) /\ SuiteBody.RemoveTls \in Seq(Allowed(p))
          /\ SuiteBody.closureKafkasql \in Seq(Allowed(p))
        BY <1>2, <2>1, <2>2 DEF SuiteBody
    <2> QED BY <1>5, <2>3 DEF KafkaRemovals, p
<1>6. CASE s = "kafkaCleanup"
    <2>1. RemoveKafkaCluster(DebeziumKafka, "") \in Seq(Allowed(p))
        BY <1>1, <1>2, <1>6, ClusterAllowed
    <2> QED BY <1>6, <2>1 DEF SuiteBody, p
<1>7. CASE s = "RemoveSharedKafka"
    <2>1. RemoveKafkaCluster(SharedKafka, "") \in Seq(Allowed(p))
        BY <1>1, <1>2, <1>7, ClusterAllowed
    <2> QED BY <1>7, <2>1 DEF SuiteBody, p
<1>8. CASE s = "RemoveKeycloak"
    <2>1. RemoveKeycloak \in Seq(Allowed(p))
        BY <1>1, <1>8, KeycloakAllowed
    <2> QED BY <1>8, <2>1 DEF SuiteBody, p
<1>9. CASE s \in {"strimziCleanup", "removeBundleFile", "postgresCleanup", "debeziumCleanup", "test",
                  "SaveLogsAndExecuteTestCleanups"}
    <2>1. /\ RemoveStrimziOperator \in Seq(Allowed(p))
          /\ <<Step("erase", "bundleFile")>> \in Seq(Allowed(p))
          /\ RemovePostgresqlDatabase(DebeziumDb) \in Seq(Allowed(p))
          /\ debeziumCleanup \in Seq(Allowed(p))
          /\ BasicTest \in Seq(Allowed(p))
          /\ SaveLogsAndExecuteTestCleanups \in Seq(Allowed(p))
        BY <1>1, <1>2, StrimziAllowed, DatabaseAllowed, ConvertersAllowed, TestsAllowed
    <2>2. /\ SuiteBody.strimziCleanup \in Seq(Allowed(p)) /\ SuiteBody.removeBundleFile \in Seq(Allowed(p))
          /\ SuiteBody.postgresCleanup \in Seq(Allowed(p)) /\ SuiteBody.debeziumCleanup \in Seq(Allowed(p))
          /\ SuiteBody.test \in Seq(Allowed(p))
          /\ SuiteBody.SaveLogsAndExecuteTestCleanups \in Seq(Allowed(p))
        BY <2>1 DEF SuiteBody
    <2> QED BY <1>9, <2>2 DEF p
<1> QED
    BY <1>4, <1>5, <1>6, <1>7, <1>8, <1>9
       DEF Deprovisioning, SqlRemovals, KafkaRemovals, OtherRemovals

\* What takes the storage of the registry of a spec on Kafka away.
RemoverOf == [storageKafkasql |-> "RemoveKafkaSqlRegistry", clusteredKafkasql |-> "RemoveKafkaSqlRegistry",
              kafkasqlSharedkafka |-> "RemoveKafkaSqlRegistry",
              clusteredSharedkafka |-> "RemoveKafkaSqlRegistry",
              scram |-> "RemoveScram", tls |-> "RemoveTls"]

SqlProfile(tests) ==
    Profile(SqlMade, tests, {"SaveLogsAndExecuteTestCleanups"}, {"RemoveJpaRegistry"}, {}, {})
TestsOf(s) ==
    IF s = "sqlSharedkafka" THEN {"SharedKafkaTest"} ELSE {"test", "ConvertersTestCase"}
KafkaTestOf(s) == IF s \in SharedClusterSpecs THEN "SharedKafkaTest" ELSE "test"
KafkaProfile(s) ==
    Profile(KafkaMade(SecurityOf[s]), {"deployStrimziOperator", KafkaTestOf(s)},
            {"SaveLogsAndExecuteTestCleanups"}, {RemoverOf[s]}, {}, {})
ConvertersProfile ==
    Profile(ConvertersMade, {"deployStrimziOperator"}, {},
            {"strimziCleanup", "kafkaCleanup", "postgresCleanup", "debeziumCleanup"}, {}, {})
KeycloakProfile ==
    Profile(KeycloakMade, {"securitySql", "securityKafkasql"}, {"RemoveKeycloak"}, {}, {}, {})
InstallProfile ==
    Profile({"strimzi", "bundleFile"}, {}, {}, {}, {"returnIfInstalled"}, {})
SharedKafkaProfile ==
    Profile({"sharedKafka"}, {"deployStrimziOperator"}, {"RemoveSharedKafka"}, {}, {}, {})
SecuritySqlProfile ==
    Profile(SqlMade, {}, {"closureSql"}, {}, {"newContext"}, {})
SecurityKafkaProfile ==
    Profile(KafkaMade(""), {"deployStrimziOperator"}, {"closureKafkasql"}, {}, {"newContext"}, {})

LEMMA SqlScripts ==
    /\ \A s \in SqlSpecs : SuiteBody[s] \in Seq(Allowed(SqlProfile(TestsOf(s))))
    /\ SuiteBody["securitySql"] \in Seq(Allowed(SecuritySqlProfile))
<1>0. /\ SqlRegistry \in Regs /\ SqlDb \in Dbs
      /\ {SqlDb.pvc, SqlDb.dep, SqlDb.svc, SqlRegistry.cr} \subseteq SqlMade
      /\ {"test", "ConvertersTestCase", "SharedKafkaTest", "RemoveJpaRegistry", "closureSql"} \subseteq Names
    BY DEF Regs, Dbs, SqlDb, SqlRegistry, SqlMade, Names
<1>1. ASSUME NEW tests, NEW test \in tests,
             test \in {"test", "ConvertersTestCase", "SharedKafkaTest"}
      PROVE  OnSql(test) \in Seq(Allowed(SqlProfile(tests)))
    <2> DEFINE p == SqlProfile(tests)
    <2>1. /\ p.made = SqlMade /\ test \in p.calls /\ "RemoveJpaRegistry" \in p.keeps
          /\ "SaveLogsAndExecuteTestCleanups" \in p.defers
        BY <1>1, ProfileParts DEF SqlProfile
    <2> HIDE DEF p
    <2>2. DeploySqlRegistry(SqlRegistry, SqlDb) \in Seq(Allowed(p))
        BY <1>0, <2>1, DeployAllowed
    <2>3. OnSql(test) \in Seq(Allowed(p))
        BY <1>0, <1>1, <2>1, <2>2, TestsAllowed DEF OnSql
    <2> QED BY <2>3 DEF p
<1>2. runStorageSecurityTest(DeploySqlRegistry(SqlRegistry, SqlDb), "closureSql")
          \in Seq(Allowed(SecuritySqlProfile))
    <2> DEFINE p == SecuritySqlProfile
    <2>1. p.made = SqlMade /\ "closureSql" \in p.defers /\ "newContext" \in p.odd
        BY ProfileParts DEF SecuritySqlProfile
    <2> HIDE DEF p
    <2>2. DeploySqlRegistry(SqlRegistry, SqlDb) \in Seq(Allowed(p))
        BY <1>0, <2>1, DeployAllowed
    <2>3. runStorageSecurityTest(DeploySqlRegistry(SqlRegistry, SqlDb), "closureSql") \in Seq(Allowed(p))
        BY <1>0, <2>1, <2>2, TestsAllowed
    <2> QED BY <2>3 DEF p
<1>3. /\ SuiteBody.storageSql = OnSql("test") /\ SuiteBody.clusteredSql = OnSql("test")
      /\ SuiteBody.convertersSql = OnSql("ConvertersTestCase")
      /\ SuiteBody.sqlSharedkafka = OnSql("SharedKafkaTest")
      /\ SuiteBody.securitySql =
            runStorageSecurityTest(DeploySqlRegistry(SqlRegistry, SqlDb), "closureSql")
    BY DEF SuiteBody
<1>4. ASSUME NEW s \in SqlSpecs PROVE SuiteBody[s] \in Seq(Allowed(SqlProfile(TestsOf(s))))
    <2>1. CASE s = "sqlSharedkafka"
        <3>1. "SharedKafkaTest" \in TestsOf(s) BY <2>1 DEF TestsOf
        <3> QED BY <1>1, <1>3, <2>1, <3>1
    <2>2. CASE s # "sqlSharedkafka"
        <3>1. "test" \in TestsOf(s) /\ "ConvertersTestCase" \in TestsOf(s) BY <2>2 DEF TestsOf
        <3>2. PICK test \in {"test", "ConvertersTestCase"} : SuiteBody[s] = OnSql(test)
            BY <1>3, <2>2 DEF SqlSpecs
        <3>3. test \in TestsOf(s) BY <3>1, <3>2
        <3> QED BY <1>1, <3>2, <3>3
    <2> QED BY <2>1, <2>2
<1> QED BY <1>2, <1>3, <1>4

LEMMA KafkaScripts ==
    /\ \A s \in KafkaSpecs : SuiteBody[s] \in Seq(Allowed(KafkaProfile(s)))
    /\ SuiteBody["securityKafkasql"] \in Seq(Allowed(SecurityKafkaProfile))
<1>0. /\ SecurityOf["storageKafkasql"] = "" /\ SecurityOf["clusteredKafkasql"] = ""
      /\ SecurityOf["kafkasqlSharedkafka"] = "" /\ SecurityOf["clusteredSharedkafka"] = ""
      /\ SecurityOf["scram"] = "scram" /\ SecurityOf["tls"] = "tls"
      /\ RemoverOf["storageKafkasql"] = "RemoveKafkaSqlRegistry"
      /\ RemoverOf["clusteredKafkasql"] = "RemoveKafkaSqlRegistry"
      /\ RemoverOf["kafkasqlSharedkafka"] = "RemoveKafkaSqlRegistry"
      /\ RemoverOf["clusteredSharedkafka"] = "RemoveKafkaSqlRegistry"
      /\ RemoverOf["scram"] = "RemoveScram" /\ RemoverOf["tls"] = "RemoveTls"
    BY DEF SecurityOf, RemoverOf
<1>0a. /\ \A s \in {"storageKafkasql", "clusteredKafkasql", "scram", "tls"} : KafkaTestOf(s) = "test"
       /\ \A s \in {"kafkasqlSharedkafka", "clusteredSharedkafka"} :
              KafkaTestOf(s) = "SharedKafkaTest"
    BY DEF KafkaTestOf, SharedClusterSpecs
<1>1. ASSUME NEW p, NEW security \in Securities, p.made = KafkaMade(security),
             "deployStrimziOperator" \in p.calls
      PROVE  DeployKafkaRegistry(security) \in Seq(Allowed(p))
    <2>1. {"storageKafka", "kafkaRegistry"} \subseteq p.made
        BY <1>1 DEF KafkaMade
    <2>2. security # "" => {"kafkaUser", "truststore"} \subseteq p.made
        BY <1>1 DEF KafkaMade, Securities
    <2>3. security = "tls" => "keystore" \in p.made
        BY <1>1 DEF KafkaMade
    <2> QED BY <1>1, <2>1, <2>2, <2>3, DeployAllowed
<1>2. ASSUME NEW s \in KafkaSpecs
      PROVE  OnKafka(SecurityOf[s], RemoverOf[s], KafkaTestOf(s)) \in Seq(Allowed(KafkaProfile(s)))
    <2> DEFINE p == KafkaProfile(s)
    <2>0. /\ SecurityOf[s] \in Securities /\ RemoverOf[s] \in Names /\ KafkaTestOf(s) \in Names
        <3>0. \/ s \in {"storageKafkasql", "clusteredKafkasql", "kafkasqlSharedkafka",
                        "clusteredSharedkafka"}
              \/ s = "scram" \/ s = "tls"
            BY DEF KafkaSpecs
        <3>1. SecurityOf[s] \in Securities BY <1>0, <3>0 DEF Securities
        <3>2. RemoverOf[s] \in {"RemoveKafkaSqlRegistry", "RemoveScram", "RemoveTls"} BY <1>0, <3>0
        <3>3. KafkaTestOf(s) \in {"test", "SharedKafkaTest"} BY DEF KafkaTestOf
        <3>4. {"RemoveKafkaSqlRegistry", "RemoveScram", "RemoveTls", "test", "SharedKafkaTest"}
                  \subseteq Names
            BY DEF Names
        <3> QED BY <3>1, <3>2, <3>3, <3>4
    <2>1. /\ p.made = KafkaMade(SecurityOf[s])
          /\ {"deployStrimziOperator", KafkaTestOf(s)} \subseteq p.calls
          /\ RemoverOf[s] \in p.keeps /\ "SaveLogsAndExecuteTestCleanups" \in p.defers
        BY DEF KafkaProfile, Profile
    <2> HIDE DEF p
    <2>2. DeployKafkaRegistry(SecurityOf[s]) \in Seq(Allowed(p))
        BY <1>1, <2>0, <2>1
    <2>3. OnKafka(SecurityOf[s], RemoverOf[s], KafkaTestOf(s)) \in Seq(Allowed(p))
        BY <2>0, <2>1, <2>2, TestsAllowed DEF OnKafka
    <2> QED BY <2>3 DEF p
<1>3. runStorageSecurityTest(DeployKafkaRegistry(""), "closureKafkasql")
          \in Seq(Allowed(SecurityKafkaProfile))
    <2> DEFINE p == SecurityKafkaProfile
    <2>0. "" \in Securities /\ "closureKafkasql" \in Names BY DEF Securities, Names
    <2>1. /\ p.made = KafkaMade("") /\ "deployStrimziOperator" \in p.calls
          /\ "closureKafkasql" \in p.defers /\ "newContext" \in p.odd
        BY DEF SecurityKafkaProfile, Profile
    <2> HIDE DEF p
    <2>2. DeployKafkaRegistry("") \in Seq(Allowed(p))
        BY <1>1, <2>0, <2>1
    <2>3. runStorageSecurityTest(DeployKafkaRegistry(""), "closureKafkasql") \in Seq(Allowed(p))
        BY <2>0, <2>1, <2>2, TestsAllowed
    <2> QED BY <2>3 DEF p
<1>4. /\ SuiteBody.storageKafkasql = OnKafka("", "RemoveKafkaSqlRegistry", "test")
      /\ SuiteBody.clusteredKafkasql = OnKafka("", "RemoveKafkaSqlRegistry", "test")
      /\ SuiteBody.kafkasqlSharedkafka = OnKafka("", "RemoveKafkaSqlRegistry", "SharedKafkaTest")
      /\ SuiteBody.clusteredSharedkafka = OnKafka("", "RemoveKafkaSqlRegistry", "SharedKafkaTest")
      /\ SuiteBody.scram = OnKafka("scram", "RemoveScram", "test")
      /\ SuiteBody.tls = OnKafka("tls", "RemoveTls", "test")
      /\ SuiteBody.securityKafkasql =
            runStorageSecurityTest(DeployKafkaRegistry(""), "closureKafkasql")
    BY DEF SuiteBody
<1>5. \A s \in KafkaSpecs : SuiteBody[s] = OnKafka(SecurityOf[s], RemoverOf[s], KafkaTestOf(s))
    BY <1>0, <1>0a, <1>4 DEF KafkaSpecs
<1> QED BY <1>2, <1>3, <1>4, <1>5

LEMMA OtherScripts ==
    /\ SuiteBody["ConvertersTestCase"] \in Seq(Allowed(ConvertersProfile))
    /\ SuiteBody["SharedKafkaTest"] \in Seq(Allowed(SharedKafkaProfile))
    /\ SuiteBody["keycloak"] \in Seq(Allowed(KeycloakProfile))
    /\ SuiteBody["deployStrimziOperator"] \in Seq(Allowed(InstallProfile))
<1>1. ConvertersTestCase \in Seq(Allowed(ConvertersProfile))
    <2> DEFINE p == ConvertersProfile
    <2>1. /\ p.made = ConvertersMade /\ "deployStrimziOperator" \in p.calls
          /\ {"strimziCleanup", "kafkaCleanup", "postgresCleanup", "debeziumCleanup"} \subseteq p.keeps
        BY ProfileParts DEF ConvertersProfile
    <2> HIDE DEF p
    <2>2. ConvertersTestCase \in Seq(Allowed(p)) BY <2>1, ConvertersAllowed
    <2> QED BY <2>2 DEF p
<1>2. SharedKafkaTest \in Seq(Allowed(SharedKafkaProfile))
    <2> DEFINE p == SharedKafkaProfile
    <2>1. /\ "sharedKafka" \in p.made /\ "deployStrimziOperator" \in p.calls
          /\ "RemoveSharedKafka" \in p.defers
        BY ProfileParts DEF SharedKafkaProfile
    <2> HIDE DEF p
    <2>2. SharedKafkaTest \in Seq(Allowed(p)) BY <2>1, ConvertersAllowed
    <2> QED BY <2>2 DEF p
<1>3. Testcase \in Seq(Allowed(KeycloakProfile))
    <2> DEFINE p == KeycloakProfile
    <2>1. /\ p.made = KeycloakMade /\ {"securitySql", "securityKafkasql"} \subseteq p.calls
          /\ "RemoveKeycloak" \in p.defers
        BY ProfileParts DEF KeycloakProfile
    <2> HIDE DEF p
    <2>2. Testcase \in Seq(Allowed(p)) BY <2>1, KeycloakAllowed
    <2> QED BY <2>2 DEF p
<1>4. deployStrimziOperator \in Seq(Allowed(InstallProfile))
    <2> DEFINE p == InstallProfile
    <2>1. {"strimzi", "bundleFile"} \subseteq p.made /\ "returnIfInstalled" \in p.odd
        BY ProfileParts DEF InstallProfile
    <2> HIDE DEF p
    <2>2. deployStrimziOperator \in Seq(Allowed(p)) BY <2>1, StrimziAllowed
    <2> QED BY <2>2 DEF p
<1>5. /\ SuiteBody.ConvertersTestCase = ConvertersTestCase
      /\ SuiteBody.SharedKafkaTest = SharedKafkaTest
      /\ SuiteBody.keycloak = Testcase
      /\ SuiteBody.deployStrimziOperator = deployStrimziOperator
    BY DEF SuiteBody
<1> QED BY <1>1, <1>2, <1>3, <1>4, <1>5

----------------------------------------------------------------------------
(* What the lists do contain. *)

Holding(s, x) == s \in Seq(Texts) /\ x \in Range(s)
Ending(s, o) == s \in Seq(Texts) /\ \E x \in Range(s) : x.op \in Endings /\ x.arg = o

LEMMA AllowedTexts ==
    ASSUME NEW p, NEW s \in Seq(Allowed(p))
    PROVE  /\ s \in Seq(Texts)
           /\ \A x \in Range(s) : x \in Allowed(p)
           /\ \A i \in 1 .. Len(s) : s[i] \in Allowed(p)
<1>1. Allowed(p) \subseteq Texts BY DEF Allowed
<1>2. s \in Seq(Texts) BY <1>1, SeqMonotonic
<1>3. \A i \in 1 .. Len(s) : s[i] \in Allowed(p) OBVIOUS
<1> QED BY <1>2, <1>3, RangeIn

LEMMA TextsConcat ==
    ASSUME NEW s \in Seq(Texts), NEW t \in Seq(Texts)
    PROVE  /\ s \o t \in Seq(Texts)
           /\ Range(s) \subseteq Range(s \o t) /\ Range(t) \subseteq Range(s \o t)
<1> DEFINE u == s \o t
<1>1. /\ u \in Seq(Texts)
      /\ Len(s) \in Nat /\ Len(t) \in Nat /\ Len(u) = Len(s) + Len(t)
      /\ \A i \in 1 .. Len(s) : u[i] = s[i]
      /\ \A i \in 1 .. Len(t) : u[Len(s) + i] = t[i]
    BY ConcatIndices
<1> HIDE DEF u
<1>2. /\ \A x : x \in Range(s) <=> \E i \in 1 .. Len(s) : x = s[i]
      /\ \A x : x \in Range(t) <=> \E i \in 1 .. Len(t) : x = t[i]
      /\ \A x : x \in Range(u) <=> \E i \in 1 .. Len(u) : x = u[i]
    BY <1>1, RangeIn
<1>3. ASSUME NEW x \in Range(s) PROVE x \in Range(u)
    <2>1. PICK i \in 1 .. Len(s) : x = s[i] BY <1>2
    <2>2. i \in 1 .. Len(u) BY <1>1
    <2> QED BY <1>1, <1>2, <2>1, <2>2
<1>4. ASSUME NEW x \in Range(t) PROVE x \in Range(u)
    <2>1. PICK i \in 1 .. Len(t) : x = t[i] BY <1>2
    <2>2. Len(s) + i \in 1 .. Len(u) BY <1>1
    <2> QED BY <1>1, <1>2, <2>1, <2>2
<1> QED BY <1>1, <1>3, <1>4 DEF u

LEMMA HoldingConcat ==
    ASSUME NEW s \in Seq(Texts), NEW t \in Seq(Texts), NEW x
    PROVE  /\ s \o t \in Seq(Texts)
           /\ Holding(s, x) \/ Holding(t, x) => Holding(s \o t, x)
BY TextsConcat DEF Holding

LEMMA EndingConcat ==
    ASSUME NEW s \in Seq(Texts), NEW t \in Seq(Texts), NEW o
    PROVE  /\ s \o t \in Seq(Texts)
           /\ Ending(s, o) \/ Ending(t, o) => Ending(s \o t, o)
BY TextsConcat DEF Ending

LEMMA HoldingStep ==
    \A op \in Ops : \A o \in Names :
        LET x == Step(op, o)
        IN  x \in Texts /\ Holding(<<x>>, x) /\ (op \in Endings => Ending(<<x>>, o))
<1> SUFFICES ASSUME NEW op \in Ops, NEW o \in Names
             PROVE  /\ Step(op, o) \in Texts
                    /\ Holding(<<Step(op, o)>>, Step(op, o))
                    /\ op \in Endings => Ending(<<Step(op, o)>>, o)
    OBVIOUS
<1> DEFINE x == Step(op, o)
<1>1. x \in Texts /\ x.op = op /\ x.arg = o BY DEF Step, Texts
<1> HIDE DEF x
<1> DEFINE s == <<x>>
<1>2. s \in Seq(Texts) /\ Len(s) = 1 /\ s[1] = x /\ 1 \in 1 .. 1
    BY <1>1
<1> HIDE DEF s
<1>3. x \in Range(s) BY <1>2, RangeIn
<1> QED BY <1>1, <1>2, <1>3 DEF Holding, Ending, s, x

LEMMA HoldingPieces ==
    ASSUME NEW o \in Names
    PROVE  /\ Holding(Deferring(o), Step("defer", o))
           /\ Holding(Register(o), Step("register", o))
           /\ Holding(Calling(o), Step("call", o))
           /\ Holding(Create(o), Step("create", o))
           /\ Holding(Bare("cleanups"), Step("cleanups", "-"))
           /\ Ending(Delete(o), o) /\ Ending(KubectlDelete(o), o) /\ Ending(RemoveIfFound(o), o)
           /\ Ending(<<Step("awaitGone", o)>>, o)
<1>1. /\ Holding(Deferring(o), Step("defer", o))
      /\ Holding(Register(o), Step("register", o))
      /\ Holding(Calling(o), Step("call", o))
      /\ Holding(Create(o), Step("create", o))
      /\ Holding(Bare("cleanups"), Step("cleanups", "-"))
    BY OpNames, HoldingStep DEF Deferring, Register, Calling, Create, Bare
<1>2. {"delete", "finalize", "deleteIfFound", "awaitGone"} \subseteq Endings
    BY DEF Endings, Removals
<1>3. Ending(Delete(o), o) /\ Ending(<<Step("awaitGone", o)>>, o)
    BY <1>2, OpNames, HoldingStep DEF Delete
<1>4. ASSUME NEW a \in Endings \cap Ops, NEW b \in Ops
      PROVE  Ending(<<Step(a, o), Step(b, o)>>, o)
    <2> DEFINE x == Step(a, o)
               y == Step(b, o)
    <2>1. x \in Texts /\ y \in Texts /\ x.op = a /\ x.arg = o
        BY DEF Step, Texts
    <2> HIDE DEF x, y
    <2> DEFINE s == <<x, y>>
    <2>2. s \in Seq(Texts) /\ Len(s) = 2 /\ s[1] = x /\ 1 \in 1 .. 2
        BY <2>1
    <2> HIDE DEF s
    <2>3. x \in Range(s) BY <2>2, RangeIn
    <2> QED BY <2>1, <2>2, <2>3 DEF Ending, s, x, y
<1>5. Ending(KubectlDelete(o), o) /\ Ending(RemoveIfFound(o), o)
    BY <1>2, <1>4, OpNames DEF KubectlDelete, RemoveIfFound
<1> QED BY <1>1, <1>3, <1>5

Anything == Profile(Names, Names, Names, Names, Oddities, Watched)

LEMMA AnythingParts ==
    /\ Anything.made = Names /\ Anything.calls = Names /\ Anything.defers = Names
    /\ Anything.keeps = Names /\ Anything.odd = Oddities /\ Anything.ends = Watched
BY DEF Anything, Profile

LEMMA RegistryEnding ==
    ASSUME NEW reg \in Regs
    PROVE  Ending(DeleteRegistryAndWait(reg), reg.cr)
<1>0. reg.cr \in Names /\ reg.dep \in Names
    BY DEF Names, Regs, SqlRegistry, KafkaRegistry, First, Second
<1> DEFINE x == Step("deleteRegistry", reg.cr)
           y == Step("awaitGone", reg.cr)
           z == Step("awaitGoneQuietly", reg.dep)
<1>1. x \in Texts /\ y \in Texts /\ z \in Texts /\ y.op = "awaitGone" /\ y.arg = reg.cr
    BY <1>0, OpNames DEF Step, Texts
<1> HIDE DEF x, y, z
<1> DEFINE s == <<x, y, z>>
<1>2. s \in Seq(Texts) /\ Len(s) = 3 /\ s[2] = y /\ 2 \in 1 .. 3
    BY <1>1
<1> HIDE DEF s
<1>3. y \in Range(s) BY <1>2, RangeIn
<1>4. DeleteRegistryAndWait(reg) = s BY DEF DeleteRegistryAndWait, s, x, y, z
<1> QED BY <1>1, <1>2, <1>3, <1>4 DEF Ending, Endings

LEMMA DatabaseEnding ==
    ASSUME NEW db \in Dbs, NEW reg \in Regs
    PROVE  /\ \A o \in {db.pvc, db.dep, db.svc} : Ending(RemovePostgresqlDatabase(db), o)
           /\ \A o \in {db.pvc, db.dep, db.svc, reg.cr} : Ending(RemoveJpaRegistry(reg, db), o)
<1>1. db.pvc \in Names /\ db.dep \in Names /\ db.svc \in Names /\ reg.cr \in Names /\ reg.dep \in Names
    BY DEF Names, Dbs, SqlDb, DebeziumDb, First, Second, Regs, SqlRegistry, KafkaRegistry
<1>2. \A o \in {db.pvc, db.dep, db.svc} : Ending(RemoveIfFound(o), o)
    BY <1>1, HoldingPieces
<1>3. \A o \in {db.pvc, db.dep, db.svc} : RemoveIfFound(o) \in Seq(Texts)
    BY <1>2 DEF Ending
<1>4. \A o \in {db.pvc, db.dep, db.svc} : Ending(RemovePostgresqlDatabase(db), o)
    BY <1>2, <1>3, EndingConcat DEF RemovePostgresqlDatabase
<1>5. Ending(DeleteRegistryAndWait(reg), reg.cr)
    BY RegistryEnding
<1>6. DeleteRegistryAndWait(reg) \in Seq(Texts) /\ RemovePostgresqlDatabase(db) \in Seq(Texts)
    BY <1>4, <1>5 DEF Ending
<1>7. \A o \in {db.pvc, db.dep, db.svc, reg.cr} : Ending(RemoveJpaRegistry(reg, db), o)
    BY <1>4, <1>5, <1>6, EndingConcat DEF RemoveJpaRegistry
<1> QED BY <1>4, <1>7

LEMMA ClusterEnding ==
    ASSUME NEW kafka \in Clusters, NEW security \in Securities
    PROVE  /\ \A o \in {kafka.cr, kafka.pods} : Ending(RemoveKafkaCluster(kafka, security), o)
           /\ security # "" => Ending(RemoveKafkaCluster(kafka, security), "kafkaUser")
<1>1. kafka.cr \in Names /\ kafka.pods \in Names /\ "kafkaUser" \in Names
    BY DEF Names, Clusters, StorageKafka, DebeziumKafka, SharedKafka
<1>2. /\ Ending(KubectlDelete(kafka.cr), kafka.cr)
      /\ Ending(KubectlDelete("kafkaUser"), "kafkaUser")
      /\ Ending(<<Step("awaitGone", kafka.pods)>>, kafka.pods)
    BY <1>1, HoldingPieces
<1>3. /\ KubectlDelete(kafka.cr) \in Seq(Texts) /\ KubectlDelete("kafkaUser") \in Seq(Texts)
      /\ <<Step("awaitGone", kafka.pods)>> \in Seq(Texts)
    BY <1>2 DEF Ending
<1>4. <<>> \in Seq(Texts) OBVIOUS
<1> DEFINE u == Secured(security, KubectlDelete("kafkaUser"))
<1>5. u \in Seq(Texts) /\ (security # "" => Ending(u, "kafkaUser"))
    BY <1>2, <1>3, <1>4 DEF Secured
<1> HIDE DEF u
<1> DEFINE a == KubectlDelete(kafka.cr)
           p == <<Step("awaitGone", kafka.pods)>>
<1>6. RemoveKafkaCluster(kafka, security) = a \o u \o p
    BY DEF RemoveKafkaCluster, u
<1>7. /\ a \in Seq(Texts) /\ p \in Seq(Texts)
      /\ Ending(a, kafka.cr) /\ Ending(p, kafka.pods)
    BY <1>2, <1>3
<1> HIDE DEF a, p
<1>8. a \o u \in Seq(Texts) /\ Ending(a \o u, kafka.cr) /\ (security # "" => Ending(a \o u, "kafkaUser"))
    BY <1>5, <1>7, EndingConcat
<1> QED BY <1>6, <1>7, <1>8, EndingConcat

LEMMA StrimziEnding == Ending(RemoveStrimziOperator, "strimzi")
<1>1. "strimzi" \in Names /\ "bundleFile" \in Names BY DEF Names
<1>2. Ending(KubectlDelete("strimzi"), "strimzi") BY <1>1, HoldingPieces
<1>3. KubectlDelete("strimzi") \in Seq(Texts) BY <1>2 DEF Ending
<1>4. <<Step("read", "bundleFile")>> \in Seq(Texts)
    BY <1>1, OpNames, HoldingStep DEF Holding
<1> QED BY <1>2, <1>3, <1>4, EndingConcat DEF RemoveStrimziOperator

LEMMA KafkaEnding ==
    ASSUME NEW security \in Securities
    PROVE  \A o \in KafkaMade(security) \cup {"strimzi"} : Ending(RemoveKafkaSqlRegistry(security), o)
<1>0. KafkaRegistry \in Regs /\ SqlDb \in Dbs /\ StorageKafka \in Clusters
    BY DEF Regs, Dbs, Clusters
<1> DEFINE d == DeleteRegistryAndWait(KafkaRegistry)
           c == DeleteCertStores(security)
           k == RemoveKafkaCluster(StorageKafka, security)
           f == Deferring("removeBundleFile")
           b == RemoveStrimziOperator
<1>1. d \in Seq(Texts) /\ c \in Seq(Texts) /\ f \in Seq(Texts)
    <2>1. /\ d \in Seq(Allowed(Anything)) /\ c \in Seq(Allowed(Anything))
          /\ f \in Seq(Allowed(Anything))
        BY <1>0, RegistryAllowed, StoresAllowed, AllowedPieces, AnythingParts DEF Names
    <2> QED BY <2>1, AllowedTexts
<1>2. Ending(d, "kafkaRegistry")
    BY <1>0, RegistryEnding DEF KafkaRegistry
<1>3. /\ security # "" => Ending(c, "truststore")
      /\ security = "tls" => Ending(c, "keystore")
    <2>1. Ending(KubectlDelete("truststore"), "truststore") /\ Ending(KubectlDelete("keystore"), "keystore")
        BY HoldingPieces DEF Names
    <2>2. KubectlDelete("truststore") \in Seq(Texts) /\ KubectlDelete("keystore") \in Seq(Texts)
        BY <2>1 DEF Ending
    <2>3. CASE security = "scram"
        BY <2>1, <2>3 DEF DeleteCertStores
    <2>4. CASE security = "tls"
        <3>1. c = KubectlDelete("truststore") \o KubectlDelete("keystore") BY <2>4 DEF DeleteCertStores
        <3> HIDE DEF c
        <3> QED BY <2>1, <2>2, <3>1, EndingConcat
    <2>5. CASE security = "" BY <2>5
    <2> QED BY <2>3, <2>4, <2>5 DEF Securities
<1>4. /\ Ending(k, "storageKafka") /\ (security # "" => Ending(k, "kafkaUser"))
      /\ k \in Seq(Texts)
    BY <1>0, ClusterEnding DEF StorageKafka, Ending
<1>5. Ending(b, "strimzi") /\ b \in Seq(Texts)
    BY StrimziEnding DEF Ending
<1>6. RemoveKafkaSqlRegistry(security) = d \o c \o k \o f \o b
    BY DEF RemoveKafkaSqlRegistry
<1> HIDE DEF d, c, k, f, b
<1>7. ASSUME NEW o, Ending(d, o) \/ Ending(c, o) \/ Ending(k, o) \/ Ending(b, o)
      PROVE  Ending(RemoveKafkaSqlRegistry(security), o)
    <2>1. /\ d \o c \in Seq(Texts) /\ d \o c \o k \in Seq(Texts) /\ d \o c \o k \o f \in Seq(Texts)
        BY <1>1, <1>4, EndingConcat
    <2>2. Ending(d, o) \/ Ending(c, o) => Ending(d \o c, o) BY <1>1, EndingConcat
    <2>3. Ending(d \o c, o) \/ Ending(k, o) => Ending(d \o c \o k, o) BY <1>4, <2>1, EndingConcat
    <2>4. Ending(d \o c \o k, o) => Ending(d \o c \o k \o f, o) BY <1>1, <2>1, EndingConcat
    <2>5. Ending(d \o c \o k \o f, o) \/ Ending(b, o) => Ending(d \o c \o k \o f \o b, o)
        BY <1>5, <2>1, EndingConcat
    <2> QED BY <1>6, <1>7, <2>2, <2>3, <2>4, <2>5
<1>8. ASSUME NEW o \in KafkaMade(security) \cup {"strimzi"}
      PROVE  Ending(d, o) \/ Ending(c, o) \/ Ending(k, o) \/ Ending(b, o)
    <2>1. o \in {"strimzi", "storageKafka", "kafkaRegistry"} =>
             Ending(d, o) \/ Ending(c, o) \/ Ending(k, o) \/ Ending(b, o)
        BY <1>2, <1>4, <1>5
    <2>2. CASE security = ""
        <3>1. o \in {"strimzi", "storageKafka", "kafkaRegistry"} BY <2>2 DEF KafkaMade
        <3> QED BY <2>1, <3>1
    <2>3. CASE security = "scram"
        <3>1. o \in {"strimzi", "storageKafka", "kafkaRegistry", "kafkaUser", "truststore"}
            BY <2>3 DEF KafkaMade
        <3> QED BY <1>3, <1>4, <2>1, <2>3, <3>1
    <2>4. CASE security = "tls"
        <3>1. o \in {"strimzi", "storageKafka", "kafkaRegistry", "kafkaUser", "truststore", "keystore"}
            BY <2>4 DEF KafkaMade
        <3> QED BY <1>3, <1>4, <2>1, <2>4, <3>1
    <2> QED BY <2>2, <2>3, <2>4 DEF Securities
<1> QED BY <1>7, <1>8

LEMMA OtherEnding ==
    /\ \A o \in {"debezium", "debeziumService", "debeziumIngress"} : Ending(debeziumCleanup, o)
    /\ \A o \in KeycloakMade : Ending(RemoveKeycloak, o)
<1>1. \A o \in {"debezium", "debeziumService", "debeziumIngress"} : Ending(debeziumCleanup, o)
    <2>1. \A o \in {"debezium", "debeziumService", "debeziumIngress"} : Ending(Delete(o), o)
        BY HoldingPieces DEF Names
    <2>2. \A o \in {"debezium", "debeziumService", "debeziumIngress"} : Delete(o) \in Seq(Texts)
        BY <2>1 DEF Ending
    <2> QED BY <2>1, <2>2, EndingConcat DEF debeziumCleanup, Debezium
<1>2. \A o \in KeycloakMade : Ending(RemoveKeycloak, o)
    <2> DEFINE r == KubectlDelete("keycloakRealm")
               s == KubectlDelete("keycloakServer")
               p == <<Step("awaitGone", "keycloakPods")>>
               v == Delete("keycloakService")
               w == Delete("keycloakRoute")
               k == removeKeycloakOperator
    <2>1. /\ Ending(r, "keycloakRealm") /\ Ending(s, "keycloakServer") /\ Ending(p, "keycloakPods")
          /\ Ending(v, "keycloakService") /\ Ending(w, "keycloakRoute")
        BY HoldingPieces DEF Names
    <2>2. Ending(k, "keycloakSubscription") /\ Ending(k, "keycloakGroup")
        <3> DEFINE x == Step("deleteQuietly", "keycloakSubscription")
                   y == Step("deleteQuietly", "keycloakCsv")
                   z == Step("deleteQuietly", "keycloakGroup")
                   q == Step("awaitGone", "keycloakOperator")
        <3>1. /\ x \in Texts /\ y \in Texts /\ z \in Texts /\ q \in Texts
              /\ x.op = "deleteQuietly" /\ x.arg = "keycloakSubscription"
              /\ z.op = "deleteQuietly" /\ z.arg = "keycloakGroup"
            BY OpNames DEF Step, Texts, Names
        <3>2. k = <<x, y, z, q>> BY DEF removeKeycloakOperator, Keycloak
        <3> HIDE DEF x, y, z, q, k
        <3>3. k \in Seq(Texts) /\ Len(k) = 4 /\ k[1] = x /\ k[3] = z /\ 1 \in 1 .. 4 /\ 3 \in 1 .. 4
            BY <3>1, <3>2
        <3>4. x \in Range(k) /\ z \in Range(k) BY <3>3, RangeIn
        <3> QED BY <3>1, <3>3, <3>4 DEF Ending, Endings, Removals
    <2>3. /\ r \in Seq(Texts) /\ s \in Seq(Texts) /\ p \in Seq(Texts) /\ v \in Seq(Texts)
          /\ w \in Seq(Texts) /\ k \in Seq(Texts)
        BY <2>1, <2>2 DEF Ending
    <2>4. RemoveKeycloak = r \o s \o p \o v \o w \o k
        BY DEF RemoveKeycloak, Keycloak
    <2> HIDE DEF r, s, p, v, w, k
    <2>5. /\ r \o s \in Seq(Texts) /\ r \o s \o p \in Seq(Texts)
          /\ r \o s \o p \o v \in Seq(Texts) /\ r \o s \o p \o v \o w \in Seq(Texts)
        BY <2>3, EndingConcat
    <2>6. ASSUME NEW o, Ending(r, o) \/ Ending(s, o) \/ Ending(v, o) \/ Ending(w, o) \/ Ending(k, o)
          PROVE  Ending(RemoveKeycloak, o)
        <3>1. Ending(r, o) \/ Ending(s, o) => Ending(r \o s, o) BY <2>3, EndingConcat
        <3>2. Ending(r \o s, o) => Ending(r \o s \o p, o) BY <2>3, <2>5, EndingConcat
        <3>3. Ending(r \o s \o p, o) \/ Ending(v, o) => Ending(r \o s \o p \o v, o)
            BY <2>3, <2>5, EndingConcat
        <3>4. Ending(r \o s \o p \o v, o) \/ Ending(w, o) => Ending(r \o s \o p \o v \o w, o)
            BY <2>3, <2>5, EndingConcat
        <3>5. Ending(r \o s \o p \o v \o w, o) \/ Ending(k, o) => Ending(RemoveKeycloak, o)
            BY <2>3, <2>4, <2>5, EndingConcat
        <3> QED BY <2>6, <3>1, <3>2, <3>3, <3>4, <3>5
    <2> QED BY <2>1, <2>2, <2>6 DEF KeycloakMade
<1> QED BY <1>1, <1>2

----------------------------------------------------------------------------
(* Who registers and defers what. *)

LEMMA OnStorageHolding ==
    ASSUME NEW deploy \in Seq(Texts), NEW remove \in Names, NEW test \in Names
    PROVE  /\ Holding(executeTestOnStorage(deploy, remove, test), Step("register", remove))
           /\ Holding(executeTestOnStorage(deploy, remove, test),
                      Step("defer", "SaveLogsAndExecuteTestCleanups"))
<1> DEFINE r == Register(remove)
           d == Deferring("SaveLogsAndExecuteTestCleanups")
           c == Calling(test)
<1>1. /\ Holding(r, Step("register", remove)) /\ Holding(c, Step("call", test))
      /\ Holding(d, Step("defer", "SaveLogsAndExecuteTestCleanups"))
    BY HoldingPieces DEF Names
<1>2. r \in Seq(Texts) /\ d \in Seq(Texts) /\ c \in Seq(Texts)
    BY <1>1 DEF Holding
<1>3. executeTestOnStorage(deploy, remove, test) = r \o d \o deploy \o c
    BY DEF executeTestOnStorage
<1> HIDE DEF r, d, c
<1>4. ASSUME NEW x, Holding(r, x) \/ Holding(d, x)
      PROVE  Holding(r \o d \o deploy \o c, x)
    BY <1>2, <1>4, HoldingConcat
<1> QED BY <1>1, <1>3, <1>4

LEMMA SpecsHolding ==
    /\ \A s \in SqlSpecs \cup KafkaSpecs :
           Holding(SuiteBody[s], Step("defer", "SaveLogsAndExecuteTestCleanups"))
    /\ \A s \in SqlSpecs : Holding(SuiteBody[s], Step("register", "RemoveJpaRegistry"))
    /\ \A s \in KafkaSpecs : Holding(SuiteBody[s], Step("register", RemoverOf[s]))
<1>1. ASSUME NEW test \in {"test", "ConvertersTestCase", "SharedKafkaTest"}
      PROVE  /\ Holding(OnSql(test), Step("register", "RemoveJpaRegistry"))
             /\ Holding(OnSql(test), Step("defer", "SaveLogsAndExecuteTestCleanups"))
    <2>1. SqlRegistry \in Regs /\ SqlDb \in Dbs /\ test \in Names /\ "RemoveJpaRegistry" \in Names
        BY DEF Regs, Dbs, Names
    <2>2. {SqlDb.pvc, SqlDb.dep, SqlDb.svc, SqlRegistry.cr} \subseteq Anything.made
        BY AnythingParts DEF SqlDb, SqlRegistry, Names
    <2>3. DeploySqlRegistry(SqlRegistry, SqlDb) \in Seq(Allowed(Anything))
        BY <2>1, <2>2, DeployAllowed
    <2>4. DeploySqlRegistry(SqlRegistry, SqlDb) \in Seq(Texts)
        BY <2>3, AllowedTexts
    <2> QED BY <2>1, <2>4, OnStorageHolding DEF OnSql
<1>2. ASSUME NEW security \in Securities, NEW remove \in Names, NEW test \in Names
      PROVE  /\ Holding(OnKafka(security, remove, test), Step("register", remove))
             /\ Holding(OnKafka(security, remove, test),
                        Step("defer", "SaveLogsAndExecuteTestCleanups"))
    <2>1. /\ {"storageKafka", "kafkaRegistry", "kafkaUser", "truststore", "keystore"} \subseteq Anything.made
          /\ "deployStrimziOperator" \in Anything.calls
        BY AnythingParts DEF Names
    <2>2. DeployKafkaRegistry(security) \in Seq(Allowed(Anything))
        BY <2>1, DeployAllowed
    <2>3. DeployKafkaRegistry(security) \in Seq(Texts)
        BY <2>2, AllowedTexts
    <2> QED BY <2>1, <2>3, OnStorageHolding DEF OnKafka
<1>3. /\ SuiteBody.storageSql = OnSql("test") /\ SuiteBody.clusteredSql = OnSql("test")
      /\ SuiteBody.convertersSql = OnSql("ConvertersTestCase")
      /\ SuiteBody.sqlSharedkafka = OnSql("SharedKafkaTest")
      /\ SuiteBody.storageKafkasql = OnKafka("", "RemoveKafkaSqlRegistry", "test")
      /\ SuiteBody.clusteredKafkasql = OnKafka("", "RemoveKafkaSqlRegistry", "test")
      /\ SuiteBody.kafkasqlSharedkafka = OnKafka("", "RemoveKafkaSqlRegistry", "SharedKafkaTest")
      /\ SuiteBody.clusteredSharedkafka = OnKafka("", "RemoveKafkaSqlRegistry", "SharedKafkaTest")
      /\ SuiteBody.scram = OnKafka("scram", "RemoveScram", "test")
      /\ SuiteBody.tls = OnKafka("tls", "RemoveTls", "test")
    BY DEF SuiteBody
<1>4. /\ RemoverOf["storageKafkasql"] = "RemoveKafkaSqlRegistry"
      /\ RemoverOf["clusteredKafkasql"] = "RemoveKafkaSqlRegistry"
      /\ RemoverOf["kafkasqlSharedkafka"] = "RemoveKafkaSqlRegistry"
      /\ RemoverOf["clusteredSharedkafka"] = "RemoveKafkaSqlRegistry"
      /\ RemoverOf["scram"] = "RemoveScram" /\ RemoverOf["tls"] = "RemoveTls"
    BY DEF RemoverOf
<1>5. /\ {"", "scram", "tls"} \subseteq Securities
      /\ {"RemoveKafkaSqlRegistry", "RemoveScram", "RemoveTls", "test", "SharedKafkaTest"}
             \subseteq Names
    BY DEF Securities, Names
<1> QED BY <1>1, <1>2, <1>3, <1>4, <1>5 DEF SqlSpecs, KafkaSpecs

LEMMA DeferringHolding ==
    ASSUME NEW a \in Seq(Texts), NEW b \in Seq(Texts), NEW c \in Seq(Texts), NEW o \in Names
    PROVE  /\ Holding(Deferring(o) \o a, Step("defer", o))
           /\ Holding(a \o Deferring(o), Step("defer", o))
           /\ Holding(a \o Deferring(o) \o b, Step("defer", o))
           /\ Holding(a \o Deferring(o) \o b \o c, Step("defer", o))
<1>1. Holding(Deferring(o), Step("defer", o)) /\ Deferring(o) \in Seq(Texts)
    BY HoldingPieces DEF Holding
<1> QED BY <1>1, HoldingConcat

LEMMA ClosuresHolding ==
    /\ Holding(SuiteBody["securitySql"], Step("defer", "closureSql"))
    /\ Holding(SuiteBody["securityKafkasql"], Step("defer", "closureKafkasql"))
    /\ Holding(SuiteBody["keycloak"], Step("defer", "RemoveKeycloak"))
    /\ Holding(SuiteBody["SharedKafkaTest"], Step("defer", "RemoveSharedKafka"))
<1> DEFINE n == Bare("newContext")
           t == Bare("test")
           s == DeploySqlRegistry(SqlRegistry, SqlDb)
           k == DeployKafkaRegistry("")
           y == DeployKeycloak
           c == DeployKafkaCluster(SharedKafka, "")
<1>1. /\ SqlRegistry \in Regs /\ SqlDb \in Dbs /\ "" \in Securities /\ SharedKafka \in Clusters
      /\ {SqlDb.pvc, SqlDb.dep, SqlDb.svc, SqlRegistry.cr} \subseteq Anything.made
      /\ {"storageKafka", "kafkaRegistry", "kafkaUser", "truststore", "keystore"} \subseteq Anything.made
      /\ "deployStrimziOperator" \in Anything.calls /\ SharedKafka.cr \in Anything.made
    BY AnythingParts DEF Regs, Dbs, Securities, Clusters, SqlDb, SqlRegistry, SharedKafka, Names
<1>2. /\ s \in Seq(Allowed(Anything)) /\ k \in Seq(Allowed(Anything))
      /\ c \in Seq(Allowed(Anything))
    BY <1>1, DeployAllowed, ClusterAllowed
<1>3. s \in Seq(Texts) /\ k \in Seq(Texts) /\ c \in Seq(Texts)
    BY <1>2, AllowedTexts
<1>4. n \in Seq(Texts) /\ t \in Seq(Texts)
    BY OpNames, HoldingStep DEF Bare, Holding
<1>5. y \in Seq(Texts)
    <2>1. \A o \in KeycloakMade \cup {"keycloakOperator", "keycloakPods"} :
              /\ Create(o) \in Seq(Texts) /\ Apply(o) \in Seq(Texts) /\ Await(o) \in Seq(Texts)
        <3>1. KeycloakMade \cup {"keycloakOperator", "keycloakPods"} \subseteq Names
            BY DEF KeycloakMade, Names
        <3> QED BY <3>1, OpNames, HoldingStep DEF Create, Apply, Await, Holding
    <2>2. installKeycloakOperator \in Seq(Texts)
        BY <2>1, TextsConcat DEF installKeycloakOperator, Keycloak, KeycloakMade
    <2> QED BY <2>1, <2>2, TextsConcat DEF DeployKeycloak, Keycloak, KeycloakMade
<1>6. Calling("securitySql") \in Seq(Texts) /\ Calling("securityKafkasql") \in Seq(Texts)
    BY HoldingPieces DEF Holding, Names
<1>7. /\ SuiteBody.securitySql = n \o Deferring("closureSql") \o s \o t
      /\ SuiteBody.securityKafkasql = n \o Deferring("closureKafkasql") \o k \o t
      /\ SuiteBody.keycloak =
            y \o Deferring("RemoveKeycloak") \o Calling("securitySql") \o Calling("securityKafkasql")
      /\ SuiteBody.SharedKafkaTest = c \o Deferring("RemoveSharedKafka") \o t
    BY DEF SuiteBody, runStorageSecurityTest, Testcase, SharedKafkaTest
<1>8. {"closureSql", "closureKafkasql", "RemoveKeycloak", "RemoveSharedKafka"} \subseteq Names
    BY DEF Names
<1> HIDE DEF n, t, s, k, y, c
<1>9. /\ Holding(n \o Deferring("closureSql") \o s \o t, Step("defer", "closureSql"))
      /\ Holding(n \o Deferring("closureKafkasql") \o k \o t, Step("defer", "closureKafkasql"))
      /\ Holding(c \o Deferring("RemoveSharedKafka") \o t, Step("defer", "RemoveSharedKafka"))
      /\ Holding(y \o Deferring("RemoveKeycloak") \o Calling("securitySql") \o Calling("securityKafkasql"),
                 Step("defer", "RemoveKeycloak"))
    BY <1>3, <1>4, <1>5, <1>6, <1>8, DeferringHolding
<1> QED BY <1>7, <1>9

----------------------------------------------------------------------------
(* The order of the calls, where it matters. *)

LEMMA AppendOne ==
    ASSUME NEW s \in Seq(Texts), NEW x \in Texts
    PROVE  /\ s \o <<x>> \in Seq(Texts) /\ Len(s) \in Nat
           /\ Len(s \o <<x>>) = Len(s) + 1 /\ (s \o <<x>>)[Len(s) + 1] = x
           /\ \A i \in 1 .. Len(s) : (s \o <<x>>)[i] = s[i]
<1> DEFINE t == <<x>>
<1>1. t \in Seq(Texts) /\ Len(t) = 1 /\ t[1] = x /\ 1 \in 1 .. 1
    OBVIOUS
<1> HIDE DEF t
<1> QED BY <1>1, ConcatIndices DEF t

LEMMA HeadConcat ==
    ASSUME NEW S, NEW s \in Seq(S), s # <<>>, NEW t \in Seq(S)
    PROVE  s \o t # <<>> /\ Head(s \o t) = Head(s) /\ Tail(s \o t) = Tail(s) \o t
OBVIOUS

\* Installed once, and the caller told: kafkasql.go:408-460.
LEMMA InstallsOnce == InstallingOnce(deployStrimziOperator, "strimzi")
<1> DEFINE x == Step("returnIfInstalled", "strimzi")
           a == Apply("bundleFile")
           b == <<Step("deleteQuietly", "strimzi"), Step("finalize", "strimzi")>>
           c == Create("strimzi")
           d == Await("strimzi")
           e == Bare("installed")
           Calm == {y \in Texts : y.op \notin Hasty}
<1>0. "strimzi" \in Names /\ "bundleFile" \in Names /\ "-" \in Names BY DEF Names
<1>1. \A op \in {"apply", "deleteQuietly", "finalize", "create", "await", "installed"} :
          \A o \in Names : Step(op, o) \in Calm
    <2>1. \A op \in {"apply", "deleteQuietly", "finalize", "create", "await", "installed"} :
              op \in Ops /\ op \notin Hasty
        BY OpNames DEF Hasty
    <2> QED BY <2>1 DEF Step, Texts
<1>2. /\ a \in Seq(Calm) /\ b \in Seq(Calm) /\ c \in Seq(Calm)
      /\ d \in Seq(Calm) /\ e \in Seq(Calm)
    <2> HIDE DEF Calm
    <2>1. /\ Step("apply", "bundleFile") \in Calm /\ Step("deleteQuietly", "strimzi") \in Calm
          /\ Step("finalize", "strimzi") \in Calm /\ Step("create", "strimzi") \in Calm
          /\ Step("await", "strimzi") \in Calm /\ Step("installed", "-") \in Calm
        BY <1>0, <1>1
    <2> QED BY <2>1 DEF Apply, Create, Await, Bare
<1>3. Calm \subseteq Texts
    OBVIOUS
<1>4. x \in Texts /\ x.op = "returnIfInstalled" /\ x.arg = "strimzi"
    BY <1>0, OpNames DEF Step, Texts
<1>5. deployStrimziOperator = <<x>> \o a \o b \o c \o d \o e
    BY DEF deployStrimziOperator
<1>6. Step("installed", "-") \in Range(e) /\ Step("installed", "-").op = "installed"
    <2>1. Holding(e, Step("installed", "-"))
        BY <1>0, OpNames, HoldingStep DEF Bare
    <2> QED BY <2>1 DEF Holding, Step
<1>6a. \A y \in Calm : y.op \notin Hasty OBVIOUS
<1> HIDE DEF x, a, b, c, d, e, Calm
<1>7. <<x>> \in Seq(Texts) /\ <<x>> # <<>> /\ Head(<<x>>) = x /\ Tail(<<x>>) = <<>>
    BY <1>4
<1>8. /\ a \in Seq(Texts) /\ b \in Seq(Texts) /\ c \in Seq(Texts) /\ d \in Seq(Texts)
      /\ e \in Seq(Texts)
    BY <1>2, <1>3, SeqMonotonic
<1> DEFINE t == <<>> \o a \o b \o c \o d \o e
<1>9. /\ deployStrimziOperator # <<>> /\ Head(deployStrimziOperator) = x
      /\ Tail(deployStrimziOperator) = t
    <2> DEFINE f == <<x>>
               z == Tail(f)
    <2>0. f \in Seq(Texts) /\ f # <<>> /\ Head(f) = x /\ z = <<>> /\ z \in Seq(Texts)
        BY <1>7
    <2> HIDE DEF f, z
    <2>1. f \o a # <<>> /\ Head(f \o a) = x /\ Tail(f \o a) = z \o a /\ f \o a \in Seq(Texts)
        BY <1>8, <2>0, HeadConcat, TextsConcat DEF z
    <2> DEFINE f1 == f \o a
               z1 == z \o a
    <2>1a. f1 # <<>> /\ Head(f1) = x /\ Tail(f1) = z1 /\ f1 \in Seq(Texts) BY <2>1
    <2> HIDE DEF f1, z1
    <2>2. f1 \o b # <<>> /\ Head(f1 \o b) = x /\ Tail(f1 \o b) = z1 \o b /\ f1 \o b \in Seq(Texts)
        BY <1>8, <2>1a, HeadConcat, TextsConcat
    <2> DEFINE f2 == f1 \o b
               z2 == z1 \o b
    <2>2a. f2 # <<>> /\ Head(f2) = x /\ Tail(f2) = z2 /\ f2 \in Seq(Texts) BY <2>2
    <2> HIDE DEF f2, z2
    <2>3. f2 \o c # <<>> /\ Head(f2 \o c) = x /\ Tail(f2 \o c) = z2 \o c /\ f2 \o c \in Seq(Texts)
        BY <1>8, <2>2a, HeadConcat, TextsConcat
    <2> DEFINE f3 == f2 \o c
               z3 == z2 \o c
    <2>3a. f3 # <<>> /\ Head(f3) = x /\ Tail(f3) = z3 /\ f3 \in Seq(Texts) BY <2>3
    <2> HIDE DEF f3, z3
    <2>4. f3 \o d # <<>> /\ Head(f3 \o d) = x /\ Tail(f3 \o d) = z3 \o d /\ f3 \o d \in Seq(Texts)
        BY <1>8, <2>3a, HeadConcat, TextsConcat
    <2> DEFINE f4 == f3 \o d
               z4 == z3 \o d
    <2>4a. f4 # <<>> /\ Head(f4) = x /\ Tail(f4) = z4 /\ f4 \in Seq(Texts) BY <2>4
    <2> HIDE DEF f4, z4
    <2>5. f4 \o e # <<>> /\ Head(f4 \o e) = x /\ Tail(f4 \o e) = z4 \o e
        BY <1>8, <2>4a, HeadConcat
    <2>6. deployStrimziOperator = f4 \o e /\ t = z4 \o e
        BY <1>5, <2>0 DEF f, f1, f2, f3, f4, z1, z2, z3, z4
    <2> QED BY <2>5, <2>6
<1>10. t \in Seq(Calm) /\ Step("installed", "-") \in Range(t)
    <2>1. <<>> \in Seq(Calm) OBVIOUS
    <2> DEFINE u == <<>> \o a \o b \o c \o d
    <2>2. u \in Seq(Calm) BY <1>2, <2>1, ConcatProperties
    <2> HIDE DEF u
    <2>3. u \o e \in Seq(Calm) BY <1>2, <2>2, ConcatProperties
    <2>4. u \in Seq(Texts) BY <1>3, <2>2, SeqMonotonic
    <2>5. Step("installed", "-") \in Range(u \o e) BY <1>6, <1>8, <2>4, TextsConcat
    <2> QED BY <2>3, <2>5 DEF u
<1> HIDE DEF t
<1>11. \A y \in Range(t) : y.op \notin Hasty
    BY <1>6a, <1>10, RangeIn
<1> QED BY <1>4, <1>6, <1>9, <1>10, <1>11 DEF InstallingOnce, Installing, HasOp

\* What executes the cleanups: testcase.go:193-199.
LEMMA CleanupsFlush == Flushing(SuiteBody["SaveLogsAndExecuteTestCleanups"])
<1> DEFINE Flush == {x \in Texts : x.op \in {"saveLogs", "cleanups"}}
           c == Bare("saveLogs")
           d == Bare("cleanups")
<1>1. Step("saveLogs", "-") \in Flush /\ Step("cleanups", "-") \in Flush
    BY OpNames DEF Step, Texts
<1>2. c \in Seq(Flush) /\ d \in Seq(Flush)
    <2> HIDE DEF Flush
    <2> QED BY <1>1 DEF Bare
<1>3. Flush \subseteq Texts /\ \A x \in Flush : x.op \in {"saveLogs", "cleanups"}
    OBVIOUS
<1>4. Step("cleanups", "-") \in Range(d) /\ Step("cleanups", "-").op = "cleanups"
    <2>1. Holding(d, Step("cleanups", "-")) BY OpNames, HoldingPieces
    <2> QED BY <2>1 DEF Holding, Step
<1>5. SuiteBody["SaveLogsAndExecuteTestCleanups"] = c \o d
    BY DEF SuiteBody, SaveLogsAndExecuteTestCleanups, SaveLogs
<1> HIDE DEF Flush, c, d
<1>6. c \in Seq(Texts) /\ d \in Seq(Texts) BY <1>2, <1>3, SeqMonotonic
<1>7. c \o d \in Seq(Flush) BY <1>2, ConcatProperties
<1>8. Step("cleanups", "-") \in Range(c \o d) BY <1>4, <1>6, TextsConcat
<1> DEFINE s == c \o d
<1>9. s \in Seq(Flush) /\ Step("cleanups", "-") \in Range(s)
      /\ s = SuiteBody["SaveLogsAndExecuteTestCleanups"]
    BY <1>5, <1>7, <1>8
<1> HIDE DEF s
<1>10. \A x \in Range(s) : x.op \in {"saveLogs", "cleanups"}
    BY <1>3, <1>9, RangeIn
<1> QED BY <1>4, <1>9, <1>10 DEF Flushing, HasOp

LEMMA LendsConcat ==
    ASSUME NEW s \in Seq(Texts), NEW t \in Seq(Texts), NEW o, Lends(s, o),
           \A x \in Range(t) : ~Makes(x, o)
    PROVE  s \o t \in Seq(Texts) /\ Lends(s \o t, o)
<1> DEFINE u == s \o t
<1>0. /\ u \in Seq(Texts) /\ Len(s) \in Nat /\ Len(t) \in Nat /\ Len(u) = Len(s) + Len(t)
      /\ \A i \in 1 .. Len(s) : u[i] = s[i]
      /\ \A i \in 1 .. Len(t) : u[Len(s) + i] = t[i]
      /\ \A i \in 1 .. Len(u) :
             i \notin 1 .. Len(s) => i - Len(s) \in 1 .. Len(t) /\ i = Len(s) + (i - Len(s))
    BY ConcatIndices
<1> HIDE DEF u
<1>1. PICK j \in 1 .. Len(s), i \in 1 .. Len(s) :
        /\ j < i
        /\ s[j].op = "call" /\ s[j].arg \in Installers(o)
        /\ s[i].op = "registerIfDeployed" /\ s[i].arg \in Removers(o)
        /\ \A k \in 1 .. i - 1 : k = j \/ s[k].op \notin Hasty
        /\ \A k \in 1 .. Len(s) : Makes(s[k], o) => k = j
    BY DEF Lends
<1>2. /\ j \in 1 .. Len(u) /\ i \in 1 .. Len(u) /\ u[j] = s[j] /\ u[i] = s[i]
      /\ \A k \in 1 .. i - 1 : k \in 1 .. Len(s)
    BY <1>0
<1>3. \A k \in 1 .. i - 1 : k = j \/ u[k].op \notin Hasty
    BY <1>0, <1>1, <1>2
<1>4. ASSUME NEW k \in 1 .. Len(u), Makes(u[k], o) PROVE k = j
    <2>1. CASE k \in 1 .. Len(s) BY <1>0, <1>1, <1>4, <2>1
    <2>2. CASE k \notin 1 .. Len(s)
        <3>1. k - Len(s) \in 1 .. Len(t) /\ k = Len(s) + (k - Len(s)) BY <1>0, <2>2
        <3>2. u[k] = t[k - Len(s)] BY <1>0, <3>1
        <3>3. t[k - Len(s)] \in Range(t) BY <3>1, RangeIn
        <3> QED BY <1>4, <3>2, <3>3
    <2> QED BY <2>1, <2>2
<1>5. o \notin MakerSet BY DEF Lends
<1>6. Lends(u, o)
    BY <1>1, <1>2, <1>3, <1>4, <1>5 DEF Lends
<1> QED BY <1>0, <1>6 DEF u

\* Strimzi is owed to the caller as soon as it is known that it was not there:
\* converters.go:64-71.
LEMMA ConvertersLend ==
    ASSUME "strimzi" \notin MakerSet, "deployStrimziOperator" \in Installers("strimzi"),
           "strimziCleanup" \in Removers("strimzi"),
           \A l \in Leaves("strimzi") : l = "deployStrimziOperator"
    PROVE  Lends(ConvertersTestCase, "strimzi")
<1> DEFINE k == Step("check", "-")
           l == Step("call", "deployStrimziOperator")
           y == Step("apply", "debeziumKafka")
           w == Step("await", "debeziumKafkaPods")
           r == Step("registerIfDeployed", "strimziCleanup")
           K == <<k>>
           D == DeployKafkaCluster(DebeziumKafka, "")
           a == Register("kafkaCleanup")
           b == deployPostgresqlDatabase(DebeziumDb)
           c == Register("postgresCleanup")
           d == deployDebezium
           e == Bare("test")
           p == Profile(ConvertersMade, {}, {}, Names, {}, {})
<1>1. /\ k \in Texts /\ l \in Texts /\ y \in Texts /\ w \in Texts /\ r \in Texts
    BY OpNames DEF Step, Texts, Names
<1>2. /\ k.op = "check" /\ l.op = "call" /\ l.arg = "deployStrimziOperator"
      /\ y.op = "apply" /\ y.arg = "debeziumKafka" /\ w.op = "await"
      /\ r.op = "registerIfDeployed" /\ r.arg = "strimziCleanup"
    BY DEF Step
<1>3. D = <<l>> \o <<y>> \o <<>> \o <<w>> \o <<k>>
    BY DEF DeployKafkaCluster, DebeziumKafka, Calling, Apply, Secured, Await, Check, Bare
<1>4. ConvertersTestCase = K \o D \o <<r>> \o a \o b \o c \o d \o e
    BY DEF ConvertersTestCase, Check, Bare
<1>5. p.made = ConvertersMade /\ p.calls = {} /\ p.keeps = Names
    BY DEF Profile
<1> HIDE DEF p
<1>6. /\ a \in Seq(Allowed(p)) /\ b \in Seq(Allowed(p)) /\ c \in Seq(Allowed(p))
      /\ d \in Seq(Allowed(p)) /\ e \in Seq(Allowed(p))
    <2>1. a \in Seq(Allowed(p)) /\ c \in Seq(Allowed(p)) /\ e \in Seq(Allowed(p))
        BY <1>5, OpNames, AllowedPieces DEF Names
    <2>2. b \in Seq(Allowed(p))
        BY <1>5, DatabaseAllowed DEF Dbs, DebeziumDb, ConvertersMade
    <2>3. d \in Seq(Allowed(p))
        <3>0. /\ {"debezium", "debeziumService", "debeziumIngress"} \subseteq ConvertersMade
              /\ {"debezium", "debeziumService", "debeziumIngress", "debeziumCleanup"} \subseteq Names
            BY DEF Names, ConvertersMade
        <3>1. /\ Create("debezium") \in Seq(Allowed(p)) /\ Create("debeziumService") \in Seq(Allowed(p))
              /\ Create("debeziumIngress") \in Seq(Allowed(p)) /\ Await("debezium") \in Seq(Allowed(p))
              /\ Register("debeziumCleanup") \in Seq(Allowed(p))
            BY <1>5, <3>0, AllowedPieces
        <3> QED BY <3>1, AllowedConcat DEF deployDebezium, Debezium
    <2> QED BY <2>1, <2>2, <2>3
<1>7. ASSUME NEW s \in Seq(Allowed(p))
      PROVE  s \in Seq(Texts) /\ \A x \in Range(s) : ~Makes(x, "strimzi")
    <2>1. "strimzi" \notin ConvertersMade BY DEF ConvertersMade
    <2>2. \A x \in Allowed(p) : ~Makes(x, "strimzi")
        BY <1>5, <2>1 DEF Allowed, Makes
    <2> QED BY <2>2, AllowedTexts
<1> HIDE DEF k, l, y, w, r, D, a, b, c, d, e
<1>8. D \in Seq(Texts) /\ Len(D) = 4 /\ D[1] = l /\ D[2] = y /\ D[3] = w /\ D[4] = k
    <2> DEFINE f == <<l>>
               f1 == f \o <<y>>
               f2 == f1 \o <<w>>
               f3 == f2 \o <<k>>
    <2>0. f1 = f \o <<y>> /\ f2 = f1 \o <<w>> /\ f3 = f2 \o <<k>>
        OBVIOUS
    <2>1. f \in Seq(Texts) /\ Len(f) = 1 /\ f[1] = l BY <1>1
    <2>2. D = f \o <<y>> \o <<>> \o <<w>> \o <<k>> BY <1>3
    <2> HIDE DEF f, f1, f2, f3
    <2>3. /\ f1 \in Seq(Texts) /\ Len(f1) = Len(f) + 1 /\ f1[Len(f) + 1] = y
          /\ \A i \in 1 .. Len(f) : f1[i] = f[i]
        BY <1>1, <2>0, <2>1, AppendOne
    <2>4. Len(f1) = 2 /\ f1[1] = l /\ f1[2] = y
        BY <2>1, <2>3
    <2>5. f1 \o <<>> = f1 BY <2>3
    <2>6. /\ f2 \in Seq(Texts) /\ Len(f2) = Len(f1) + 1 /\ f2[Len(f1) + 1] = w
          /\ \A i \in 1 .. Len(f1) : f2[i] = f1[i]
        BY <1>1, <2>0, <2>3, AppendOne
    <2>7. Len(f2) = 3 /\ f2[1] = l /\ f2[2] = y /\ f2[3] = w
        BY <2>4, <2>6
    <2>8. /\ f3 \in Seq(Texts) /\ Len(f3) = Len(f2) + 1 /\ f3[Len(f2) + 1] = k
          /\ \A i \in 1 .. Len(f2) : f3[i] = f2[i]
        BY <1>1, <2>0, <2>6, AppendOne
    <2>9. Len(f3) = 4 /\ f3[1] = l /\ f3[2] = y /\ f3[3] = w /\ f3[4] = k
        BY <2>7, <2>8
    <2>10. D = f3 BY <2>0, <2>2, <2>5
    <2> QED BY <2>8, <2>9, <2>10
<1>9. K \in Seq(Texts) /\ Len(K) = 1 /\ K[1] = k
    BY <1>1
<1> HIDE DEF K
<1> DEFINE g == K \o D
           h == g \o <<r>>
<1>10. /\ g \in Seq(Texts) /\ Len(g) = Len(K) + Len(D)
       /\ \A i \in 1 .. Len(K) : g[i] = K[i]
       /\ \A i \in 1 .. Len(D) : g[Len(K) + i] = D[i]
    BY <1>8, <1>9, ConcatIndices
<1>10a. h = g \o <<r>> /\ g = K \o D OBVIOUS
<1> HIDE DEF g, h
<1>10b. Len(g) = 5 /\ g[1] = k
    BY <1>8, <1>9, <1>10
<1>10c. \A i \in 1 .. 4 : g[1 + i] = D[i]
    BY <1>8, <1>9, <1>10
<1>10d. g[2] = l /\ g[3] = y /\ g[4] = w /\ g[5] = k
    <2>1. g[1 + 1] = D[1] /\ g[1 + 2] = D[2] /\ g[1 + 3] = D[3] /\ g[1 + 4] = D[4]
        BY <1>10c
    <2> QED BY <1>8, <2>1
<1>10e. /\ h \in Seq(Texts) /\ Len(h) = Len(g) + 1 /\ h[Len(g) + 1] = r
        /\ \A i \in 1 .. Len(g) : h[i] = g[i]
    BY <1>1, <1>10, <1>10a, AppendOne
<1>11. /\ h \in Seq(Texts) /\ Len(h) = 6 /\ h[1] = k /\ h[2] = l /\ h[3] = y /\ h[4] = w /\ h[5] = k
       /\ h[6] = r
    BY <1>10b, <1>10d, <1>10e
<1>12. Lends(h, "strimzi")
    <2>1. /\ h[2].op = "call" /\ h[2].arg \in Installers("strimzi")
          /\ h[6].op = "registerIfDeployed" /\ h[6].arg \in Removers("strimzi")
        BY <1>2, <1>11
    <2>2. ASSUME NEW i \in 1 .. 6 - 1 PROVE i = 2 \/ h[i].op \notin Hasty
        <3>1. i \in {1, 2, 3, 4, 5} OBVIOUS
        <3> QED BY <1>2, <1>11, <3>1 DEF Hasty
    <2>3. ASSUME NEW i \in 1 .. Len(h), Makes(h[i], "strimzi") PROVE i = 2
        <3>1. i \in {1, 2, 3, 4, 5, 6} BY <1>11
        <3> QED BY <1>2, <1>11, <2>3, <3>1 DEF Makes, Makings
    <2> QED BY <1>11, <2>1, <2>2, <2>3 DEF Lends
<1>13. /\ h \o a \in Seq(Texts) /\ Lends(h \o a, "strimzi")
    BY <1>6, <1>7, <1>11, <1>12, LendsConcat
<1>14. /\ h \o a \o b \in Seq(Texts) /\ Lends(h \o a \o b, "strimzi")
    BY <1>6, <1>7, <1>13, LendsConcat
<1>15. /\ h \o a \o b \o c \in Seq(Texts) /\ Lends(h \o a \o b \o c, "strimzi")
    BY <1>6, <1>7, <1>14, LendsConcat
<1>16. /\ h \o a \o b \o c \o d \in Seq(Texts) /\ Lends(h \o a \o b \o c \o d, "strimzi")
    BY <1>6, <1>7, <1>15, LendsConcat
<1>17. Lends(h \o a \o b \o c \o d \o e, "strimzi")
    BY <1>6, <1>7, <1>16, LendsConcat
<1> QED BY <1>4, <1>10a, <1>17

LEMMA ConvertersHolding ==
    \A o \in {"kafkaCleanup", "postgresCleanup", "debeziumCleanup"} :
        Holding(ConvertersTestCase, Step("register", o))
<1> DEFINE k == Check
           D == DeployKafkaCluster(DebeziumKafka, "")
           r == <<Step("registerIfDeployed", "strimziCleanup")>>
           a == Register("kafkaCleanup")
           b == deployPostgresqlDatabase(DebeziumDb)
           c == Register("postgresCleanup")
           d == deployDebezium
           e == Bare("test")
<1>1. /\ k \in Seq(Texts) /\ r \in Seq(Texts) /\ e \in Seq(Texts)
    BY OpNames, HoldingStep DEF Check, Bare, Holding, Names
<1>2. D \in Seq(Texts) /\ b \in Seq(Texts)
    <2>1. D \in Seq(Allowed(Anything)) /\ b \in Seq(Allowed(Anything))
        <3>1. /\ DebeziumKafka \in Clusters /\ DebeziumDb \in Dbs /\ "" \in Securities
              /\ DebeziumKafka.cr \in Anything.made /\ "deployStrimziOperator" \in Anything.calls
              /\ {DebeziumDb.pvc, DebeziumDb.dep, DebeziumDb.svc} \subseteq Anything.made
            BY AnythingParts DEF Clusters, Dbs, Securities, DebeziumKafka, DebeziumDb, Names
        <3> QED BY <3>1, ClusterAllowed, DatabaseAllowed
    <2> QED BY <2>1, AllowedTexts
<1>3. /\ Holding(a, Step("register", "kafkaCleanup")) /\ Holding(c, Step("register", "postgresCleanup"))
      /\ a \in Seq(Texts) /\ c \in Seq(Texts)
    BY HoldingPieces DEF Names, Holding
<1>4. Holding(d, Step("register", "debeziumCleanup")) /\ d \in Seq(Texts)
    <2>1. \A o \in {"debezium", "debeziumService", "debeziumIngress"} :
              Create(o) \in Seq(Texts) /\ Await(o) \in Seq(Texts)
        BY OpNames, HoldingStep DEF Create, Await, Holding, Names
    <2> DEFINE f == Create("debezium")
               g == Create("debeziumService")
               h == Create("debeziumIngress")
               x == Register("debeziumCleanup")
               w == Await("debezium")
    <2>2. Holding(x, Step("register", "debeziumCleanup")) BY HoldingPieces DEF Names
    <2>3. /\ f \in Seq(Texts) /\ g \in Seq(Texts) /\ h \in Seq(Texts) /\ x \in Seq(Texts)
          /\ w \in Seq(Texts)
        BY <2>1, <2>2 DEF Holding
    <2>4. d = f \o g \o h \o x \o w BY DEF deployDebezium, Debezium
    <2> HIDE DEF f, g, h, x, w
    <2>5. f \o g \in Seq(Texts) /\ f \o g \o h \in Seq(Texts) /\ f \o g \o h \o x \in Seq(Texts)
        BY <2>3, HoldingConcat
    <2>6. Holding(f \o g \o h \o x, Step("register", "debeziumCleanup"))
        BY <2>2, <2>3, <2>5, HoldingConcat
    <2>7. Holding(f \o g \o h \o x \o w, Step("register", "debeziumCleanup"))
        BY <2>3, <2>5, <2>6, HoldingConcat
    <2> QED BY <2>4, <2>7 DEF Holding
<1>5. ConvertersTestCase = k \o D \o r \o a \o b \o c \o d \o e
    BY DEF ConvertersTestCase
<1> HIDE DEF k, D, r, a, b, c, d, e
<1> DEFINE s == k \o D \o r
<1>6. s \in Seq(Texts) BY <1>1, <1>2, TextsConcat
<1> HIDE DEF s
<1>7. /\ s \o a \in Seq(Texts) /\ s \o a \o b \in Seq(Texts) /\ s \o a \o b \o c \in Seq(Texts)
      /\ s \o a \o b \o c \o d \in Seq(Texts)
    BY <1>2, <1>3, <1>4, <1>6, HoldingConcat
<1>8. ASSUME NEW x, Holding(a, x) \/ Holding(c, x) \/ Holding(d, x)
      PROVE  Holding(s \o a \o b \o c \o d \o e, x)
    <2>1. Holding(a, x) => Holding(s \o a \o b, x)
        BY <1>2, <1>3, <1>6, <1>7, HoldingConcat
    <2>2. Holding(s \o a \o b, x) \/ Holding(c, x) => Holding(s \o a \o b \o c, x)
        BY <1>3, <1>7, HoldingConcat
    <2>3. Holding(s \o a \o b \o c, x) \/ Holding(d, x) => Holding(s \o a \o b \o c \o d, x)
        BY <1>4, <1>7, HoldingConcat
    <2>4. Holding(s \o a \o b \o c \o d, x) => Holding(s \o a \o b \o c \o d \o e, x)
        BY <1>1, <1>7, HoldingConcat
    <2> QED BY <1>8, <2>1, <2>2, <2>3, <2>4
<1> QED BY <1>3, <1>4, <1>5, <1>8 DEF s

LEMMA FollowsConcat ==
    ASSUME NEW s \in Seq(Texts), NEW t \in Seq(Texts), NEW o, Follows(s, o), Follows(t, o)
    PROVE  Follows(s \o t, o)
<1> DEFINE u == s \o t
<1>0. /\ u \in Seq(Texts) /\ Len(s) \in Nat /\ Len(t) \in Nat /\ Len(u) = Len(s) + Len(t)
      /\ \A i \in 1 .. Len(s) : u[i] = s[i]
      /\ \A i \in 1 .. Len(t) : u[Len(s) + i] = t[i]
      /\ \A i \in 1 .. Len(u) :
             i \notin 1 .. Len(s) => i - Len(s) \in 1 .. Len(t) /\ i = Len(s) + (i - Len(s))
    BY ConcatIndices
<1> HIDE DEF u
<1> SUFFICES ASSUME Maker[o] # None, NEW i \in 1 .. Len(u), Ends(u[i], Maker[o])
             PROVE  \E j \in i + 1 .. Len(u) : Ends(u[j], o)
    BY DEF Follows, u
<1>1. CASE i \in 1 .. Len(s)
    <2>1. PICK j \in i + 1 .. Len(s) : Ends(s[j], o)
        BY <1>0, <1>1 DEF Follows
    <2>2. j \in 1 .. Len(s) /\ j \in i + 1 .. Len(u) BY <1>0, <1>1
    <2> QED BY <1>0, <2>1, <2>2
<1>2. CASE i \notin 1 .. Len(s)
    <2> DEFINE m == i - Len(s)
    <2>1. m \in 1 .. Len(t) /\ i = Len(s) + m BY <1>0, <1>2
    <2> HIDE DEF m
    <2>2. u[i] = t[m] BY <1>0, <2>1
    <2>3. PICK j \in m + 1 .. Len(t) : Ends(t[j], o)
        BY <2>1, <2>2 DEF Follows
    <2>4. j \in 1 .. Len(t) /\ Len(s) + j \in i + 1 .. Len(u) BY <1>0, <2>1
    <2>5. u[Len(s) + j] = t[j] BY <1>0, <2>4
    <2> QED BY <2>3, <2>4, <2>5
<1> QED BY <1>1, <1>2

\* t takes o away and not what o was made for.
LEMMA FollowsLast ==
    ASSUME NEW s \in Seq(Texts), NEW t \in Seq(Texts), NEW o,
           \E x \in Range(t) : Ends(x, o),
           \A x \in Range(t) : ~Ends(x, Maker[o])
    PROVE  s \o t \in Seq(Texts) /\ Follows(s \o t, o)
<1> DEFINE u == s \o t
<1>0. /\ u \in Seq(Texts) /\ Len(s) \in Nat /\ Len(t) \in Nat /\ Len(u) = Len(s) + Len(t)
      /\ \A i \in 1 .. Len(s) : u[i] = s[i]
      /\ \A i \in 1 .. Len(t) : u[Len(s) + i] = t[i]
      /\ \A i \in 1 .. Len(u) :
             i \notin 1 .. Len(s) => i - Len(s) \in 1 .. Len(t) /\ i = Len(s) + (i - Len(s))
    BY ConcatIndices
<1> HIDE DEF u
<1>1. PICK j \in 1 .. Len(t) : Ends(t[j], o) BY RangeIn
<1>2. Len(s) + j \in 1 .. Len(u) /\ u[Len(s) + j] = t[j] BY <1>0
<1>3. ASSUME NEW i \in 1 .. Len(u), Ends(u[i], Maker[o]) PROVE i \in 1 .. Len(s)
    <2>1. SUFFICES ASSUME i \notin 1 .. Len(s) PROVE FALSE OBVIOUS
    <2> DEFINE m == i - Len(s)
    <2>2. m \in 1 .. Len(t) /\ i = Len(s) + m BY <1>0, <2>1
    <2> HIDE DEF m
    <2>3. u[i] = t[m] /\ t[m] \in Range(t) BY <1>0, <2>2, RangeIn
    <2> QED BY <1>3, <2>3
<1>4. ASSUME NEW i \in 1 .. Len(s) PROVE Len(s) + j \in i + 1 .. Len(u)
    BY <1>0
<1>5. Follows(u, o)
    BY <1>1, <1>2, <1>3, <1>4 DEF Follows
<1> QED BY <1>0, <1>5 DEF u

LEMMA IdleFollows ==
    ASSUME NEW p, NEW s \in Seq(Allowed(p)), NEW o,
           Maker[o] \in Watched, Maker[o] \notin p.ends
    PROVE  /\ s \in Seq(Texts) /\ Follows(s, o)
           /\ \A x \in Range(s) : ~Ends(x, Maker[o])
<1>1. \A x \in Allowed(p) : ~Ends(x, Maker[o])
    BY DEF Allowed, Ends, Endings
<1> QED BY <1>1, AllowedTexts DEF Follows

----------------------------------------------------------------------------
(* The objects of the suites that share a namespace. *)

LEMMA SuiteObjectNames ==
    SuiteObjects =
        {"sqlPvc", "sqlDatabase", "sqlService", "sqlRegistry", "sqlDeployment",
         "kafkaRegistry", "kafkaDeployment", "storageKafka", "storageKafkaPods",
         "debeziumKafka", "debeziumKafkaPods", "sharedKafka", "sharedKafkaPods", "strimzi",
         "bundleFile", "kafkaUser", "truststore", "keystore", "debeziumPvc", "debeziumDatabase",
         "debeziumDbService", "debezium", "debeziumService", "debeziumIngress", "keycloakGroup",
         "keycloakSubscription", "keycloakCsv", "keycloakOperator", "keycloakServer",
         "keycloakPods", "keycloakService", "keycloakRoute", "keycloakRealm"}
<1>1. DOMAIN MadeFor = {"firstDeployment", "secondDeployment", "sqlDeployment", "kafkaDeployment",
                        "storageKafkaPods", "debeziumKafkaPods", "sharedKafkaPods", "keycloakPods",
                        "keycloakCsv", "keycloakOperator"}
    BY DEF MadeFor
<1>2. DOMAIN LivesIn = {"firstPvc", "firstDatabase", "firstService", "firstRegistry",
                        "firstDeployment", "secondPvc", "secondDatabase", "secondService",
                        "secondRegistry", "secondDeployment"}
    BY DEF LivesIn
<1>3. Awaited \ DOMAIN LivesIn =
          {"sqlDeployment", "kafkaDeployment", "storageKafkaPods", "debeziumKafkaPods",
           "sharedKafkaPods", "keycloakPods", "keycloakCsv", "keycloakOperator", "sqlDatabase",
           "debeziumDatabase", "debezium", "strimzi", "keycloakRoute"}
    BY <1>1, <1>2 DEF Awaited, SqlDb, DebeziumDb, First, Second, Debezium, Keycloak
<1> QED
    BY <1>3 DEF SuiteObjects, SqlDb, DebeziumDb, SqlRegistry, KafkaRegistry, StorageKafka,
                DebeziumKafka, SharedKafka, Debezium, Keycloak

AllMade ==
    SqlMade \cup {"storageKafka", "kafkaRegistry", "kafkaUser", "truststore", "keystore"}
      \cup ConvertersMade \cup KeycloakMade \cup {"strimzi", "bundleFile", "sharedKafka"}

MadeByControllers ==
    [storageKafkaPods |-> "storageKafka", debeziumKafkaPods |-> "debeziumKafka",
     sharedKafkaPods |-> "sharedKafka", keycloakPods |-> "keycloakServer",
     keycloakCsv |-> "keycloakSubscription", keycloakOperator |-> "keycloakCsv"]

LEMMA SharedConstants ==
    ASSUME SharedSuite
    PROVE  /\ None = "none" /\ \A o \in Objects : Home[o] = "none"
           /\ Namespaces \subseteq {"none"}
           /\ Kept = SuiteObjects \ {"sqlDeployment", "kafkaDeployment", "bundleFile"}
           /\ Roots = Kept /\ "none" \notin SuiteObjects
           /\ AllMade \subseteq SuiteObjects
           /\ \A o \in AllMade : Maker[o] = "none"
           /\ \A o \in Roots :
                  IF o \in DOMAIN MadeByControllers
                  THEN Maker[o] = MadeByControllers[o]
                  ELSE Maker[o] = "none"
<1>1. /\ None = "none" /\ Objects = SuiteObjects /\ Home = Total(LivesIn, SuiteObjects, "none")
      /\ Maker = Total(MadeFor, SuiteObjects, "none")
      /\ Unawaited = {"sqlDeployment", "kafkaDeployment", "bundleFile"}
    BY DEF SharedSuite, SharedNamespace, SqlRegistry, KafkaRegistry
<1>2. \A o \in SuiteObjects : o \notin DOMAIN LivesIn
    BY SuiteObjectNames DEF LivesIn
<1>3. \A o \in Objects : Home[o] = "none"
    BY <1>1, <1>2 DEF Total
<1>4. /\ Namespaces \subseteq {"none"}
      /\ Kept = SuiteObjects \ {"sqlDeployment", "kafkaDeployment", "bundleFile"}
      /\ Roots = Kept
    BY <1>1, <1>3 DEF Namespaces, Kept, Roots
<1>5. "none" \notin SuiteObjects BY SuiteObjectNames
<1>6. AllMade \subseteq SuiteObjects \ DOMAIN MadeFor
    BY SuiteObjectNames DEF AllMade, SqlMade, ConvertersMade, KeycloakMade, MadeFor
<1>7. \A o \in AllMade : Maker[o] = "none"
    BY <1>1, <1>6 DEF Total
<1>8. \A o \in SuiteObjects : Maker[o] = IF o \in DOMAIN MadeFor THEN MadeFor[o] ELSE "none"
    BY <1>1 DEF Total
<1>9. ASSUME NEW o \in Roots
      PROVE  IF o \in DOMAIN MadeByControllers
             THEN Maker[o] = MadeByControllers[o] ELSE Maker[o] = "none"
    <2>1. o \in SuiteObjects /\ o # "sqlDeployment" /\ o # "kafkaDeployment"
        BY <1>4
    <2>2. CASE o \in DOMAIN MadeByControllers
        <3>1. o \in {"storageKafkaPods", "debeziumKafkaPods", "sharedKafkaPods", "keycloakPods",
                     "keycloakCsv", "keycloakOperator"}
            BY <2>2 DEF MadeByControllers
        <3>2. o \in DOMAIN MadeFor /\ MadeFor[o] = MadeByControllers[o]
            BY <3>1 DEF MadeByControllers, MadeFor
        <3> QED BY <1>8, <2>1, <2>2, <3>2
    <2>3. CASE o \notin DOMAIN MadeByControllers
        <3>1. o \notin DOMAIN MadeFor
            BY <2>1, <2>3, SuiteObjectNames DEF MadeByControllers, MadeFor
        <3> QED BY <1>8, <2>1, <2>3, <3>1
    <2> QED BY <2>2, <2>3
<1> QED BY <1>1, <1>3, <1>4, <1>5, <1>6, <1>7, <1>9


----------------------------------------------------------------------------
(* A Kafka cluster, a Keycloak and a CSV go before what runs them is waited for. *)

LEMMA MakerCases ==
    ASSUME SharedSuite, NEW o \in Roots, Maker[o] # None
    PROVE  /\ Maker[o] \in Watched
           /\ \/ o = "storageKafkaPods" /\ Maker[o] = "storageKafka"
              \/ o = "debeziumKafkaPods" /\ Maker[o] = "debeziumKafka"
              \/ o = "sharedKafkaPods" /\ Maker[o] = "sharedKafka"
              \/ o = "keycloakPods" /\ Maker[o] = "keycloakServer"
              \/ o = "keycloakCsv" /\ Maker[o] = "keycloakSubscription"
              \/ o = "keycloakOperator" /\ Maker[o] = "keycloakCsv"
BY SharedConstants DEF MadeByControllers, Watched

LEMMA ClusterFollows ==
    ASSUME SharedSuite, NEW o \in Roots, NEW kafka \in Clusters, NEW security \in Securities
    PROVE  /\ RemoveKafkaCluster(kafka, security) \in Seq(Texts)
           /\ Follows(RemoveKafkaCluster(kafka, security), o)
<1> DEFINE s == KubectlDelete(kafka.cr) \o Secured(security, KubectlDelete("kafkaUser"))
           t == <<Step("awaitGone", kafka.pods)>>
           p == Profile({}, {}, {}, {}, {}, {kafka.cr})
<1>1. RemoveKafkaCluster(kafka, security) = s \o t BY DEF RemoveKafkaCluster
<1>2. p.ends = {kafka.cr} BY DEF Profile
<1> HIDE DEF p
<1>3. RemoveKafkaCluster(kafka, security) \in Seq(Allowed(p))
    BY <1>2, ClusterAllowed
<1>4. RemoveKafkaCluster(kafka, security) \in Seq(Texts) BY <1>3, AllowedTexts
<1>5. CASE Maker[o] = None
    BY <1>4, <1>5 DEF Follows
<1>6. CASE Maker[o] # None /\ Maker[o] # kafka.cr
    BY <1>2, <1>3, <1>6, MakerCases, IdleFollows
<1>7. CASE Maker[o] # None /\ Maker[o] = kafka.cr
    <2>1. o = kafka.pods
        BY <1>7, MakerCases DEF Clusters, StorageKafka, DebeziumKafka, SharedKafka
    <2>2. /\ kafka.cr \in Names \ {"awaitGone"} /\ kafka.pods \in Names /\ kafka.cr # kafka.pods
          /\ "kafkaUser" \in Names
        BY DEF Names, Clusters, StorageKafka, DebeziumKafka, SharedKafka
    <2>3. KubectlDelete(kafka.cr) \in Seq(Texts) /\ KubectlDelete("kafkaUser") \in Seq(Texts)
        BY <2>2, HoldingPieces DEF Ending
    <2>4. <<>> \in Seq(Texts) OBVIOUS
    <2>5. Secured(security, KubectlDelete("kafkaUser")) \in Seq(Texts)
        BY <2>3, <2>4 DEF Secured
    <2>6. s \in Seq(Texts) BY <2>3, <2>5, TextsConcat
    <2> DEFINE x == Step("awaitGone", kafka.pods)
    <2>7. x \in Texts /\ x.op = "awaitGone" /\ x.arg = kafka.pods
        BY <2>2, OpNames DEF Step, Texts
    <2> HIDE DEF x
    <2>8. <<x>> \in Seq(Texts) /\ Len(<<x>>) = 1 /\ <<x>>[1] = x /\ 1 \in 1 .. 1 BY <2>7
    <2>9. t = <<x>> BY DEF x
    <2> HIDE DEF s, t
    <2>10. t \in Seq(Texts) /\ Len(t) = 1 /\ t[1] = x /\ 1 \in 1 .. 1 BY <2>8, <2>9
    <2>11. \A y : y \in Range(t) <=> y = x BY <2>10, RangeIn
    <2>12. Ends(x, o) /\ ~Ends(x, Maker[o])
        BY <1>7, <2>1, <2>2, <2>7 DEF Ends
    <2> QED BY <1>1, <2>6, <2>10, <2>11, <2>12, FollowsLast
<1> QED BY <1>5, <1>6, <1>7

LEMMA KafkaFollows ==
    ASSUME SharedSuite, NEW o \in Roots, NEW security \in Securities
    PROVE  /\ Follows(RemoveKafkaSqlRegistry(security), o)
           /\ Follows(SaveLogsAndRemove(RemoveKafkaSqlRegistry(security)), o)
<1> DEFINE d == DeleteRegistryAndWait(KafkaRegistry)
           c == DeleteCertStores(security)
           k == RemoveKafkaCluster(StorageKafka, security)
           f == Deferring("removeBundleFile")
           b == RemoveStrimziOperator
           p == Profile({}, {}, {"removeBundleFile"}, {}, {}, {})
<1>0. p.ends = {} /\ p.defers = {"removeBundleFile"} BY DEF Profile
<1> HIDE DEF p
<1>1. /\ d \in Seq(Allowed(p)) /\ c \in Seq(Allowed(p)) /\ f \in Seq(Allowed(p))
      /\ b \in Seq(Allowed(p)) /\ SaveLogs \in Seq(Allowed(p))
    <2>1. KafkaRegistry \in Regs /\ "removeBundleFile" \in Names BY DEF Regs, Names
    <2> QED BY <1>0, <2>1, RegistryAllowed, StoresAllowed, AllowedPieces, StrimziAllowed
<1>2. k \in Seq(Texts) /\ Follows(k, o)
    BY ClusterFollows DEF Clusters
<1>3. ASSUME NEW t \in Seq(Allowed(p)) PROVE t \in Seq(Texts) /\ Follows(t, o)
    <2>1. t \in Seq(Texts) BY AllowedTexts
    <2> QED BY <1>0, <2>1, MakerCases, IdleFollows DEF Follows
<1>4. RemoveKafkaSqlRegistry(security) = d \o c \o k \o f \o b
    BY DEF RemoveKafkaSqlRegistry
<1>5. SaveLogsAndRemove(RemoveKafkaSqlRegistry(security)) = SaveLogs \o RemoveKafkaSqlRegistry(security)
    BY DEF SaveLogsAndRemove
<1> HIDE DEF d, c, k, f, b
<1>6. /\ d \o c \in Seq(Texts) /\ d \o c \o k \in Seq(Texts) /\ d \o c \o k \o f \in Seq(Texts)
      /\ d \o c \o k \o f \o b \in Seq(Texts)
    BY <1>1, <1>2, <1>3, TextsConcat
<1>7. Follows(d \o c, o) BY <1>1, <1>3, FollowsConcat
<1>8. Follows(d \o c \o k, o) BY <1>2, <1>6, <1>7, FollowsConcat
<1>9. Follows(d \o c \o k \o f, o) BY <1>1, <1>3, <1>6, <1>8, FollowsConcat
<1>10. Follows(d \o c \o k \o f \o b, o) BY <1>1, <1>3, <1>6, <1>9, FollowsConcat
<1>11. Follows(SaveLogs \o RemoveKafkaSqlRegistry(security), o)
    BY <1>1, <1>3, <1>4, <1>6, <1>10, FollowsConcat
<1> QED BY <1>4, <1>5, <1>10, <1>11

\* keycloak.go:110-145 and 228-261: the subscription before the CSV, the CSV before its Deployment.
LEMMA KeycloakFollows ==
    ASSUME SharedSuite, NEW o \in Roots
    PROVE  Follows(RemoveKeycloak, o)
<1> DEFINE r == KubectlDelete("keycloakRealm")
           s == KubectlDelete("keycloakServer")
           t == <<Step("awaitGone", "keycloakPods")>>
           v == Delete("keycloakService")
           w == Delete("keycloakRoute")
           k == removeKeycloakOperator
           p == Profile({}, {}, {}, {}, {}, {})
           q == Profile({}, {}, {}, {}, {}, {"keycloakServer"})
<1>0. p.ends = {} /\ q.ends = {"keycloakServer"} BY DEF Profile
<1> HIDE DEF p, q
<1>1. /\ r \in Seq(Allowed(p)) /\ v \in Seq(Allowed(p)) /\ w \in Seq(Allowed(p))
    <2>1. {"keycloakRealm", "keycloakService", "keycloakRoute"} \subseteq Names \ Watched
        BY DEF Names, Watched
    <2> QED BY <2>1, AllowedPieces
<1>2. /\ r \in Seq(Texts) /\ s \in Seq(Texts) /\ t \in Seq(Texts) /\ v \in Seq(Texts)
      /\ w \in Seq(Texts)
    <2>1. /\ Ending(r, "keycloakRealm") /\ Ending(s, "keycloakServer") /\ Ending(t, "keycloakPods")
          /\ Ending(v, "keycloakService") /\ Ending(w, "keycloakRoute")
        BY HoldingPieces DEF Names
    <2> HIDE DEF r, s, t, v, w
    <2> QED BY <2>1 DEF Ending
<1>3. ASSUME NEW u \in Seq(Allowed(p)) PROVE u \in Seq(Texts) /\ Follows(u, o)
    <2>1. u \in Seq(Texts) BY AllowedTexts
    <2> QED BY <1>0, <2>1, MakerCases, IdleFollows DEF Follows
<1>4. RemoveKeycloak = r \o s \o t \o v \o w \o k
    BY DEF RemoveKeycloak, Keycloak
<1> DEFINE x1 == Step("deleteQuietly", "keycloakSubscription")
           x2 == Step("deleteQuietly", "keycloakCsv")
           x3 == Step("deleteQuietly", "keycloakGroup")
           x4 == Step("awaitGone", "keycloakOperator")
           y == Step("awaitGone", "keycloakPods")
<1>5. /\ x1 \in Texts /\ x2 \in Texts /\ x3 \in Texts /\ x4 \in Texts /\ y \in Texts
      /\ x1.op = "deleteQuietly" /\ x1.arg = "keycloakSubscription"
      /\ x2.op = "deleteQuietly" /\ x2.arg = "keycloakCsv"
      /\ x3.op = "deleteQuietly" /\ x3.arg = "keycloakGroup"
      /\ x4.op = "awaitGone" /\ x4.arg = "keycloakOperator"
      /\ y.op = "awaitGone" /\ y.arg = "keycloakPods"
    BY OpNames DEF Step, Texts, Names
<1>6. k = <<x1, x2, x3, x4>> /\ t = <<y>> BY DEF removeKeycloakOperator, Keycloak
<1> HIDE DEF x1, x2, x3, x4, y, k, t, r, s, v, w
<1>7. k \in Seq(Texts) /\ Len(k) = 4 /\ k[1] = x1 /\ k[2] = x2 /\ k[3] = x3 /\ k[4] = x4
    BY <1>5, <1>6
<1>8. t \in Seq(Texts) /\ Len(t) = 1 /\ t[1] = y /\ 1 \in 1 .. 1
    BY <1>5, <1>6
<1>9. \A x : x \in Range(t) <=> x = y BY <1>8, RangeIn
<1>10. Namespaces \subseteq {"none"} /\ "none" \notin SuiteObjects BY SharedConstants
<1>11. Follows(k, o)
    <2> SUFFICES ASSUME Maker[o] # None, NEW i \in 1 .. Len(k), Ends(k[i], Maker[o])
                 PROVE  \E j \in i + 1 .. Len(k) : Ends(k[j], o)
        BY DEF Follows
    <2>1. i \in {1, 2, 3, 4} BY <1>7
    <2>2. \/ i = 1 /\ Maker[o] = "keycloakSubscription"
          \/ i = 2 /\ Maker[o] = "keycloakCsv"
        BY <1>5, <1>7, <2>1, MakerCases DEF Ends
    <2>3. CASE i = 1 /\ Maker[o] = "keycloakSubscription"
        <3>1. o = "keycloakCsv" BY <2>3, MakerCases
        <3>2. Ends(k[2], o)
            BY <1>5, <1>7, <1>10, <3>1 DEF Ends, Removals
        <3> QED BY <1>7, <2>3, <3>2
    <2>4. CASE i = 2 /\ Maker[o] = "keycloakCsv"
        <3>1. o = "keycloakOperator" BY <2>4, MakerCases
        <3>2. Ends(k[4], o)
            BY <1>5, <1>7, <3>1 DEF Ends
        <3> QED BY <1>7, <2>4, <3>2
    <2> QED BY <2>2, <2>3, <2>4
<1>12. Follows(r \o s \o t, o) /\ r \o s \o t \in Seq(Texts)
    <2>1. r \o s \in Seq(Texts) BY <1>2, TextsConcat
    <2>2. r \o s \o t \in Seq(Texts) BY <1>8, <2>1, TextsConcat
    <2>3. CASE Maker[o] = None BY <2>2, <2>3 DEF Follows
    <2>4. CASE Maker[o] # None /\ o = "keycloakPods"
        <3>1. Maker[o] = "keycloakServer" BY <2>4, MakerCases
        <3>2. Ends(y, o) /\ ~Ends(y, Maker[o]) BY <1>5, <2>4, <3>1 DEF Ends
        <3> QED BY <1>8, <1>9, <2>1, <3>2, FollowsLast
    <2>5. CASE Maker[o] # None /\ o # "keycloakPods"
        <3>1. Maker[o] \in Watched /\ Maker[o] # "keycloakServer" BY <2>5, MakerCases
        <3>2. s \in Seq(Allowed(q))
            BY <1>0, AllowedPieces DEF Names, s
        <3>3. Follows(s, o) BY <1>0, <3>1, <3>2, IdleFollows
        <3>4. Follows(r \o s, o) BY <1>1, <1>2, <1>3, <3>3, FollowsConcat
        <3>5. Follows(t, o)
            <4>1. \A i \in 1 .. Len(t) : t[i] = y BY <1>8
            <4>2. Maker[o] # "keycloakPods" BY <2>5, MakerCases
            <4> QED BY <1>5, <4>1, <4>2 DEF Follows, Ends
        <3> QED BY <1>8, <2>1, <2>2, <3>4, <3>5, FollowsConcat
    <2> QED BY <2>3, <2>4, <2>5
<1> DEFINE a == r \o s \o t
<1>13. a \in Seq(Texts) /\ Follows(a, o) BY <1>12
<1>14. RemoveKeycloak = a \o v \o w \o k BY <1>4
<1> HIDE DEF a
<1>15. a \o v \in Seq(Texts) /\ Follows(a \o v, o) BY <1>1, <1>3, <1>13, FollowsConcat, TextsConcat
<1>16. a \o v \o w \in Seq(Texts) /\ Follows(a \o v \o w, o)
    BY <1>1, <1>3, <1>15, FollowsConcat, TextsConcat
<1>17. Follows(a \o v \o w \o k, o)
    BY <1>7, <1>11, <1>16, FollowsConcat
<1> QED BY <1>14, <1>17


----------------------------------------------------------------------------
(* The scripts by what they do. *)

Plain == {"test", "removeBundleFile", "SaveLogsAndExecuteTestCleanups"}
Provisioning ==
    {"keycloak", "SharedKafkaTest", "ConvertersTestCase", "deployStrimziOperator", "securitySql",
     "securityKafkasql"}

LEMMA ScriptNames ==
    DOMAIN SuiteBody = SqlSpecs \cup KafkaSpecs \cup Plain \cup Provisioning \cup Deprovisioning
<1>1. DOMAIN SuiteBody =
        {"storageSql", "clusteredSql", "storageKafkasql", "clusteredKafkasql", "scram", "tls",
         "convertersSql", "sqlSharedkafka", "kafkasqlSharedkafka", "clusteredSharedkafka",
         "keycloak", "test", "SharedKafkaTest",
         "RemoveSharedKafka", "ConvertersTestCase", "SaveLogsAndExecuteTestCleanups",
         "RemoveJpaRegistry", "RemoveKafkaSqlRegistry", "RemoveScram", "RemoveTls",
         "removeBundleFile", "deployStrimziOperator", "strimziCleanup", "kafkaCleanup",
         "postgresCleanup", "debeziumCleanup", "RemoveKeycloak", "securitySql",
         "securityKafkasql", "closureSql", "closureKafkasql"}
    BY DEF SuiteBody
<1> HIDE DEF SuiteBody
<1> QED
    BY <1>1 DEF SqlSpecs, KafkaSpecs, Plain, Provisioning, Deprovisioning, SqlRemovals,
                KafkaRemovals, OtherRemovals

RemovalProfile(ends) ==
    Profile({}, {}, {"removeBundleFile"}, {}, {"cleanups", "erase"}, ends)

ProfileOf(s) ==
    CASE s \in SqlSpecs -> SqlProfile(TestsOf(s))
      [] s \in KafkaSpecs -> KafkaProfile(s)
      [] s = "keycloak" -> KeycloakProfile
      [] s = "SharedKafkaTest" -> SharedKafkaProfile
      [] s = "ConvertersTestCase" -> ConvertersProfile
      [] s = "deployStrimziOperator" -> InstallProfile
      [] s = "securitySql" -> SecuritySqlProfile
      [] s = "securityKafkasql" -> SecurityKafkaProfile
      [] OTHER -> RemovalProfile(Watched)

LEMMA Profiles ==
    /\ \A s \in SqlSpecs : ProfileOf(s) = SqlProfile(TestsOf(s))
    /\ \A s \in KafkaSpecs : ProfileOf(s) = KafkaProfile(s)
    /\ ProfileOf("keycloak") = KeycloakProfile
    /\ ProfileOf("SharedKafkaTest") = SharedKafkaProfile
    /\ ProfileOf("ConvertersTestCase") = ConvertersProfile
    /\ ProfileOf("deployStrimziOperator") = InstallProfile
    /\ ProfileOf("securitySql") = SecuritySqlProfile
    /\ ProfileOf("securityKafkasql") = SecurityKafkaProfile
    /\ \A s \in Plain \cup Deprovisioning : ProfileOf(s) = RemovalProfile(Watched)
<1>1. \A s \in SqlSpecs : ProfileOf(s) = SqlProfile(TestsOf(s))
    <2>1. \A s \in SqlSpecs : s \notin KafkaSpecs \cup Provisioning
        BY DEF SqlSpecs, KafkaSpecs, Provisioning
    <2> QED BY <2>1 DEF ProfileOf, Provisioning
<1>2. \A s \in KafkaSpecs : ProfileOf(s) = KafkaProfile(s)
    <2>1. \A s \in KafkaSpecs : s \notin SqlSpecs BY DEF SqlSpecs, KafkaSpecs
    <2> QED BY <2>1 DEF ProfileOf, KafkaSpecs
<1>3. /\ ProfileOf("keycloak") = KeycloakProfile
      /\ ProfileOf("SharedKafkaTest") = SharedKafkaProfile
      /\ ProfileOf("ConvertersTestCase") = ConvertersProfile
      /\ ProfileOf("deployStrimziOperator") = InstallProfile
      /\ ProfileOf("securitySql") = SecuritySqlProfile
      /\ ProfileOf("securityKafkasql") = SecurityKafkaProfile
    BY DEF ProfileOf, SqlSpecs, KafkaSpecs
<1>4. \A s \in Plain \cup Deprovisioning : ProfileOf(s) = RemovalProfile(Watched)
    <2>1. \A s \in Plain \cup Deprovisioning :
              s \notin SqlSpecs \cup KafkaSpecs \cup Provisioning
        BY DEF SqlSpecs, KafkaSpecs, Provisioning, Plain, Deprovisioning, SqlRemovals,
               KafkaRemovals, OtherRemovals
    <2> QED BY <2>1 DEF ProfileOf, Provisioning
<1> QED BY <1>1, <1>2, <1>3, <1>4

LEMMA EveryScript ==
    ASSUME NEW s \in DOMAIN SuiteBody
    PROVE  /\ SuiteBody[s] \in Seq(Allowed(ProfileOf(s)))
           /\ SuiteBody[s] \in Seq(Texts)
           /\ \A x \in Range(SuiteBody[s]) : x \in Allowed(ProfileOf(s))
<1>1. SuiteBody[s] \in Seq(Allowed(ProfileOf(s)))
    <2>1. CASE s \in SqlSpecs BY <2>1, SqlScripts, Profiles
    <2>2. CASE s \in KafkaSpecs BY <2>2, KafkaScripts, Profiles
    <2>3. CASE s \in Provisioning
        BY <2>3, SqlScripts, KafkaScripts, OtherScripts, Profiles DEF Provisioning
    <2>4. CASE s \in Plain \cup Deprovisioning
        BY <2>4, RemovalScripts, Profiles DEF RemovalProfile, Plain, Watched
    <2> QED BY <2>1, <2>2, <2>3, <2>4, ScriptNames
<1> QED BY <1>1, AllowedTexts

LEMMA ScriptsFollow ==
    ASSUME SharedSuite, NEW s \in DOMAIN SuiteBody, NEW o \in Roots
    PROVE  Follows(SuiteBody[s], o)
<1>1. CASE Maker[o] = None BY <1>1 DEF Follows
<1>2. ASSUME NEW p, p.ends = {}, SuiteBody[s] \in Seq(Allowed(p)) PROVE Follows(SuiteBody[s], o)
    BY <1>1, <1>2, MakerCases, IdleFollows
<1>3. CASE s \in SqlSpecs \cup KafkaSpecs \cup Provisioning
    <2>1. ProfileOf(s).ends = {}
        <3>1. \A made, calls, defers, keeps, odd : Profile(made, calls, defers, keeps, odd, {}).ends = {}
            BY DEF Profile
        <3>2. CASE s \in SqlSpecs
            <4>1. ProfileOf(s) = SqlProfile(TestsOf(s)) BY <3>2, Profiles
            <4>2. SqlProfile(TestsOf(s)).ends = {} BY DEF SqlProfile, Profile
            <4> QED BY <4>1, <4>2
        <3>3. CASE s \in KafkaSpecs
            <4>1. ProfileOf(s) = KafkaProfile(s) BY <3>3, Profiles
            <4>2. KafkaProfile(s).ends = {} BY DEF KafkaProfile, Profile
            <4> QED BY <4>1, <4>2
        <3>4. CASE s \in Provisioning
            <4>1. /\ KeycloakProfile.ends = {} /\ SharedKafkaProfile.ends = {}
                  /\ ConvertersProfile.ends = {} /\ InstallProfile.ends = {}
                  /\ SecuritySqlProfile.ends = {} /\ SecurityKafkaProfile.ends = {}
                BY DEF KeycloakProfile, SharedKafkaProfile, ConvertersProfile,
                       InstallProfile, SecuritySqlProfile, SecurityKafkaProfile, Profile
            <4> QED BY <3>4, <4>1, Profiles DEF Provisioning
        <3> QED BY <1>3, <3>2, <3>3, <3>4
    <2> QED BY <1>2, <2>1, EveryScript
<1>4. CASE s \in Plain \cup SqlRemovals \cup {"strimziCleanup", "postgresCleanup", "debeziumCleanup"}
    <2> DEFINE p == RemovalProfile({})
    <2>1. p.ends = {} BY DEF RemovalProfile, Profile
    <2>2. /\ s \in Deprovisioning \cup Plain
          /\ s \notin KafkaRemovals \cup {"kafkaCleanup", "RemoveSharedKafka", "RemoveKeycloak"}
        BY <1>4 DEF Plain, Deprovisioning, SqlRemovals, KafkaRemovals, OtherRemovals
    <2>3. SuiteBody[s] \in Seq(Allowed(p)) BY <2>2, RemovalScripts DEF Plain, RemovalProfile
    <2> QED BY <1>2, <2>1, <2>3
<1>5. CASE s \in KafkaRemovals
    <2>1. \A security \in Securities :
              /\ Follows(RemoveKafkaSqlRegistry(security), o)
              /\ Follows(SaveLogsAndRemove(RemoveKafkaSqlRegistry(security)), o)
        BY KafkaFollows
    <2>2. /\ SuiteBody.RemoveKafkaSqlRegistry = RemoveKafkaSqlRegistry("")
          /\ SuiteBody.RemoveScram = RemoveKafkaSqlRegistry("scram")
          /\ SuiteBody.RemoveTls = RemoveKafkaSqlRegistry("tls")
          /\ SuiteBody.closureKafkasql = SaveLogsAndRemove(RemoveKafkaSqlRegistry(""))
        BY DEF SuiteBody
    <2>3. "" \in Securities /\ "scram" \in Securities /\ "tls" \in Securities BY DEF Securities
    <2> QED BY <1>5, <2>1, <2>2, <2>3 DEF KafkaRemovals
<1>6. CASE s \in {"kafkaCleanup", "RemoveSharedKafka", "RemoveKeycloak"}
    <2>1. /\ SuiteBody.kafkaCleanup = RemoveKafkaCluster(DebeziumKafka, "")
          /\ SuiteBody.RemoveSharedKafka = RemoveKafkaCluster(SharedKafka, "")
          /\ SuiteBody.RemoveKeycloak = RemoveKeycloak
        BY DEF SuiteBody
    <2>2. DebeziumKafka \in Clusters /\ SharedKafka \in Clusters /\ "" \in Securities
        BY DEF Clusters, Securities
    <2> QED BY <1>6, <2>1, <2>2, ClusterFollows, KeycloakFollows
<1> QED
    BY <1>3, <1>4, <1>5, <1>6, ScriptNames DEF Deprovisioning, OtherRemovals


\* What the scripts make, call, defer and register.
LEMMA ProfileFields ==
    /\ \A s \in SqlSpecs :
          /\ ProfileOf(s).made = SqlMade /\ ProfileOf(s).calls = TestsOf(s)
          /\ ProfileOf(s).defers = {"SaveLogsAndExecuteTestCleanups"}
          /\ ProfileOf(s).keeps = {"RemoveJpaRegistry"} /\ ProfileOf(s).odd = {}
    /\ \A s \in KafkaSpecs :
          /\ ProfileOf(s).made = KafkaMade(SecurityOf[s])
          /\ ProfileOf(s).calls = {"deployStrimziOperator", KafkaTestOf(s)}
          /\ ProfileOf(s).defers = {"SaveLogsAndExecuteTestCleanups"}
          /\ ProfileOf(s).keeps = {RemoverOf[s]} /\ ProfileOf(s).odd = {}
    /\ LET p == ProfileOf("keycloak")
       IN  /\ p.made = KeycloakMade /\ p.calls = {"securitySql", "securityKafkasql"}
           /\ p.defers = {"RemoveKeycloak"} /\ p.keeps = {} /\ p.odd = {}
    /\ LET p == ProfileOf("SharedKafkaTest")
       IN  /\ p.made = {"sharedKafka"} /\ p.calls = {"deployStrimziOperator"}
           /\ p.defers = {"RemoveSharedKafka"} /\ p.keeps = {} /\ p.odd = {}
    /\ LET p == ProfileOf("ConvertersTestCase")
       IN  /\ p.made = ConvertersMade /\ p.calls = {"deployStrimziOperator"} /\ p.defers = {}
           /\ p.keeps = {"strimziCleanup", "kafkaCleanup", "postgresCleanup", "debeziumCleanup"}
           /\ p.odd = {}
    /\ LET p == ProfileOf("deployStrimziOperator")
       IN  /\ p.made = {"strimzi", "bundleFile"} /\ p.calls = {} /\ p.defers = {} /\ p.keeps = {}
           /\ p.odd = {"returnIfInstalled"}
    /\ LET p == ProfileOf("securitySql")
       IN  /\ p.made = SqlMade /\ p.calls = {} /\ p.defers = {"closureSql"} /\ p.keeps = {}
           /\ p.odd = {"newContext"}
    /\ LET p == ProfileOf("securityKafkasql")
       IN  /\ p.made = KafkaMade("") /\ p.calls = {"deployStrimziOperator"}
           /\ p.defers = {"closureKafkasql"} /\ p.keeps = {} /\ p.odd = {"newContext"}
    /\ \A s \in Plain \cup Deprovisioning :
          /\ ProfileOf(s).made = {} /\ ProfileOf(s).calls = {}
          /\ ProfileOf(s).defers = {"removeBundleFile"} /\ ProfileOf(s).keeps = {}
          /\ ProfileOf(s).odd = {"cleanups", "erase"}
<1>1. ASSUME NEW s \in SqlSpecs
      PROVE  /\ ProfileOf(s).made = SqlMade /\ ProfileOf(s).calls = TestsOf(s)
             /\ ProfileOf(s).defers = {"SaveLogsAndExecuteTestCleanups"}
             /\ ProfileOf(s).keeps = {"RemoveJpaRegistry"} /\ ProfileOf(s).odd = {}
    <2> DEFINE p == SqlProfile(TestsOf(s))
    <2>1. /\ p.made = SqlMade /\ p.calls = TestsOf(s)
          /\ p.defers = {"SaveLogsAndExecuteTestCleanups"}
          /\ p.keeps = {"RemoveJpaRegistry"} /\ p.odd = {}
        BY DEF SqlProfile, Profile
    <2>2. ProfileOf(s) = p BY Profiles
    <2> HIDE DEF p
    <2> QED BY <2>1, <2>2
<1>2. ASSUME NEW s \in KafkaSpecs
      PROVE  /\ ProfileOf(s).made = KafkaMade(SecurityOf[s])
             /\ ProfileOf(s).calls = {"deployStrimziOperator", KafkaTestOf(s)}
             /\ ProfileOf(s).defers = {"SaveLogsAndExecuteTestCleanups"}
             /\ ProfileOf(s).keeps = {RemoverOf[s]} /\ ProfileOf(s).odd = {}
    <2> DEFINE p == KafkaProfile(s)
    <2>1. /\ p.made = KafkaMade(SecurityOf[s]) /\ p.calls = {"deployStrimziOperator", KafkaTestOf(s)}
          /\ p.defers = {"SaveLogsAndExecuteTestCleanups"}
          /\ p.keeps = {RemoverOf[s]} /\ p.odd = {}
        BY DEF KafkaProfile, Profile
    <2>2. ProfileOf(s) = p BY Profiles
    <2> HIDE DEF p
    <2> QED BY <2>1, <2>2
<1>3. LET p == ProfileOf("keycloak")
      IN  /\ p.made = KeycloakMade /\ p.calls = {"securitySql", "securityKafkasql"}
          /\ p.defers = {"RemoveKeycloak"} /\ p.keeps = {} /\ p.odd = {}
    BY Profiles DEF KeycloakProfile, Profile
<1>4. LET p == ProfileOf("SharedKafkaTest")
      IN  /\ p.made = {"sharedKafka"} /\ p.calls = {"deployStrimziOperator"}
          /\ p.defers = {"RemoveSharedKafka"} /\ p.keeps = {} /\ p.odd = {}
    BY Profiles DEF SharedKafkaProfile, Profile
<1>5. LET p == ProfileOf("ConvertersTestCase")
      IN  /\ p.made = ConvertersMade /\ p.calls = {"deployStrimziOperator"} /\ p.defers = {}
          /\ p.keeps = {"strimziCleanup", "kafkaCleanup", "postgresCleanup", "debeziumCleanup"}
          /\ p.odd = {}
    BY Profiles DEF ConvertersProfile, Profile
<1>6. LET p == ProfileOf("deployStrimziOperator")
      IN  /\ p.made = {"strimzi", "bundleFile"} /\ p.calls = {} /\ p.defers = {} /\ p.keeps = {}
          /\ p.odd = {"returnIfInstalled"}
    BY Profiles DEF InstallProfile, Profile
<1>7. LET p == ProfileOf("securitySql")
      IN  /\ p.made = SqlMade /\ p.calls = {} /\ p.defers = {"closureSql"} /\ p.keeps = {}
          /\ p.odd = {"newContext"}
    BY Profiles DEF SecuritySqlProfile, Profile
<1>8. LET p == ProfileOf("securityKafkasql")
      IN  /\ p.made = KafkaMade("") /\ p.calls = {"deployStrimziOperator"}
          /\ p.defers = {"closureKafkasql"} /\ p.keeps = {} /\ p.odd = {"newContext"}
    <2> DEFINE p == SecurityKafkaProfile
    <2>1. /\ p.made = KafkaMade("") /\ p.calls = {"deployStrimziOperator"}
          /\ p.defers = {"closureKafkasql"} /\ p.keeps = {} /\ p.odd = {"newContext"}
        BY DEF SecurityKafkaProfile, Profile
    <2>2. ProfileOf("securityKafkasql") = p BY Profiles
    <2> HIDE DEF p
    <2> QED BY <2>1, <2>2
<1>9. ASSUME NEW s \in Plain \cup Deprovisioning
      PROVE  /\ ProfileOf(s).made = {} /\ ProfileOf(s).calls = {}
             /\ ProfileOf(s).defers = {"removeBundleFile"} /\ ProfileOf(s).keeps = {}
             /\ ProfileOf(s).odd = {"cleanups", "erase"}
    BY Profiles DEF RemovalProfile, Profile
<1> QED BY <1>1, <1>2, <1>3, <1>4, <1>5, <1>6, <1>7, <1>8, <1>9

\* A step of a script, by its kind.
LEMMA StepsOf ==
    ASSUME NEW s \in DOMAIN SuiteBody, NEW x \in Range(SuiteBody[s])
    PROVE  /\ x \in Texts
           /\ x.op \in Makings => x.arg \in ProfileOf(s).made
           /\ x.op = "call" => x.arg \in ProfileOf(s).calls
           /\ x.op = "defer" => x.arg \in ProfileOf(s).defers
           /\ x.op \in {"register", "registerIfDeployed"} => x.arg \in ProfileOf(s).keeps
           /\ x.op \in Oddities => x.op \in ProfileOf(s).odd
BY EveryScript DEF Allowed

\* Who returns early, leaves removals to others, begins a context.
LEMMA ScriptKinds ==
    ASSUME SharedSuite
    PROVE  /\ Scripts = DOMAIN SuiteBody /\ Body = SuiteBody
           /\ \A s \in Scripts \ {"deployStrimziOperator"} : Straight(Body[s])
           /\ \A s \in Scripts : HasOp(Body[s], "newContext") => s \in {"securitySql", "securityKafkasql"}
           /\ \A s \in Scripts : HasOp(Body[s], "cleanups") => s \in Plain \cup Deprovisioning
           /\ Renewers \subseteq {"securitySql", "securityKafkasql"}
           /\ Outer \subseteq {"keycloak"}
<1>1. Scripts = DOMAIN SuiteBody /\ Body = SuiteBody
    BY DEF SharedSuite, SharedNamespace
<1>2. ASSUME NEW s \in DOMAIN SuiteBody
      PROVE  /\ s # "deployStrimziOperator" => "returnIfInstalled" \notin ProfileOf(s).odd
             /\ "newContext" \in ProfileOf(s).odd => s \in {"securitySql", "securityKafkasql"}
             /\ "cleanups" \in ProfileOf(s).odd => s \in Plain \cup Deprovisioning
             /\ s # "keycloak" => /\ "securitySql" \notin ProfileOf(s).calls
                                 /\ "securityKafkasql" \notin ProfileOf(s).calls
    <2>1. CASE s \in SqlSpecs
        <3>1. ProfileOf(s).calls = TestsOf(s) /\ ProfileOf(s).odd = {} BY <2>1, ProfileFields
        <3>2. "securitySql" \notin TestsOf(s) /\ "securityKafkasql" \notin TestsOf(s) BY DEF TestsOf
        <3>3. "securitySql" \notin ProfileOf(s).calls BY <3>1, <3>2
        <3>4. "securityKafkasql" \notin ProfileOf(s).calls BY <3>1, <3>2
        <3>5. "returnIfInstalled" \notin ProfileOf(s).odd BY <3>1
        <3>6. "cleanups" \notin ProfileOf(s).odd BY <3>1
        <3>7. "newContext" \notin ProfileOf(s).odd BY <3>1
        <3> QED BY <3>3, <3>4, <3>5, <3>6, <3>7
    <2>2. CASE s \in KafkaSpecs
        <3>1. /\ ProfileOf(s).calls = {"deployStrimziOperator", KafkaTestOf(s)}
              /\ ProfileOf(s).odd = {}
            BY <2>2, ProfileFields
        <3>2. KafkaTestOf(s) \in {"test", "SharedKafkaTest"} BY DEF KafkaTestOf
        <3> QED BY <3>1, <3>2
    <2>3. CASE s \in Plain \cup Deprovisioning
        <3>1. ProfileOf(s).calls = {} /\ ProfileOf(s).odd = {"cleanups", "erase"}
            BY <2>3, ProfileFields
        <3> QED BY <2>3, <3>1
    <2>4. CASE s \in Provisioning
        <3>1. \/ /\ s \in {"SharedKafkaTest", "ConvertersTestCase", "deployStrimziOperator",
                           "securitySql", "securityKafkasql"}
                 /\ ProfileOf(s).calls \subseteq {"deployStrimziOperator"}
              \/ s = "keycloak"
            BY <2>4, ProfileFields DEF Provisioning
        <3>2. \/ s = "deployStrimziOperator" /\ ProfileOf(s).odd = {"returnIfInstalled"}
              \/ s \in {"securitySql", "securityKafkasql"} /\ ProfileOf(s).odd = {"newContext"}
              \/ ProfileOf(s).odd = {}
            BY <2>4, ProfileFields DEF Provisioning
        <3> QED BY <3>1, <3>2
    <2> QED BY <2>1, <2>2, <2>3, <2>4, ScriptNames
<1>3. {"returnIfInstalled", "newContext", "cleanups"} \subseteq Oddities BY DEF Oddities
<1>4. ASSUME NEW s \in DOMAIN SuiteBody, s # "deployStrimziOperator" PROVE Straight(SuiteBody[s])
    BY <1>2, <1>3, <1>4, StepsOf DEF Straight, HasOp
<1>5. ASSUME NEW s \in DOMAIN SuiteBody, HasOp(SuiteBody[s], "newContext")
      PROVE  s \in {"securitySql", "securityKafkasql"}
    BY <1>2, <1>3, <1>5, StepsOf DEF HasOp
<1>6. ASSUME NEW s \in DOMAIN SuiteBody, HasOp(SuiteBody[s], "cleanups")
      PROVE  s \in Plain \cup Deprovisioning
    BY <1>2, <1>3, <1>6, StepsOf DEF HasOp
<1>7. Renewers \subseteq {"securitySql", "securityKafkasql"}
    BY <1>1, <1>5 DEF Renewers
<1>8. Outer \subseteq {"keycloak"}
    <2> SUFFICES ASSUME NEW s \in Outer PROVE s = "keycloak" OBVIOUS
    <2>1. PICK x \in Range(SuiteBody[s]) : x.op = "call" /\ x.arg \in Renewers
        BY <1>1 DEF Outer, Has
    <2>2. s \in DOMAIN SuiteBody BY <1>1 DEF Outer
    <2>3. x.arg \in ProfileOf(s).calls BY <2>1, <2>2, StepsOf
    <2> QED BY <1>2, <1>7, <2>1, <2>2, <2>3
<1> QED BY <1>1, <1>4, <1>5, <1>6, <1>7, <1>8


LEMMA LeavesNothing ==
    ASSUME SharedSuite
    PROVE  /\ \A o : Leaves(o) \subseteq {"deployStrimziOperator"}
           /\ \A o : "deployStrimziOperator" \in Leaves(o) => o \in {"strimzi", "bundleFile"}
           /\ "deployStrimziOperator" \in Leaves("strimzi")
<1> DEFINE d == "deployStrimziOperator"
<1>1. Scripts = DOMAIN SuiteBody /\ Body = SuiteBody BY ScriptKinds
<1>2. d \in DOMAIN SuiteBody BY ScriptNames DEF Provisioning
<1>3. ASSUME NEW s \in DOMAIN SuiteBody, NEW f, Holding(SuiteBody[s], Step("defer", f))
      PROVE  HasOp(SuiteBody[s], "defer")
    <2>1. Step("defer", f) \in Range(SuiteBody[s]) /\ Step("defer", f).op = "defer"
        BY <1>3 DEF Holding, Step
    <2> QED BY <2>1 DEF HasOp
<1>4. ASSUME NEW s \in DOMAIN SuiteBody, NEW x \in Range(SuiteBody[s]), x.op \in Makings,
             ~HasOp(SuiteBody[s], "defer"), ~HasOp(SuiteBody[s], "register")
      PROVE  s = d
    <2>1. x.arg \in ProfileOf(s).made BY <1>4, StepsOf
    <2>2. s \notin Plain \cup Deprovisioning BY <2>1, ProfileFields
    <2>3. s \notin SqlSpecs \cup KafkaSpecs
        <3>1. s \in SqlSpecs \cup KafkaSpecs =>
                Holding(SuiteBody[s], Step("defer", "SaveLogsAndExecuteTestCleanups"))
            BY SpecsHolding
        <3> QED BY <1>3, <1>4, <3>1
    <2>4. s \notin {"keycloak", "SharedKafkaTest", "securitySql", "securityKafkasql"}
        <3>1. /\ s = "securitySql" => Holding(SuiteBody[s], Step("defer", "closureSql"))
              /\ s = "securityKafkasql" => Holding(SuiteBody[s], Step("defer", "closureKafkasql"))
              /\ s = "keycloak" => Holding(SuiteBody[s], Step("defer", "RemoveKeycloak"))
              /\ s = "SharedKafkaTest" => Holding(SuiteBody[s], Step("defer", "RemoveSharedKafka"))
            BY ClosuresHolding
        <3> QED BY <1>3, <1>4, <3>1
    <2>5. s # "ConvertersTestCase"
        <3>1. Holding(ConvertersTestCase, Step("register", "kafkaCleanup")) BY ConvertersHolding
        <3>2. /\ Step("register", "kafkaCleanup") \in Range(ConvertersTestCase)
              /\ Step("register", "kafkaCleanup").op = "register"
            BY <3>1 DEF Holding, Step
        <3>3. HasOp(ConvertersTestCase, "register") BY <3>2 DEF HasOp
        <3>4. SuiteBody.ConvertersTestCase = ConvertersTestCase BY DEF SuiteBody
        <3> QED BY <1>4, <3>3, <3>4
    <2> QED BY <2>2, <2>3, <2>4, <2>5, ScriptNames DEF Provisioning
<1>5. \A o : Leaves(o) \subseteq {d}
    BY <1>1, <1>4 DEF Leaves
<1>6. ASSUME NEW o, d \in Leaves(o) PROVE o \in {"strimzi", "bundleFile"}
    <2>1. PICK x \in Range(SuiteBody[d]) : x.op \in Makings /\ x.arg = o
        BY <1>1, <1>6 DEF Leaves
    <2>2. x.arg \in ProfileOf(d).made BY <1>2, <2>1, StepsOf
    <2> QED BY <2>1, <2>2, ProfileFields
<1>7. d \in Leaves("strimzi")
    <2>1. ProfileOf(d).defers = {} /\ ProfileOf(d).keeps = {} BY ProfileFields
    <2>2. ~HasOp(SuiteBody[d], "defer") /\ ~HasOp(SuiteBody[d], "register")
        BY <1>2, <2>1, StepsOf DEF HasOp
    <2> DEFINE a == <<Step("returnIfInstalled", "strimzi")>>
               b == Apply("bundleFile")
               c == <<Step("deleteQuietly", "strimzi"), Step("finalize", "strimzi")>>
               e == Create("strimzi")
               f == Await("strimzi")
               g == Bare("installed")
    <2>3. Holding(e, Step("create", "strimzi"))
        BY HoldingPieces DEF Names
    <2>4. /\ a \in Seq(Texts) /\ b \in Seq(Texts) /\ c \in Seq(Texts) /\ f \in Seq(Texts)
          /\ g \in Seq(Texts)
        <3>1. /\ Step("returnIfInstalled", "strimzi") \in Texts /\ Step("apply", "bundleFile") \in Texts
              /\ Step("deleteQuietly", "strimzi") \in Texts /\ Step("finalize", "strimzi") \in Texts
              /\ Step("await", "strimzi") \in Texts /\ Step("installed", "-") \in Texts
            BY OpNames DEF Step, Texts, Names
        <3> QED BY <3>1 DEF Apply, Await, Bare
    <2>5. SuiteBody.deployStrimziOperator = a \o b \o c \o e \o f \o g
        BY DEF SuiteBody, deployStrimziOperator
    <2> HIDE DEF a, b, c, e, f, g
    <2>6. e \in Seq(Texts) BY <2>3 DEF Holding
    <2>7. /\ a \o b \in Seq(Texts) /\ a \o b \o c \in Seq(Texts) /\ a \o b \o c \o e \in Seq(Texts)
          /\ a \o b \o c \o e \o f \in Seq(Texts)
        BY <2>4, <2>6, TextsConcat
    <2>8. Holding(a \o b \o c \o e, Step("create", "strimzi"))
        BY <2>3, <2>6, <2>7, HoldingConcat
    <2>9. Holding(a \o b \o c \o e \o f, Step("create", "strimzi"))
        BY <2>4, <2>7, <2>8, HoldingConcat
    <2>10. Holding(a \o b \o c \o e \o f \o g, Step("create", "strimzi"))
        BY <2>4, <2>7, <2>9, HoldingConcat
    <2>11. /\ Step("create", "strimzi") \in Range(SuiteBody[d])
           /\ Step("create", "strimzi").op \in Makings /\ Step("create", "strimzi").arg = "strimzi"
        <3>1. Step("create", "strimzi") \in Range(SuiteBody[d])
            BY <2>5, <2>10 DEF Holding
        <3> QED BY <3>1 DEF Step, Makings
    <2> QED BY <1>1, <1>2, <2>2, <2>11 DEF Leaves
<1> QED BY <1>5, <1>6, <1>7

\* What the removals take away.
RemovedBy(s) ==
    CASE s \in SqlRemovals -> SqlMade
      [] s \in KafkaRemovals -> KafkaMade(SecurityOf[s]) \cup {"strimzi"}
      [] s = "strimziCleanup" -> {"strimzi"}
      [] s = "kafkaCleanup" -> {"debeziumKafka"}
      [] s = "postgresCleanup" -> {"debeziumPvc", "debeziumDatabase", "debeziumDbService"}
      [] s = "debeziumCleanup" -> {"debezium", "debeziumService", "debeziumIngress"}
      [] s = "RemoveKeycloak" -> KeycloakMade
      [] OTHER -> {}

LEMMA RemovedNames ==
    /\ \A s \in SqlRemovals : RemovedBy(s) = SqlMade
    /\ \A s \in KafkaRemovals : RemovedBy(s) = KafkaMade(SecurityOf[s]) \cup {"strimzi"}
    /\ RemovedBy("strimziCleanup") = {"strimzi"}
    /\ RemovedBy("kafkaCleanup") = {"debeziumKafka"}
    /\ RemovedBy("postgresCleanup") = {"debeziumPvc", "debeziumDatabase", "debeziumDbService"}
    /\ RemovedBy("debeziumCleanup") = {"debezium", "debeziumService", "debeziumIngress"}
    /\ RemovedBy("RemoveKeycloak") = KeycloakMade
    /\ RemovedBy("RemoveSharedKafka") = {}
<1>1. \A s \in SqlRemovals : RemovedBy(s) = SqlMade
    <2>1. \A s \in SqlRemovals : s \notin KafkaRemovals \cup OtherRemovals
        BY DEF SqlRemovals, KafkaRemovals, OtherRemovals
    <2> QED BY <2>1 DEF RemovedBy, OtherRemovals
<1>2. \A s \in KafkaRemovals : RemovedBy(s) = KafkaMade(SecurityOf[s]) \cup {"strimzi"}
    <2>1. \A s \in KafkaRemovals : s \notin SqlRemovals \cup OtherRemovals
        BY DEF SqlRemovals, KafkaRemovals, OtherRemovals
    <2> QED BY <2>1 DEF RemovedBy, OtherRemovals
<1>3. \A s \in OtherRemovals : s \notin SqlRemovals \cup KafkaRemovals
    BY DEF SqlRemovals, KafkaRemovals, OtherRemovals
<1> QED BY <1>1, <1>2, <1>3 DEF RemovedBy, OtherRemovals

LEMMA RemovalsEnd ==
    ASSUME NEW s \in Deprovisioning, NEW o \in RemovedBy(s)
    PROVE  Ending(SuiteBody[s], o)
<1>1. SaveLogs \in Seq(Texts)
    BY OpNames, HoldingStep DEF SaveLogs, Bare, Holding
<1>2. CASE s \in SqlRemovals
    <2>1. SqlRegistry \in Regs /\ SqlDb \in Dbs /\ o \in {SqlDb.pvc, SqlDb.dep, SqlDb.svc, SqlRegistry.cr}
        BY <1>2, RemovedNames DEF Regs, Dbs, SqlMade, SqlDb, SqlRegistry
    <2> DEFINE r == RemoveJpaRegistry(SqlRegistry, SqlDb)
    <2>2. Ending(r, o) BY <2>1, DatabaseEnding
    <2>3. SuiteBody.RemoveJpaRegistry = r /\ SuiteBody.closureSql = SaveLogs \o r
        BY DEF SuiteBody, SaveLogsAndRemove
    <2> HIDE DEF r
    <2>4. r \in Seq(Texts) BY <2>2 DEF Ending
    <2>5. Ending(SaveLogs \o r, o) BY <1>1, <2>2, <2>4, EndingConcat
    <2> QED BY <1>2, <2>2, <2>3, <2>5 DEF SqlRemovals
<1>3. CASE s \in KafkaRemovals
    <2> DEFINE r(security) == RemoveKafkaSqlRegistry(security)
    <2>0. o \in KafkaMade(SecurityOf[s]) \cup {"strimzi"} BY <1>3, RemovedNames
    <2>1. SecurityOf[s] \in Securities
        <3>1. /\ SecurityOf["RemoveKafkaSqlRegistry"] = "" /\ SecurityOf["RemoveScram"] = "scram"
              /\ SecurityOf["RemoveTls"] = "tls" /\ SecurityOf["closureKafkasql"] = ""
            BY DEF SecurityOf
        <3> QED BY <1>3, <3>1 DEF KafkaRemovals, Securities
    <2>2. Ending(r(SecurityOf[s]), o) BY <2>0, <2>1, KafkaEnding
    <2>3. /\ SuiteBody.RemoveKafkaSqlRegistry = r("") /\ SuiteBody.RemoveScram = r("scram")
          /\ SuiteBody.RemoveTls = r("tls") /\ SuiteBody.closureKafkasql = SaveLogs \o r("")
        BY DEF SuiteBody, SaveLogsAndRemove
    <2>4. /\ SecurityOf["RemoveKafkaSqlRegistry"] = "" /\ SecurityOf["RemoveScram"] = "scram"
          /\ SecurityOf["RemoveTls"] = "tls" /\ SecurityOf["closureKafkasql"] = ""
        BY DEF SecurityOf
    <2> HIDE DEF r
    <2>5. r(SecurityOf[s]) \in Seq(Texts) BY <2>2 DEF Ending
    <2>6. Ending(SaveLogs \o r(SecurityOf[s]), o) BY <1>1, <2>2, <2>5, EndingConcat
    <2> QED BY <1>3, <2>2, <2>3, <2>4, <2>6 DEF KafkaRemovals
<1>4. CASE s = "strimziCleanup"
    BY <1>4, RemovedNames, StrimziEnding DEF SuiteBody
<1>5. CASE s = "kafkaCleanup"
    <2>1. DebeziumKafka \in Clusters /\ "" \in Securities /\ DebeziumKafka.cr = "debeziumKafka"
        BY DEF Clusters, Securities, DebeziumKafka
    <2>2. Ending(RemoveKafkaCluster(DebeziumKafka, ""), "debeziumKafka") BY <2>1, ClusterEnding
    <2> QED BY <1>5, <2>2, RemovedNames DEF SuiteBody
<1>6. CASE s = "postgresCleanup"
    <2>1. /\ DebeziumDb \in Dbs /\ SqlRegistry \in Regs
          /\ o \in {DebeziumDb.pvc, DebeziumDb.dep, DebeziumDb.svc}
        BY <1>6, RemovedNames DEF Dbs, Regs, DebeziumDb
    <2>2. Ending(RemovePostgresqlDatabase(DebeziumDb), o) BY <2>1, DatabaseEnding
    <2> QED BY <1>6, <2>2 DEF SuiteBody
<1>7. CASE s = "debeziumCleanup"
    <2>1. Ending(debeziumCleanup, o) BY <1>7, RemovedNames, OtherEnding
    <2> QED BY <1>7, <2>1 DEF SuiteBody
<1>8. CASE s = "RemoveKeycloak"
    <2>1. Ending(RemoveKeycloak, o) BY <1>8, RemovedNames, OtherEnding
    <2> QED BY <1>8, <2>1 DEF SuiteBody
<1>9. CASE s = "RemoveSharedKafka"
    BY <1>9, RemovedNames
<1> QED
    BY <1>2, <1>3, <1>4, <1>5, <1>6, <1>7, <1>8, <1>9 DEF Deprovisioning, OtherRemovals

LEMMA RemovalsTake ==
    ASSUME SharedSuite, NEW s \in Deprovisioning, NEW o \in RemovedBy(s), o # "none"
    PROVE  s \in Takers(o) /\ s \in Removers(o)
<1>1. Scripts = DOMAIN SuiteBody /\ Body = SuiteBody /\ Straight(Body[s]) /\ s \in DOMAIN SuiteBody
    <2>1. s \in DOMAIN SuiteBody /\ s # "deployStrimziOperator"
        BY ScriptNames DEF Deprovisioning, SqlRemovals, KafkaRemovals, OtherRemovals
    <2> QED BY <2>1, ScriptKinds
<1>2. ~MakesSome(Body[s], o)
    <2>1. ProfileOf(s).made = {} /\ ProfileOf(s).calls = {} BY ProfileFields
    <2> QED BY <1>1, <2>1, StepsOf DEF MakesSome, Makes
<1>3. PICK x \in Range(Body[s]) : x.op \in Endings /\ x.arg = o
    BY <1>1, RemovalsEnd DEF Ending
<1>4. o \notin Namespaces BY SharedConstants
<1>5. Ends(x, o) BY <1>3, <1>4 DEF Ends, Endings
<1>6. s \in Takers(o) BY <1>1, <1>2, <1>3, <1>5 DEF Takers
<1> QED BY <1>6 DEF Removers


LEMMA SuiteFlushers ==
    ASSUME SharedSuite
    PROVE  /\ "SaveLogsAndExecuteTestCleanups" \in Flushers
           /\ \A s \in SqlSpecs \cup KafkaSpecs : Flushes(NewFrame(Body[s]))
           /\ Borrowers \subseteq {"ConvertersTestCase"}
           /\ "ConvertersTestCase" \in Borrowers \/ Flushes(NewFrame(Body["ConvertersTestCase"]))
           /\ \A s \in Deprovisioning : RemovedBy(s) # {} => s \notin Flushers
<1>0. Scripts = DOMAIN SuiteBody /\ Body = SuiteBody BY ScriptKinds
<1>1. "SaveLogsAndExecuteTestCleanups" \in Flushers
    <2>1. "SaveLogsAndExecuteTestCleanups" \in DOMAIN SuiteBody BY ScriptNames DEF Plain
    <2> QED BY <1>0, <2>1, CleanupsFlush DEF Flushers
<1>2. ASSUME NEW s \in SqlSpecs \cup KafkaSpecs PROVE Flushes(NewFrame(Body[s]))
    <2>1. s \in DOMAIN SuiteBody /\ s # "deployStrimziOperator"
        BY ScriptNames DEF SqlSpecs, KafkaSpecs
    <2>2. Straight(Body[s]) BY <1>0, <2>1, ScriptKinds
    <2> DEFINE x == Step("defer", "SaveLogsAndExecuteTestCleanups")
    <2>3. x.op = "defer" /\ x.arg = "SaveLogsAndExecuteTestCleanups" BY DEF Step
    <2>4. x \in Range(Body[s]) BY <1>0, SpecsHolding DEF Holding
    <2> HIDE DEF x
    <2>5. Has(Body[s], "defer", Flushers) BY <1>1, <2>3, <2>4 DEF Has
    <2> QED BY <2>2, <2>5 DEF Flushes, NewFrame
<1>3. ASSUME NEW s \in Borrowers PROVE s = "ConvertersTestCase"
    <2>1. s \in DOMAIN SuiteBody BY <1>0 DEF Borrowers
    <2>2. PICK x \in Range(SuiteBody[s]) : x.op \in {"register", "registerIfDeployed"}
        BY <1>0 DEF Borrowers, HasOp
    <2>3. x.arg \in ProfileOf(s).keeps BY <2>1, <2>2, StepsOf
    <2>4. s \notin SqlSpecs \cup KafkaSpecs BY <1>2 DEF Borrowers
    <2>5. s \notin Plain \cup Deprovisioning BY <2>3, ProfileFields
    <2>6. s \in Provisioning BY <2>1, <2>4, <2>5, ScriptNames
    <2> QED BY <2>3, <2>6, ProfileFields DEF Provisioning
<1>4. "ConvertersTestCase" \in Borrowers \/ Flushes(NewFrame(Body["ConvertersTestCase"]))
    <2>1. "ConvertersTestCase" \in DOMAIN SuiteBody BY ScriptNames DEF Provisioning
    <2>2. Holding(ConvertersTestCase, Step("register", "kafkaCleanup")) BY ConvertersHolding
    <2>3. SuiteBody.ConvertersTestCase = ConvertersTestCase BY DEF SuiteBody
    <2>4. /\ Step("register", "kafkaCleanup") \in Range(ConvertersTestCase)
          /\ Step("register", "kafkaCleanup").op = "register"
        BY <2>2 DEF Holding, Step
    <2>5. HasOp(ConvertersTestCase, "register") BY <2>4 DEF HasOp
    <2> QED BY <1>0, <2>1, <2>3, <2>5 DEF Borrowers
<1>5. ASSUME NEW s \in Deprovisioning, RemovedBy(s) # {} PROVE s \notin Flushers
    <2>1. PICK o : o \in RemovedBy(s) BY <1>5
    <2>2. PICK x \in Range(SuiteBody[s]) : x.op \in Endings BY <2>1, RemovalsEnd DEF Ending
    <2>3. x.op \notin {"saveLogs", "cleanups"} BY <2>2 DEF Endings, Removals
    <2> QED BY <1>0, <2>2, <2>3 DEF Flushers, Flushing
<1> QED BY <1>1, <1>2, <1>3, <1>4, <1>5

\* A spec registers, and a function defers, what takes away all that it makes.
LEMMA MakersAndRemovers ==
    /\ \A s \in KafkaSpecs : /\ RemoverOf[s] \in KafkaRemovals
                             /\ SecurityOf[RemoverOf[s]] = SecurityOf[s]
                             /\ SecurityOf[s] \in Securities
    /\ "closureKafkasql" \in KafkaRemovals /\ SecurityOf["closureKafkasql"] = ""
    /\ \A security \in Securities : KafkaMade(security) \subseteq AllMade
<1>1. /\ RemoverOf["storageKafkasql"] = "RemoveKafkaSqlRegistry"
      /\ RemoverOf["clusteredKafkasql"] = "RemoveKafkaSqlRegistry"
      /\ RemoverOf["kafkasqlSharedkafka"] = "RemoveKafkaSqlRegistry"
      /\ RemoverOf["clusteredSharedkafka"] = "RemoveKafkaSqlRegistry"
      /\ RemoverOf["scram"] = "RemoveScram" /\ RemoverOf["tls"] = "RemoveTls"
    BY DEF RemoverOf
<1>2. /\ SecurityOf["storageKafkasql"] = "" /\ SecurityOf["clusteredKafkasql"] = ""
      /\ SecurityOf["kafkasqlSharedkafka"] = "" /\ SecurityOf["clusteredSharedkafka"] = ""
      /\ SecurityOf["scram"] = "scram" /\ SecurityOf["tls"] = "tls"
      /\ SecurityOf["RemoveKafkaSqlRegistry"] = "" /\ SecurityOf["RemoveScram"] = "scram"
      /\ SecurityOf["RemoveTls"] = "tls" /\ SecurityOf["closureKafkasql"] = ""
    BY DEF SecurityOf
<1>3. ASSUME NEW s \in KafkaSpecs
      PROVE  /\ RemoverOf[s] \in KafkaRemovals /\ SecurityOf[RemoverOf[s]] = SecurityOf[s]
             /\ SecurityOf[s] \in Securities
    BY <1>1, <1>2 DEF KafkaSpecs, KafkaRemovals, Securities
<1>4. ASSUME NEW security \in Securities PROVE KafkaMade(security) \subseteq AllMade
    <2>1. CASE security = "" BY <2>1 DEF KafkaMade, AllMade
    <2>2. CASE security = "scram" BY <2>2 DEF KafkaMade, AllMade
    <2>3. CASE security = "tls" BY <2>3 DEF KafkaMade, AllMade
    <2> QED BY <2>1, <2>2, <2>3 DEF Securities
<1> QED BY <1>2, <1>3, <1>4 DEF KafkaRemovals

LEMMA MadeNames ==
    ASSUME NEW s \in DOMAIN SuiteBody
    PROVE  ProfileOf(s).made \subseteq AllMade
<1>1. CASE s \in SqlSpecs BY <1>1, ProfileFields DEF AllMade
<1>2. CASE s \in KafkaSpecs
    <2>1. ProfileOf(s).made = KafkaMade(SecurityOf[s]) BY <1>2, ProfileFields
    <2> QED BY <1>2, <2>1, MakersAndRemovers
<1>3. CASE s \in Plain \cup Deprovisioning BY <1>3, ProfileFields
<1>4. CASE s \in Provisioning
    <2>1. KafkaMade("") \subseteq AllMade BY MakersAndRemovers DEF Securities
    <2>2. /\ SqlMade \subseteq AllMade /\ ConvertersMade \subseteq AllMade /\ KeycloakMade \subseteq AllMade
          /\ {"strimzi", "bundleFile"} \subseteq AllMade /\ {"sharedKafka"} \subseteq AllMade
        BY DEF AllMade
    <2>3. \/ ProfileOf(s).made = SqlMade \/ ProfileOf(s).made = ConvertersMade
          \/ ProfileOf(s).made = KeycloakMade \/ ProfileOf(s).made = KafkaMade("")
          \/ ProfileOf(s).made = {"strimzi", "bundleFile"} \/ ProfileOf(s).made = {"sharedKafka"}
        BY <1>4, ProfileFields DEF Provisioning
    <2> QED BY <2>1, <2>2, <2>3
<1> QED BY <1>1, <1>2, <1>3, <1>4, ScriptNames


----------------------------------------------------------------------------
(* Every one of these scripts sees to the removal of what it makes. *)

LEMMA Deferred ==
    ASSUME SharedSuite, NEW s \in DOMAIN SuiteBody, NEW f, NEW o, s # "deployStrimziOperator",
           Holding(SuiteBody[s], Step("defer", f)), f \in Removers(o)
    PROVE  SeesTo(s, o)
<1> DEFINE x == Step("defer", f)
<1>1. x.op = "defer" /\ x.arg = f BY DEF Step
<1>2. x \in Range(Body[s]) BY ScriptKinds DEF Holding
<1> HIDE DEF x
<1>3. Has(Body[s], "defer", Removers(o)) BY <1>1, <1>2 DEF Has
<1>4. Straight(Body[s]) BY ScriptKinds
<1> QED BY <1>3, <1>4 DEF SeesTo, Own, NewFrame

LEMMA Registered ==
    ASSUME SharedSuite, NEW s \in DOMAIN SuiteBody, NEW f, NEW o, s # "deployStrimziOperator",
           Holding(SuiteBody[s], Step("register", f)), f \in Removers(o),
           s \in Borrowers \/ Flushes(NewFrame(Body[s]))
    PROVE  SeesTo(s, o)
<1> DEFINE x == Step("register", f)
<1>1. x.op = "register" /\ x.arg = f BY DEF Step
<1>2. x \in Range(Body[s]) BY ScriptKinds DEF Holding
<1> HIDE DEF x
<1>3. Has(Body[s], "register", Removers(o)) BY <1>1, <1>2 DEF Has
<1>4. Straight(Body[s]) BY ScriptKinds
<1> QED BY <1>3, <1>4 DEF SeesTo, Registers

LEMMA SharedMakersSeeTo ==
    ASSUME SharedSuite
    PROVE  MakersSeeTo
<1> SUFFICES ASSUME NEW s \in InUse, NEW o \in Roots, MakesSome(Body[s], o), s \notin Leaves(o)
             PROVE  SeesTo(s, o)
    BY DEF MakersSeeTo
<1>0. /\ Scripts = DOMAIN SuiteBody /\ Body = SuiteBody /\ s \in DOMAIN SuiteBody
      /\ s \notin {"sqlSharedkafka", "kafkasqlSharedkafka", "clusteredSharedkafka", "SharedKafkaTest"}
    BY ScriptKinds DEF SharedSuite, Abandoned, SharedClusterSpecs
<1>1. o # "none" /\ o # "bundleFile" BY SharedConstants
<1>2. PICK x \in Range(SuiteBody[s]) : Makes(x, o) BY <1>0 DEF MakesSome
<1>3. \/ o \in ProfileOf(s).made
      \/ o = "strimzi" /\ "deployStrimziOperator" \in ProfileOf(s).calls
    BY <1>0, <1>1, <1>2, StepsOf, LeavesNothing DEF Makes
<1>4. CASE s \in SqlSpecs
    <2>1. o \in SqlMade
        <3>1. ProfileOf(s).made = SqlMade /\ ProfileOf(s).calls = TestsOf(s) BY <1>4, ProfileFields
        <3>2. "deployStrimziOperator" \notin TestsOf(s) BY DEF TestsOf
        <3> QED BY <1>3, <3>1, <3>2
    <2>2. "RemoveJpaRegistry" \in SqlRemovals /\ "RemoveJpaRegistry" \in Deprovisioning
        BY DEF SqlRemovals, Deprovisioning
    <2>3. "RemoveJpaRegistry" \in Removers(o)
        BY <1>1, <2>1, <2>2, RemovedNames, RemovalsTake
    <2>4. s # "deployStrimziOperator" BY <1>4 DEF SqlSpecs
    <2> QED BY <1>0, <1>4, <2>3, <2>4, SpecsHolding, SuiteFlushers, Registered
<1>5. CASE s \in KafkaSpecs
    <2>1. o \in KafkaMade(SecurityOf[s]) \cup {"strimzi"}
        <3>1. ProfileOf(s).made = KafkaMade(SecurityOf[s]) BY <1>5, ProfileFields
        <3> QED BY <1>3, <3>1
    <2>2. /\ RemoverOf[s] \in KafkaRemovals /\ SecurityOf[RemoverOf[s]] = SecurityOf[s]
          /\ RemoverOf[s] \in Deprovisioning
        BY <1>5, MakersAndRemovers DEF Deprovisioning
    <2>3. RemovedBy(RemoverOf[s]) = KafkaMade(SecurityOf[s]) \cup {"strimzi"}
        BY <2>2, RemovedNames
    <2>4. RemoverOf[s] \in Removers(o) BY <1>1, <2>1, <2>2, <2>3, RemovalsTake
    <2>5. s # "deployStrimziOperator" BY <1>5 DEF KafkaSpecs
    <2>6. Holding(SuiteBody[s], Step("register", RemoverOf[s])) BY <1>5, SpecsHolding
    <2> QED BY <1>0, <1>5, <2>4, <2>5, <2>6, SuiteFlushers, Registered
<1>6. CASE s \in Plain \cup Deprovisioning
    BY <1>3, <1>6, ProfileFields
<1>7. CASE s = "keycloak"
    <2>1. o \in KeycloakMade BY <1>3, <1>7, ProfileFields
    <2>2. "RemoveKeycloak" \in Deprovisioning BY DEF Deprovisioning, OtherRemovals
    <2>3. "RemoveKeycloak" \in Removers(o) BY <1>1, <2>1, <2>2, RemovedNames, RemovalsTake
    <2> QED BY <1>0, <1>7, <2>3, ClosuresHolding, Deferred
<1>8. CASE s = "securitySql"
    <2>1. o \in SqlMade BY <1>3, <1>8, ProfileFields
    <2>2. "closureSql" \in SqlRemovals /\ "closureSql" \in Deprovisioning
        BY DEF SqlRemovals, Deprovisioning
    <2>3. "closureSql" \in Removers(o) BY <1>1, <2>1, <2>2, RemovedNames, RemovalsTake
    <2> QED BY <1>0, <1>8, <2>3, ClosuresHolding, Deferred
<1>9. CASE s = "securityKafkasql"
    <2>1. o \in KafkaMade("") \cup {"strimzi"}
        <3>1. ProfileOf(s).made = KafkaMade("") BY <1>9, ProfileFields
        <3> QED BY <1>3, <3>1
    <2>2. "closureKafkasql" \in Deprovisioning
        BY MakersAndRemovers DEF Deprovisioning
    <2>3. RemovedBy("closureKafkasql") = KafkaMade("") \cup {"strimzi"}
        BY MakersAndRemovers, RemovedNames
    <2>4. "closureKafkasql" \in Removers(o) BY <1>1, <2>1, <2>2, <2>3, RemovalsTake
    <2> QED BY <1>0, <1>9, <2>4, ClosuresHolding, Deferred
<1>10. CASE s = "ConvertersTestCase"
    <2>0. {"kafkaCleanup", "postgresCleanup", "debeziumCleanup", "strimziCleanup"} \subseteq Deprovisioning
        BY DEF Deprovisioning, OtherRemovals
    <2>1. s \in Borrowers \/ Flushes(NewFrame(Body[s])) BY <1>10, SuiteFlushers
    <2>2. SuiteBody.ConvertersTestCase = ConvertersTestCase BY DEF SuiteBody
    <2>3. CASE o \in ConvertersMade
        <3>1. PICK f \in {"kafkaCleanup", "postgresCleanup", "debeziumCleanup"} : o \in RemovedBy(f)
            BY <2>3, RemovedNames DEF ConvertersMade
        <3>2. f \in Removers(o) BY <1>1, <2>0, <3>1, RemovalsTake
        <3>3. Holding(SuiteBody[s], Step("register", f)) BY <1>10, <2>2, <3>1, ConvertersHolding
        <3> QED BY <1>0, <1>10, <2>1, <3>2, <3>3, Registered
    <2>4. CASE o = "strimzi"
        <3>1. "strimziCleanup" \in Removers("strimzi")
            BY <1>1, <2>0, <2>4, RemovedNames, RemovalsTake
        <3>2. SuiteBody.deployStrimziOperator = deployStrimziOperator BY DEF SuiteBody
        <3>3. "deployStrimziOperator" \in Installers("strimzi")
            BY <1>0, <3>2, InstallsOnce, LeavesNothing DEF Installers
        <3>4. "strimzi" \notin MakerSet
            <4>1. ASSUME NEW q \in Roots PROVE Maker[q] # "strimzi"
                <5>1. CASE Maker[q] = None BY <5>1, SharedConstants
                <5>2. CASE Maker[q] # None BY <5>2, MakerCases
                <5> QED BY <5>1, <5>2
            <4> QED BY <4>1 DEF MakerSet
        <3>5. Lends(ConvertersTestCase, "strimzi")
            BY <3>1, <3>3, <3>4, LeavesNothing, ConvertersLend
        <3> QED BY <1>0, <1>10, <2>1, <2>2, <2>4, <3>5 DEF SeesTo
    <2>5. o \in ConvertersMade \/ o = "strimzi"
        BY <1>3, <1>10, ProfileFields
    <2> QED BY <2>3, <2>4, <2>5
<1>11. CASE s = "deployStrimziOperator"
    <2>1. o = "strimzi" BY <1>1, <1>3, <1>11, ProfileFields
    <2> QED BY <1>11, <2>1, LeavesNothing
<1> QED
    BY <1>0, <1>4, <1>5, <1>6, <1>7, <1>8, <1>9, <1>10, <1>11, ScriptNames DEF Provisioning


\* What may be deferred or registered: the scripts that remove.
LEMMA RemovalsAreSafe ==
    ASSUME SharedSuite
    PROVE  Plain \cup Deprovisioning \subseteq Safe
<1> SUFFICES ASSUME NEW s \in Plain \cup Deprovisioning PROVE s \in Safe
    OBVIOUS
<1>1. Scripts = DOMAIN SuiteBody /\ Body = SuiteBody /\ s \in DOMAIN SuiteBody
    BY ScriptKinds, ScriptNames
<1>2. /\ s \notin Provisioning /\ s \notin Abandoned
      /\ s \notin {"keycloak", "deployStrimziOperator", "securitySql", "securityKafkasql",
                   "ConvertersTestCase"}
    BY DEF Plain, Deprovisioning, SqlRemovals, KafkaRemovals, OtherRemovals, Provisioning, Abandoned,
           SharedClusterSpecs
<1>3. s \in InUse BY <1>1, <1>2 DEF SharedSuite
<1>4. s \notin Borrowers \cup Renewers \cup Outer
    BY <1>2, SuiteFlushers, ScriptKinds
<1>5. \A o \in Roots : s \notin Leaves(o) BY <1>2, LeavesNothing
<1> QED BY <1>3, <1>4, <1>5 DEF Safe

LEMMA SharedStepsAreSafe ==
    ASSUME SharedSuite
    PROVE  StepsAreSafe
<1> SUFFICES ASSUME NEW s \in InUse, NEW x \in Range(Body[s]) PROVE IsSafe(x)
    BY DEF StepsAreSafe
<1>0. /\ Scripts = DOMAIN SuiteBody /\ Body = SuiteBody /\ s \in DOMAIN SuiteBody
      /\ s \notin {"sqlSharedkafka", "kafkasqlSharedkafka", "clusteredSharedkafka", "SharedKafkaTest"}
      /\ InUse = DOMAIN SuiteBody \ Abandoned
    BY ScriptKinds DEF SharedSuite, Abandoned, SharedClusterSpecs
<1>1. x \in Range(SuiteBody[s]) BY <1>0
<1>2. /\ x.op = "defer" => x.arg \in ProfileOf(s).defers
      /\ x.op \in {"register", "registerIfDeployed"} => x.arg \in ProfileOf(s).keeps
      /\ x.op = "call" => x.arg \in ProfileOf(s).calls
      /\ x.op \in Makings => x.arg \in ProfileOf(s).made
      /\ x \in Texts
    BY <1>0, <1>1, StepsOf
<1>3. /\ ProfileOf(s).defers \subseteq Plain \cup Deprovisioning
      /\ ProfileOf(s).keeps \subseteq Plain \cup Deprovisioning
      /\ ProfileOf(s).calls \subseteq InUse \ {"keycloak"}
    <2>1. /\ {"SaveLogsAndExecuteTestCleanups", "removeBundleFile", "test"} \subseteq Plain
          /\ {"RemoveJpaRegistry", "closureSql", "closureKafkasql", "RemoveKeycloak", "strimziCleanup",
              "kafkaCleanup", "postgresCleanup", "debeziumCleanup"} \subseteq Deprovisioning
        BY DEF Plain, Deprovisioning, SqlRemovals, KafkaRemovals, OtherRemovals
    <2>2. {"test", "ConvertersTestCase", "deployStrimziOperator", "securitySql",
           "securityKafkasql"} \subseteq InUse \ {"keycloak"}
        BY <1>0, ScriptNames DEF Plain, Provisioning, Abandoned,
               SharedClusterSpecs
    <2>3. CASE s \in SqlSpecs
        <3>1. /\ ProfileOf(s).calls = TestsOf(s) /\ ProfileOf(s).keeps = {"RemoveJpaRegistry"}
              /\ ProfileOf(s).defers = {"SaveLogsAndExecuteTestCleanups"}
            BY <2>3, ProfileFields
        <3>2. TestsOf(s) = {"test", "ConvertersTestCase"} BY <1>0 DEF TestsOf
        <3> QED BY <2>1, <2>2, <3>1, <3>2
    <2>4. CASE s \in KafkaSpecs
        <3>1. /\ ProfileOf(s).calls = {"deployStrimziOperator", KafkaTestOf(s)}
              /\ ProfileOf(s).keeps = {RemoverOf[s]}
              /\ ProfileOf(s).defers = {"SaveLogsAndExecuteTestCleanups"}
            BY <2>4, ProfileFields
        <3>2. RemoverOf[s] \in Deprovisioning BY <2>4, MakersAndRemovers DEF Deprovisioning
        <3>3. KafkaTestOf(s) = "test" BY <1>0 DEF KafkaTestOf, SharedClusterSpecs
        <3> QED BY <2>1, <2>2, <3>1, <3>2, <3>3
    <2>5. CASE s \in Plain \cup Deprovisioning
        <3>1. /\ ProfileOf(s).calls = {} /\ ProfileOf(s).keeps = {}
              /\ ProfileOf(s).defers = {"removeBundleFile"}
            BY <2>5, ProfileFields
        <3> QED BY <2>1, <3>1
    <2>6. CASE s \in {"keycloak", "ConvertersTestCase", "deployStrimziOperator", "securitySql",
                      "securityKafkasql"}
        <3>1. ProfileOf(s).defers \subseteq {"RemoveKeycloak", "closureSql", "closureKafkasql"}
            BY <2>6, ProfileFields
        <3>2. ProfileOf(s).keeps \subseteq
                  {"strimziCleanup", "kafkaCleanup", "postgresCleanup", "debeziumCleanup"}
            BY <2>6, ProfileFields
        <3>3. ProfileOf(s).calls \subseteq {"deployStrimziOperator", "securitySql", "securityKafkasql"}
            BY <2>6, ProfileFields
        <3> QED BY <2>1, <2>2, <3>1, <3>2, <3>3
    <2> QED BY <1>0, <2>3, <2>4, <2>5, <2>6, ScriptNames DEF Provisioning
<1>4. x.op \in {"defer", "register", "registerIfDeployed"} => x.arg \in Safe
    BY <1>2, <1>3, RemovalsAreSafe
<1>5. x.op = "call" => x.arg \in InUse \ Outer
    BY <1>2, <1>3, ScriptKinds
<1>6. x.arg \notin Namespaces
    <2>1. "none" \notin Names BY DEF Names
    <2>2. x.arg \in Names BY <1>2 DEF Texts
    <2> QED BY <2>1, <2>2, SharedConstants
<1>7. x.op \in Makings => Maker[x.arg] = None
    <2>1. ProfileOf(s).made \subseteq AllMade BY <1>0, MadeNames
    <2> QED BY <1>2, <2>1, SharedConstants
<1> QED BY <1>4, <1>5, <1>6, <1>7 DEF IsSafe

LEMMA SharedCallersFlush ==
    ASSUME SharedSuite
    PROVE  CallersFlush
<1> SUFFICES ASSUME NEW s \in InUse, Has(Body[s], "call", Borrowers) PROVE Flushes(NewFrame(Body[s]))
    BY DEF CallersFlush
<1>0. Scripts = DOMAIN SuiteBody /\ Body = SuiteBody /\ s \in DOMAIN SuiteBody
    BY ScriptKinds DEF SharedSuite
<1>1. PICK x \in Range(SuiteBody[s]) : x.op = "call" /\ x.arg = "ConvertersTestCase"
    BY <1>0, SuiteFlushers DEF Has
<1>2. "ConvertersTestCase" \in ProfileOf(s).calls BY <1>0, <1>1, StepsOf
<1>3. s \in SqlSpecs
    <2>1. s \notin KafkaSpecs
        <3>1. s \in KafkaSpecs => ProfileOf(s).calls = {"deployStrimziOperator", KafkaTestOf(s)}
            BY ProfileFields
        <3>2. KafkaTestOf(s) # "ConvertersTestCase" BY DEF KafkaTestOf
        <3> QED BY <1>2, <3>1, <3>2
    <2>2. s \notin Plain \cup Deprovisioning
        BY <1>2, ProfileFields
    <2>3. s \notin Provisioning
        <3>1. s \in Provisioning => ProfileOf(s).calls \subseteq
                    {"deployStrimziOperator", "securitySql", "securityKafkasql"}
            BY ProfileFields DEF Provisioning
        <3> QED BY <1>2, <3>1
    <2> QED BY <1>0, <2>1, <2>2, <2>3, ScriptNames
<1> QED BY <1>3, SuiteFlushers

LEMMA SharedFlushersRenewNot ==
    ASSUME SharedSuite
    PROVE  FlushersRenewNot
<1> SUFFICES ASSUME NEW s \in InUse, Renews(Body[s]) PROVE ~MayFlush(NewFrame(Body[s]))
    BY DEF FlushersRenewNot
<1>0. Scripts = DOMAIN SuiteBody /\ Body = SuiteBody /\ s \in DOMAIN SuiteBody
    BY ScriptKinds DEF SharedSuite
<1>1. s \in {"keycloak", "securitySql", "securityKafkasql"}
    <2>1. CASE HasOp(Body[s], "newContext") BY <1>0, <2>1, ScriptKinds
    <2>2. CASE Has(Body[s], "call", Renewers) BY <1>0, <2>2, ScriptKinds DEF Outer
    <2> QED BY <2>1, <2>2 DEF Renews
<1>2. ~HasOp(Body[s], "cleanups")
    <2>1. s \notin Plain \cup Deprovisioning
        BY <1>1 DEF Plain, Deprovisioning, SqlRemovals, KafkaRemovals, OtherRemovals
    <2> QED BY <1>0, <2>1, ScriptKinds
<1>3. ASSUME NEW x \in Range(Body[s]), x.op = "defer", x.arg \in Flushers PROVE FALSE
    <2>1. x.arg \in ProfileOf(s).defers BY <1>0, <1>3, StepsOf
    <2>2. x.arg \in {"RemoveKeycloak", "closureSql", "closureKafkasql"}
        BY <1>1, <2>1, ProfileFields
    <2>3. /\ {"RemoveKeycloak", "closureSql", "closureKafkasql"} \subseteq Deprovisioning
          /\ "closureSql" \in SqlRemovals /\ "closureKafkasql" \in KafkaRemovals
        BY DEF Deprovisioning, SqlRemovals, KafkaRemovals, OtherRemovals
    <2>4. /\ "sqlPvc" \in RemovedBy("closureSql") /\ "strimzi" \in RemovedBy("closureKafkasql")
          /\ "keycloakRealm" \in RemovedBy("RemoveKeycloak")
        BY <2>3, RemovedNames DEF SqlMade, KeycloakMade
    <2> QED BY <1>3, <2>2, <2>3, <2>4, SuiteFlushers
<1>4. ~Has(Body[s], "defer", Flushers) BY <1>3 DEF Has
<1>5. ~\E f \in Range(<<>>) : f \in Flushers
    BY DEF Range
<1> QED BY <1>2, <1>4, <1>5 DEF MayFlush, NewFrame

LEMMA SharedPodsFollow ==
    ASSUME SharedSuite
    PROVE  PodsFollow
<1>0. Scripts = DOMAIN SuiteBody /\ Body = SuiteBody BY ScriptKinds
<1>1. \A s \in Scripts : \A o \in Roots : Follows(Body[s], o) BY <1>0, ScriptsFollow
<1>2. ASSUME NEW s \in Scripts, NEW x \in Range(Body[s]), x.op \in Makings PROVE Maker[x.arg] = None
    <2>1. x.arg \in ProfileOf(s).made BY <1>0, <1>2, StepsOf
    <2>2. ProfileOf(s).made \subseteq AllMade BY <1>0, MadeNames
    <2> QED BY <2>1, <2>2, SharedConstants
<1>3. ASSUME NEW o \in Roots, Maker[o] # None PROVE Maker[o] \in Roots
    <2>1. {"storageKafka", "debeziumKafka", "sharedKafka", "keycloakServer", "keycloakSubscription",
           "keycloakCsv"} \subseteq Roots
        BY SharedConstants, SuiteObjectNames
    <2> QED BY <1>3, <2>1, MakerCases
<1> QED BY <1>1, <1>2, <1>3 DEF PodsFollow

LEMMA SharedSuiteIsPaired ==
    ASSUME SharedSuite
    PROVE  Paired
<1>1. SpecsSeeTo
    <2>1. Specs \subseteq SharedSpecs /\ InUse = DOMAIN SuiteBody \ Abandoned /\ Scripts = DOMAIN SuiteBody
        BY ScriptKinds DEF SharedSuite
    <2>2. SharedSpecs \subseteq DOMAIN SuiteBody \ Abandoned
        BY ScriptNames DEF SharedSpecs, SqlSpecs, KafkaSpecs, Provisioning, Abandoned,
               SharedClusterSpecs
    <2>3. "ConvertersTestCase" \notin SharedSpecs /\ "deployStrimziOperator" \notin SharedSpecs
        BY DEF SharedSpecs
    <2>4. Specs \cap Borrowers = {} BY <2>1, <2>3, SuiteFlushers
    <2>5. \A o \in Roots : Specs \cap Leaves(o) = {} BY <2>1, <2>3, LeavesNothing
    <2> QED BY <2>1, <2>2, <2>4, <2>5 DEF SpecsSeeTo
<1>2. HomesStand
    <2>1. Kept \subseteq Objects BY DEF Kept
    <2> QED BY <2>1, SharedConstants DEF HomesStand
<1> QED
    BY <1>1, <1>2, SharedMakersSeeTo, SharedStepsAreSafe, SharedCallersFlush,
       SharedFlushersRenewNot, SharedPodsFollow DEF Paired


----------------------------------------------------------------------------
(* The multinamespace suite: what stands in the two namespaces goes with them. *)

OwnSuite ==
    /\ OwnNamespaces
    /\ Home = Total(LivesIn, MultinamespaceObjects, "none")
    /\ Unawaited = {}
    /\ InUse = DOMAIN Multinamespace
    /\ Specs \subseteq {"multinamespace"}

OwnHomes == {"firstNamespace", "secondNamespace"}
OwnProfile ==
    Profile(MultinamespaceMade, {}, {"multinamespaceCleanup"}, {}, {}, {})
OwnRemoval ==
    Profile({}, {}, {"deleteFirst", "deleteSecond"}, {}, {}, {})
OwnRemovals == {"multinamespaceCleanup", "deleteFirst", "deleteSecond"}

LEMMA OwnConstants ==
    ASSUME OwnSuite
    PROVE  /\ None = "none" /\ Roots = OwnHomes /\ Kept = Objects
           /\ \A o \in Objects : Home[o] \in OwnHomes \cup {"none"}
           /\ \A o \in Roots : Maker[o] = "none"
           /\ MultinamespaceMade \subseteq Objects
           /\ \A o \in MultinamespaceMade : Maker[o] = "none"
<1>1. /\ None = "none" /\ Objects = MultinamespaceObjects /\ Unawaited = {}
      /\ Home = Total(LivesIn, MultinamespaceObjects, "none")
      /\ Maker = Total(MadeFor, MultinamespaceObjects, "none")
    BY DEF OwnSuite, OwnNamespaces
<1>2. /\ DOMAIN LivesIn = {"firstPvc", "firstDatabase", "firstService", "firstRegistry",
                           "firstDeployment", "secondPvc", "secondDatabase", "secondService",
                           "secondRegistry", "secondDeployment"}
      /\ \A o \in DOMAIN LivesIn : LivesIn[o] \in OwnHomes
    BY DEF LivesIn, OwnHomes
<1>3. MultinamespaceObjects = OwnHomes \cup DOMAIN LivesIn
    BY DEF MultinamespaceObjects, First, Second, OwnHomes
<1>4. \A o \in Objects : Home[o] = IF o \in DOMAIN LivesIn THEN LivesIn[o] ELSE "none"
    BY <1>1 DEF Total
<1>5. \A o \in Objects : Home[o] \in OwnHomes \cup {"none"}
    BY <1>2, <1>4
<1>6. Roots = OwnHomes /\ Kept = Objects
    <2>1. Kept = Objects BY <1>1 DEF Kept
    <2>2. \A o \in OwnHomes : o \in Objects /\ o \notin DOMAIN LivesIn
        BY <1>1, <1>2, <1>3 DEF OwnHomes
    <2>3. \A o \in OwnHomes : Home[o] = "none" BY <1>4, <2>2
    <2>4. \A o \in DOMAIN LivesIn : Home[o] # "none"
        <3>1. "none" \notin OwnHomes BY DEF OwnHomes
        <3> QED BY <1>1, <1>2, <1>3, <1>4, <3>1
    <2> QED BY <1>1, <1>3, <2>1, <2>2, <2>3, <2>4 DEF Roots
<1>7. \A o \in Objects : Maker[o] = IF o \in DOMAIN MadeFor THEN MadeFor[o] ELSE "none"
    BY <1>1 DEF Total
<1>8. \A o \in MultinamespaceMade : o \in Objects /\ o \notin DOMAIN MadeFor
    BY <1>1, <1>2, <1>3 DEF MultinamespaceMade, MadeFor, OwnHomes
<1>9. \A o \in OwnHomes : o \in MultinamespaceMade
    BY <1>3 DEF MultinamespaceMade, OwnHomes
<1> QED BY <1>1, <1>5, <1>6, <1>7, <1>8, <1>9

LEMMA OwnScripts ==
    ASSUME OwnSuite
    PROVE  /\ Scripts = OwnRemovals \cup {"multinamespace"} /\ InUse = Scripts
           /\ Body["multinamespace"] \in Seq(Allowed(OwnProfile))
           /\ \A s \in OwnRemovals : Body[s] \in Seq(Allowed(OwnRemoval))
           /\ Holding(Body["multinamespace"], Step("defer", "multinamespaceCleanup"))
           /\ Holding(Body["multinamespaceCleanup"], Step("defer", "deleteFirst"))
           /\ Holding(Body["multinamespaceCleanup"], Step("defer", "deleteSecond"))
           /\ Step("awaitGone", "firstNamespace") \in Range(Body["deleteFirst"])
           /\ Step("awaitGone", "secondNamespace") \in Range(Body["deleteSecond"])
<1>1. /\ Scripts = DOMAIN Multinamespace /\ Body = Multinamespace /\ InUse = DOMAIN Multinamespace
    BY DEF OwnSuite, OwnNamespaces
<1>2. /\ Multinamespace.multinamespace = MultinamespacedTestCase
      /\ Multinamespace.multinamespaceCleanup = multinamespaceCleanup
      /\ Multinamespace.deleteFirst = DeleteTestNamespace("firstNamespace")
      /\ Multinamespace.deleteSecond = DeleteTestNamespace("secondNamespace")
    BY DEF Multinamespace, First, Second
<1>3. DOMAIN Multinamespace = OwnRemovals \cup {"multinamespace"}
    <2>1. DOMAIN Multinamespace =
              {"multinamespace", "multinamespaceCleanup", "deleteFirst", "deleteSecond"}
        BY DEF Multinamespace
    <2> HIDE DEF Multinamespace
    <2> QED BY <2>1 DEF OwnRemovals
<1>4. Body["multinamespace"] \in Seq(Allowed(OwnProfile))
    <2> DEFINE p == OwnProfile
    <2>1. p.made = MultinamespaceMade /\ p.defers = {"multinamespaceCleanup"} BY DEF OwnProfile, Profile
    <2> HIDE DEF p
    <2>2. MultinamespacedTestCase \in Seq(Allowed(p)) BY <2>1, MultinamespaceAllowed
    <2> QED BY <1>1, <1>2, <2>2 DEF p
<1>5. ASSUME NEW s \in OwnRemovals PROVE Body[s] \in Seq(Allowed(OwnRemoval))
    <2> DEFINE p == OwnRemoval
    <2>1. p.defers = {"deleteFirst", "deleteSecond"} BY DEF OwnRemoval, Profile
    <2> HIDE DEF p
    <2>2. /\ multinamespaceCleanup \in Seq(Allowed(p))
          /\ DeleteTestNamespace("firstNamespace") \in Seq(Allowed(p))
          /\ DeleteTestNamespace("secondNamespace") \in Seq(Allowed(p))
        BY <2>1, MultinamespaceAllowed
    <2> QED BY <1>1, <1>2, <2>2 DEF p, OwnRemovals
<1>6. Holding(MultinamespacedTestCase, Step("defer", "multinamespaceCleanup"))
    <2> DEFINE a == CreateTestNamespace(First.namespace) \o CreateTestNamespace(Second.namespace)
               d == Deferring("multinamespaceCleanup")
               b == DeploySqlRegistry(First.registry, First.db)
               t == BasicTest
               c == DeploySqlRegistry(Second.registry, Second.db)
               p == Anything
    <2>1. /\ First.db \in Dbs /\ Second.db \in Dbs /\ First.registry \in Regs /\ Second.registry \in Regs
          /\ {First.db.pvc, First.db.dep, First.db.svc, First.registry.cr} \subseteq Names
          /\ {Second.db.pvc, Second.db.dep, Second.db.svc, Second.registry.cr} \subseteq Names
          /\ First.namespace \in Names /\ Second.namespace \in Names
        BY DEF Dbs, Regs, First, Second, Names
    <2>2. b \in Seq(Allowed(p)) /\ c \in Seq(Allowed(p)) /\ t \in Seq(Allowed(p))
        BY <2>1, AnythingParts, DeployAllowed, TestsAllowed
    <2>3. /\ Create(First.namespace) \in Seq(Texts) /\ Create(Second.namespace) \in Seq(Texts)
          /\ Check \in Seq(Texts)
        BY <2>1, OpNames, HoldingStep DEF Create, Check, Bare, Holding
    <2>4. a \in Seq(Texts) BY <2>3, TextsConcat DEF CreateTestNamespace
    <2>5. b \in Seq(Texts) /\ c \in Seq(Texts) /\ t \in Seq(Texts) BY <2>2, AllowedTexts
    <2>6. MultinamespacedTestCase = a \o d \o b \o t \o c \o t
        BY DEF MultinamespacedTestCase
    <2>7. Holding(d, Step("defer", "multinamespaceCleanup"))
        BY HoldingPieces DEF Names
    <2> DEFINE x == Step("defer", "multinamespaceCleanup")
    <2>8. d \in Seq(Texts) BY <2>7 DEF Holding
    <2> HIDE DEF a, d, b, t, c, x, p
    <2>9. Holding(a \o d, x) /\ a \o d \in Seq(Texts) BY <2>4, <2>7, <2>8, HoldingConcat DEF x
    <2>10. Holding(a \o d \o b, x) /\ a \o d \o b \in Seq(Texts) BY <2>5, <2>9, HoldingConcat
    <2>11. Holding(a \o d \o b \o t, x) /\ a \o d \o b \o t \in Seq(Texts)
        BY <2>5, <2>10, HoldingConcat
    <2>12. Holding(a \o d \o b \o t \o c, x) /\ a \o d \o b \o t \o c \in Seq(Texts)
        BY <2>5, <2>11, HoldingConcat
    <2>13. Holding(a \o d \o b \o t \o c \o t, x) BY <2>5, <2>12, HoldingConcat
    <2> QED BY <2>6, <2>13 DEF x
<1>7. /\ Holding(multinamespaceCleanup, Step("defer", "deleteFirst"))
      /\ Holding(multinamespaceCleanup, Step("defer", "deleteSecond"))
    <2> DEFINE d == Deferring("deleteFirst")
               e == Deferring("deleteSecond")
               a == SaveLogsAndRemove(RemoveJpaRegistry(First.registry, First.db))
               b == SaveLogsAndRemove(RemoveJpaRegistry(Second.registry, Second.db))
    <2>1. First.db \in Dbs /\ Second.db \in Dbs /\ First.registry \in Regs /\ Second.registry \in Regs
        BY DEF Dbs, Regs
    <2>2. a \in Seq(Allowed(Anything)) /\ b \in Seq(Allowed(Anything))
        BY <2>1, RemovalAllowed, TestsAllowed
    <2>3. a \in Seq(Texts) /\ b \in Seq(Texts) BY <2>2, AllowedTexts
    <2>4. Holding(d, Step("defer", "deleteFirst")) /\ Holding(e, Step("defer", "deleteSecond"))
        BY HoldingPieces DEF Names
    <2>5. d \in Seq(Texts) /\ e \in Seq(Texts) BY <2>4 DEF Holding
    <2>6. multinamespaceCleanup = d \o a \o e \o b BY DEF multinamespaceCleanup
    <2> HIDE DEF a, b, d, e
    <2>7. ASSUME NEW x, Holding(d, x) \/ Holding(e, x) PROVE Holding(d \o a \o e \o b, x)
        BY <2>3, <2>5, <2>7, HoldingConcat
    <2> QED BY <2>4, <2>6, <2>7
<1>8. ASSUME NEW o \in OwnHomes PROVE Step("awaitGone", o) \in Range(DeleteTestNamespace(o))
    <2> DEFINE x == Step("deleteIfFound", o)
               y == Step("awaitGone", o)
    <2>1. x \in Texts /\ y \in Texts BY OpNames DEF Step, Texts, OwnHomes, Names
    <2>2. DeleteTestNamespace(o) = <<x, y>> BY DEF DeleteTestNamespace, RemoveIfFound
    <2> HIDE DEF x, y
    <2> DEFINE s == <<x, y>>
    <2>3. s \in Seq(Texts) /\ Len(s) = 2 /\ s[2] = y /\ 2 \in 1 .. 2 BY <2>1
    <2> HIDE DEF s
    <2>4. y \in Range(s) BY <2>3, RangeIn
    <2> QED BY <2>2, <2>4 DEF s, y
<1> QED BY <1>1, <1>2, <1>3, <1>4, <1>5, <1>6, <1>7, <1>8 DEF OwnHomes


LEMMA OwnSteps ==
    ASSUME OwnSuite, NEW s \in Scripts, NEW x \in Range(Body[s])
    PROVE  /\ x.op \notin {"call", "register", "registerIfDeployed"} \cup Oddities
           /\ x.op \in Makings => s = "multinamespace" /\ x.arg \in MultinamespaceMade
           /\ x.op = "defer" => x.arg \in OwnRemovals
<1>1. /\ OwnProfile.made = MultinamespaceMade /\ OwnProfile.calls = {} /\ OwnProfile.keeps = {}
      /\ OwnProfile.defers = {"multinamespaceCleanup"} /\ OwnProfile.odd = {}
    BY DEF OwnProfile, Profile
<1>2. /\ OwnRemoval.made = {} /\ OwnRemoval.calls = {} /\ OwnRemoval.keeps = {}
      /\ OwnRemoval.defers = {"deleteFirst", "deleteSecond"} /\ OwnRemoval.odd = {}
    BY DEF OwnRemoval, Profile
<1>3. CASE s = "multinamespace"
    <2>1. x \in Allowed(OwnProfile) BY <1>3, OwnScripts, AllowedTexts
    <2> QED BY <1>1, <1>3, <2>1 DEF Allowed, OwnRemovals
<1>4. CASE s \in OwnRemovals
    <2>1. x \in Allowed(OwnRemoval) BY <1>4, OwnScripts, AllowedTexts
    <2> QED BY <1>2, <1>4, <2>1 DEF Allowed, OwnRemovals
<1> QED BY <1>3, <1>4, OwnScripts

LEMMA OwnSuiteIsPaired ==
    ASSUME OwnSuite
    PROVE  Paired
<1>1. /\ Scripts = OwnRemovals \cup {"multinamespace"} /\ InUse = Scripts
      /\ Roots = OwnHomes /\ None = "none"
    BY OwnScripts, OwnConstants
<1>2. \A s \in Scripts : Straight(Body[s])
    BY OwnSteps DEF Straight, HasOp, Oddities
<1>3. Borrowers = {} /\ Renewers = {} /\ Outer = {}
    <2>1. Borrowers = {} BY OwnSteps DEF Borrowers, HasOp
    <2>2. Renewers = {} BY OwnSteps DEF Renewers, HasOp, Oddities
    <2>3. Outer = {} BY OwnSteps DEF Outer, Has
    <2> QED BY <2>1, <2>2, <2>3
<1>4. \A o : Leaves(o) = {}
    <2> SUFFICES ASSUME NEW o, NEW s \in Leaves(o) PROVE FALSE OBVIOUS
    <2>1. s = "multinamespace" BY OwnSteps DEF Leaves
    <2> DEFINE x == Step("defer", "multinamespaceCleanup")
    <2>2. x.op = "defer" /\ x \in Range(Body["multinamespace"])
        BY OwnScripts DEF Holding, Step
    <2> HIDE DEF x
    <2> QED BY <2>1, <2>2 DEF Leaves, HasOp
<1>5. Scripts \ {"multinamespace"} \subseteq Safe
    BY <1>1, <1>3, <1>4 DEF Safe
<1>6. \A s \in OwnRemovals : \A o : ~MakesSome(Body[s], o)
    <2>1. "multinamespace" \notin OwnRemovals BY DEF OwnRemovals
    <2> QED BY <1>1, <1>4, <2>1, OwnSteps DEF MakesSome, Makes
<1>7. "deleteFirst" \in Takers("firstNamespace") /\ "deleteSecond" \in Takers("secondNamespace")
    <2>1. /\ Ends(Step("awaitGone", "firstNamespace"), "firstNamespace")
          /\ Ends(Step("awaitGone", "secondNamespace"), "secondNamespace")
        BY DEF Ends, Step
    <2>2. "deleteFirst" \in OwnRemovals /\ "deleteSecond" \in OwnRemovals BY DEF OwnRemovals
    <2> QED BY <1>1, <1>2, <1>6, <2>1, <2>2, OwnScripts DEF Takers
<1>8. \A o \in OwnHomes : "multinamespaceCleanup" \in Removers(o)
    <2> DEFINE x == Step("defer", "deleteFirst")
               y == Step("defer", "deleteSecond")
    <2>1. /\ x.op = "defer" /\ x.arg = "deleteFirst" /\ x \in Range(Body["multinamespaceCleanup"])
          /\ y.op = "defer" /\ y.arg = "deleteSecond" /\ y \in Range(Body["multinamespaceCleanup"])
        BY OwnScripts DEF Holding, Step
    <2>2. "multinamespaceCleanup" \in Scripts BY <1>1 DEF OwnRemovals
    <2> HIDE DEF x, y
    <2>3. /\ Has(Body["multinamespaceCleanup"], "defer", Takers("firstNamespace"))
          /\ Has(Body["multinamespaceCleanup"], "defer", Takers("secondNamespace"))
        BY <1>7, <2>1 DEF Has
    <2> QED BY <1>2, <2>2, <2>3 DEF Removers, OwnHomes
<1>9. MakersSeeTo
    <2> SUFFICES ASSUME NEW s \in InUse, NEW o \in Roots, MakesSome(Body[s], o)
                 PROVE  SeesTo(s, o)
        BY DEF MakersSeeTo
    <2>1. s = "multinamespace" BY <1>1, <1>6
    <2> DEFINE x == Step("defer", "multinamespaceCleanup")
    <2>2. x.op = "defer" /\ x.arg = "multinamespaceCleanup" /\ x \in Range(Body[s])
        BY <2>1, OwnScripts DEF Holding, Step
    <2> HIDE DEF x
    <2>3. Has(Body[s], "defer", Removers(o)) BY <1>1, <1>8, <2>2 DEF Has
    <2> QED BY <1>1, <1>2, <2>3 DEF SeesTo, Own, NewFrame
<1>10. StepsAreSafe
    <2> SUFFICES ASSUME NEW s \in InUse, NEW x \in Range(Body[s]) PROVE IsSafe(x)
        BY DEF StepsAreSafe
    <2>1. /\ x.op \notin {"call", "register", "registerIfDeployed", "erase"}
          /\ x.op \in Makings => x.arg \in MultinamespaceMade
          /\ x.op = "defer" => x.arg \in OwnRemovals
        BY <1>1, OwnSteps DEF Oddities
    <2>2. OwnRemovals \subseteq Safe
        <3>1. "multinamespace" \notin OwnRemovals BY DEF OwnRemovals
        <3> QED BY <1>1, <1>5, <3>1
    <2> QED BY <2>1, <2>2, OwnConstants DEF IsSafe
<1>11. CallersFlush
    BY <1>3 DEF CallersFlush, Has
<1>12. FlushersRenewNot
    <2>1. \A s \in InUse : ~HasOp(Body[s], "newContext") /\ ~Has(Body[s], "call", Renewers)
        BY <1>1, OwnSteps DEF HasOp, Has, Oddities
    <2> QED BY <2>1 DEF FlushersRenewNot, Renews
<1>13. PodsFollow
    <2>1. \A s \in Scripts : \A o \in Roots : Follows(Body[s], o)
        BY OwnConstants DEF Follows
    <2>2. \A s \in Scripts : \A x \in Range(Body[s]) : x.op \in Makings => Maker[x.arg] = None
        BY OwnConstants, OwnSteps
    <2> QED BY <2>1, <2>2, OwnConstants DEF PodsFollow
<1>14. SpecsSeeTo
    BY <1>1, <1>3, <1>4 DEF SpecsSeeTo, OwnSuite
<1>15. HomesStand
    BY OwnConstants DEF HomesStand
<1> QED
    BY <1>9, <1>10, <1>11, <1>12, <1>13, <1>14, <1>15 DEF Paired

----------------------------------------------------------------------------

\* A report without failures means that nothing is left behind: what any of these
\* specs makes, it or a function it calls defers the removal of (security.go:20 and
\* 37-42, testcase.go:136-146), or it registers the removal with the context whose
\* SaveLogsAndExecuteTestCleanups is deferred (testcase.go:182-186, converters.go:66-81
\* and 302), that of Strimzi if the installer reports that it was not there
\* (kafkasql.go:177-179).  What fails before the removal is known has made the report
\* red.  The specs of a shared Kafka cluster are not among them: the function that
\* deploys the cluster leaves Strimzi to another removal, and to none if the registry is
\* on a database.
THEOREM GreenSuitesAreClean ==
    ASSUME SharedSuite \/ OwnSuite
    PROVE  Spec => []GreenSuiteIsClean
<1>1. Paired
    BY SharedSuiteIsPaired, OwnSuiteIsPaired
<1>2. Spec => [](NothingForgotten /\ GreenSuiteIsClean)
    BY <1>1, NothingIsForgotten
<1> QED BY <1>2, PTL

=============================================================================
