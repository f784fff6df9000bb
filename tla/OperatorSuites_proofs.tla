----------------------- MODULE OperatorSuites_proofs ------------------------
(***************************************************************************)
(* Theorems about OperatorSuites, for any number of runs, any of the       *)
(* suites and any environments.  What makes a green run clean is that      *)
(* every step of AfterSuite that matters is still to be done, or has had   *)
(* its effect for good; the invariant states this of a suite that has not  *)
(* failed, together with what the lists of steps are made of.              *)
(***************************************************************************)
EXTENDS OperatorSuites, SequenceTheorems, TLAPS

USE SuitesAssumption

BeforeOps == {"connect", "check", "create", "apply", "adopt", "found", "sight", "restart",
              "settle", "await", "lookUp", "return"}
AfterOps == {"check", "logs", "delete", "deleteQuietly", "deleteIfFound", "deleteCsv",
             "deleteUnnamed", "deleteFile", "finalize", "awaitGone"}

\* The steps of AfterSuite; those of BeforeSuite, in an environment; and the latter
\* without the last one of InstallOperatorOLM.
AfterSteps ==
    {x \in [op : AfterOps, arg : Objects \cup {"-"}] :
        /\ x.op \in {"deleteQuietly", "deleteCsv"} => x.arg \in Objects
        /\ x.op \in {"delete", "deleteQuietly", "deleteIfFound"} => x.arg \notin {"csv", "wideCsv"}}
BeforeSteps(env) ==
    {x \in [op : BeforeOps, arg : Objects \cup {"-"}] :
        /\ x.op \in {"create", "apply"} => x.arg # "catalog"
        /\ x.op \in {"create", "apply"} /\ x.arg = "seleniumNamespace" => env.selenium
        /\ x.op = "adopt" => env.ownCatalog}
EarlySteps(env) == {x \in BeforeSteps(env) : x.op # "return"}

ReturnLast(s) == \A i \in 1 .. Len(s) : s[i].op = "return" => i = Len(s)

\* The wait for the operator of a CSV to be gone.
Wait(csv) == [op |-> "awaitGone", arg |-> IF csv = "wideCsv" THEN "wideOperator" ELSE "operator"]

\* A CSV is deleted right after its subscription, and its operator awaited then.
Ordered(s) ==
    \A i \in 1 .. Len(s) :
        /\ s[i] = [op |-> "deleteQuietly", arg |-> "wideSubscription"] =>
               i < Len(s) /\ s[i + 1] = [op |-> "deleteCsv", arg |-> "wideCsv"]
        /\ s[i].op = "deleteCsv" => i < Len(s) /\ s[i + 1] = Wait(s[i].arg)

Due(op, arg) == [op |-> op, arg |-> arg] \in Range(todo)

\* AfterSuite runs after specs that passed, or has gone through after them.
Removing == \/ phase = "after" /\ ~failed
            \/ phase = "idle" /\ report # <<>> /\ LastVerdict = "passed"

----------------------------------------------------------------------------
(* The invariant. *)

ListsOK ==
    /\ phase \in {"idle", "specs"} => todo = <<>>
    /\ phase = "before" => todo \in Seq(BeforeSteps(config)) /\ ~failed
    /\ phase = "specs" => ~failed
    /\ phase = "after" => todo \in Seq(AfterSteps) /\ Ordered(todo)

\* What the environment does not call for is never there.
NothingElse ==
    /\ ~config.ownCatalog => cluster["catalog"] = "absent"
    /\ ~config.selenium => cluster["seleniumNamespace"] = "absent"

\* olminfo is set by a BeforeSuite that goes through, after its catalog source.
InfoIsKnown ==
    kind # "bundle" =>
        /\ olminfo = "nil" => ~config.ownCatalog
        /\ phase = "specs" \/ Removing => olminfo # "none"
        /\ phase = "before" =>
               /\ ReturnLast(todo)
               /\ olminfo = "none" => Due("return", "-")
               /\ catalog = "nil" /\ config.ownCatalog => Due("adopt", "catalog")

\* Every object AfterSuite has to remove is gone for good, or its removal is due.
NamespacesGo ==
    /\ kind # "clusterwide" =>
           Due("awaitGone", "namespace") \/ cluster["namespace"] = "absent"
    /\ config.selenium =>
           Due("awaitGone", "seleniumNamespace") \/ cluster["seleniumNamespace"] = "absent"

ManifestsGo ==
    kind = "bundle" => Due("deleteFile", "-") \/ cluster["clusterManifests"] \notin Live

CatalogGoes ==
    kind # "bundle" =>
        /\ olminfo = "empty" => Due("deleteUnnamed", "-")
        /\ olminfo = "own" => Due("deleteQuietly", "catalog") \/ cluster["catalog"] \notin Live

InstallationGoes ==
    kind = "clusterwide" =>
        /\ \/ Due("deleteQuietly", "wideSubscription")
           \/ cluster["wideSubscription"] \notin Live
        /\ Due("deleteCsv", "wideCsv") \/ cluster["wideCsv"] \notin Live

RemovalIsDue == Removing => NamespacesGo /\ ManifestsGo /\ CatalogGoes /\ InstallationGoes

IInv == TypeOK /\ ListsOK /\ NothingElse /\ InfoIsKnown /\ RemovalIsDue

----------------------------------------------------------------------------
(* Lists of steps. *)

LEMMA Joined ==
    ASSUME NEW S, NEW s \in Seq(S), NEW t \in Seq(S)
    PROVE  s \o t \in Seq(S) /\ Range(s \o t) = Range(s) \cup Range(t)
BY ConcatProperties, RangeConcatenation

LEMMA OneStep ==
    ASSUME NEW S, NEW op, NEW arg, [op |-> op, arg |-> arg] \in S
    PROVE  Step(op, arg) \in Seq(S) /\ Range(Step(op, arg)) = {[op |-> op, arg |-> arg]}
BY DEF Range, Step

LEMMA Conditional ==
    ASSUME NEW S, NEW c \in BOOLEAN, NEW s \in Seq(S)
    PROVE  /\ When(c, s) \in Seq(S)
           /\ c => Range(When(c, s)) = Range(s)
BY DEF When

\* What a list t is that has all of s but its head.
LEMMA TailInOrder ==
    ASSUME NEW S, NEW s \in Seq(S), NEW t \in Seq(S), Len(s) = Len(t) + 1,
           \A i \in 1 .. Len(t) : t[i] = s[i + 1]
    PROVE  /\ ReturnLast(s) => ReturnLast(t)
           /\ Ordered(s) => Ordered(t)
<1>1. Len(s) \in Nat /\ Len(t) \in Nat
    BY LenProperties
<1>2. ASSUME ReturnLast(s), NEW i \in 1 .. Len(t), t[i].op = "return"
      PROVE  i = Len(t)
    <2>1. i + 1 \in 1 .. Len(s) /\ s[i + 1].op = "return"
        BY <1>1, <1>2
    <2>2. i + 1 = Len(s)
        BY <1>2, <2>1 DEF ReturnLast
    <2> QED BY <1>1, <2>2
<1>3. ASSUME Ordered(s) PROVE Ordered(t)
    <2> SUFFICES ASSUME NEW i \in 1 .. Len(t)
        PROVE  /\ t[i] = [op |-> "deleteQuietly", arg |-> "wideSubscription"] =>
                     i < Len(t) /\ t[i + 1] = [op |-> "deleteCsv", arg |-> "wideCsv"]
               /\ t[i].op = "deleteCsv" => i < Len(t) /\ t[i + 1] = Wait(t[i].arg)
        BY DEF Ordered
    <2>1. i + 1 \in 1 .. Len(s) /\ t[i] = s[i + 1]
        BY <1>1
    <2>2. i < Len(t) <=> i + 1 < Len(s)
        BY <1>1
    <2>3. i < Len(t) => t[i + 1] = s[(i + 1) + 1]
        BY <1>1
    <2> QED BY <1>3, <2>1, <2>2, <2>3 DEF Ordered
<1>4. ReturnLast(s) => ReturnLast(t)
    BY <1>2 DEF ReturnLast
<1> QED BY <1>3, <1>4

LEMMA TailKeeps ==
    ASSUME NEW S, NEW s \in Seq(S), s # <<>>
    PROVE  /\ Tail(s) \in Seq(S)
           /\ Head(s) \in S
           /\ Range(s) \subseteq Range(Tail(s)) \cup {Head(s)}
           /\ ReturnLast(s) => ReturnLast(Tail(s))
           /\ Ordered(s) => Ordered(Tail(s))
<1> DEFINE t == Tail(s)
<1>1. /\ Len(s) \in Nat \ {0} /\ Head(s) = s[1]
      /\ t \in Seq(S) /\ Len(t) = Len(s) - 1
      /\ \A i \in 1 .. Len(t) : t[i] = s[i + 1]
    BY HeadTailProperties, EmptySeq
<1>2. Head(s) \in S
    BY HeadTailProperties
<1> HIDE DEF t
<1>3. Range(s) \subseteq Range(t) \cup {Head(s)}
    <2> SUFFICES ASSUME NEW i \in 1 .. Len(s) PROVE s[i] \in Range(t) \cup {Head(s)}
        BY RangeEquality
    <2>1. CASE i = 1 BY <1>1, <2>1
    <2>2. CASE i > 1
        <3>1. i - 1 \in 1 .. Len(t) /\ t[i - 1] = s[i]
            BY <1>1, <2>2
        <3> QED BY <1>1, <3>1, RangeEquality
    <2> QED BY <2>1, <2>2
<1>4. Len(s) = Len(t) + 1
    BY <1>1
<1>5. (ReturnLast(s) => ReturnLast(t)) /\ (Ordered(s) => Ordered(t))
    BY <1>1, <1>4, TailInOrder
<1> QED BY <1>1, <1>2, <1>3, <1>5 DEF t

\* A list without such steps is in order; so is what is made of ordered lists.
LEMMA Unordered ==
    ASSUME NEW s \in Seq(AfterSteps),
           \A x \in Range(s) : /\ x.op # "deleteCsv"
                               /\ x # [op |-> "deleteQuietly", arg |-> "wideSubscription"]
    PROVE  Ordered(s)
BY RangeEquality DEF Ordered

LEMMA OrderedJoined ==
    ASSUME NEW s \in Seq(AfterSteps), NEW t \in Seq(AfterSteps), Ordered(s), Ordered(t)
    PROVE  Ordered(s \o t)
<1>1. /\ Len(s) \in Nat /\ Len(t) \in Nat
      /\ Len(s \o t) = Len(s) + Len(t)
      /\ \A i \in 1 .. Len(s) + Len(t) :
             (s \o t)[i] = IF i <= Len(s) THEN s[i] ELSE t[i - Len(s)]
    BY ConcatProperties, LenProperties
<1> SUFFICES ASSUME NEW i \in 1 .. Len(s \o t)
    PROVE  /\ (s \o t)[i] = [op |-> "deleteQuietly", arg |-> "wideSubscription"] =>
                 /\ i < Len(s \o t)
                 /\ (s \o t)[i + 1] = [op |-> "deleteCsv", arg |-> "wideCsv"]
           /\ (s \o t)[i].op = "deleteCsv" =>
                 i < Len(s \o t) /\ (s \o t)[i + 1] = Wait((s \o t)[i].arg)
    BY DEF Ordered
<1>2. CASE i <= Len(s)
    <2>1. i \in 1 .. Len(s) /\ (s \o t)[i] = s[i]
        BY <1>1, <1>2
    <2>2. i < Len(s) => i < Len(s \o t) /\ (s \o t)[i + 1] = s[i + 1]
        BY <1>1, <1>2
    <2> QED BY <2>1, <2>2 DEF Ordered
<1>3. CASE i > Len(s)
    <2> DEFINE j == i - Len(s)
    <2>1. j \in 1 .. Len(t) /\ (s \o t)[i] = t[j]
        BY <1>1, <1>3
    <2>2. j < Len(t) => i < Len(s \o t) /\ (s \o t)[i + 1] = t[j + 1]
        BY <1>1, <1>3
    <2> HIDE DEF j
    <2> QED BY <2>1, <2>2 DEF Ordered
<1> QED BY <1>1, <1>2, <1>3

LEMMA ReturnAtEnd ==
    ASSUME NEW env, NEW s \in Seq(EarlySteps(env)), NEW t \in Seq(BeforeSteps(env)), ReturnLast(t)
    PROVE  ReturnLast(s \o t)
<1>1. s \in Seq(BeforeSteps(env))
    BY SeqMonotonic DEF EarlySteps
<1>2. /\ Len(s) \in Nat /\ Len(t) \in Nat
      /\ Len(s \o t) = Len(s) + Len(t)
      /\ \A i \in 1 .. Len(s) + Len(t) :
             (s \o t)[i] = IF i <= Len(s) THEN s[i] ELSE t[i - Len(s)]
    BY <1>1, ConcatProperties, LenProperties
<1> SUFFICES ASSUME NEW i \in 1 .. Len(s \o t), (s \o t)[i].op = "return"
    PROVE  i = Len(s \o t)
    BY DEF ReturnLast
<1>3. ~(i <= Len(s))
    <2> SUFFICES ASSUME i <= Len(s) PROVE FALSE
        OBVIOUS
    <2>1. i \in 1 .. Len(s) /\ (s \o t)[i] = s[i]
        BY <1>2
    <2>2. s[i].op # "return"
        BY <2>1, ElementOfSeq DEF EarlySteps
    <2> QED BY <2>1, <2>2
<1> DEFINE j == i - Len(s)
<1>4. j \in 1 .. Len(t) /\ (s \o t)[i] = t[j] /\ i = Len(s) + j
    BY <1>2, <1>3
<1> HIDE DEF j
<1>5. j = Len(t)
    BY <1>4 DEF ReturnLast
<1> QED BY <1>2, <1>4, <1>5

----------------------------------------------------------------------------
(* The steps of AfterSuite. *)

Kind == {"bundle", "single", "clusterwide"}
Environment == [ownCatalog : BOOLEAN, configured : BOOLEAN, selenium : BOOLEAN,
                openshift : BOOLEAN, pullSecret : BOOLEAN]

LEMMA ObjectNames ==
    {"namespace", "group", "subscription", "csv", "operator", "wideSubscription", "wideCsv",
     "wideOperator", "catalog", "manifest", "manifests", "clusterManifests", "bundleOperator",
     "seleniumNamespace", "seleniumDeployment", "seleniumService", "seleniumIngress"}
    = Objects
BY DEF Objects, Passive, Maker

InOrder(s) == s \in Seq(AfterSteps) /\ Ordered(s)

LEMMA StepInOrder ==
    ASSUME NEW op \in AfterOps \ {"deleteCsv"}, NEW arg \in Objects \cup {"-"},
           op = "deleteQuietly" => arg \in Objects \ {"wideSubscription"},
           op \in {"delete", "deleteQuietly", "deleteIfFound"} => arg \notin {"csv", "wideCsv"}
    PROVE  InOrder(Step(op, arg)) /\ Range(Step(op, arg)) = {[op |-> op, arg |-> arg]}
<1>1. [op |-> op, arg |-> arg] \in AfterSteps
    BY DEF AfterSteps
<1>2. Step(op, arg) \in Seq(AfterSteps) /\ Range(Step(op, arg)) = {[op |-> op, arg |-> arg]}
    BY <1>1, OneStep
<1> QED BY <1>2, Unordered DEF InOrder

LEMMA JoinedInOrder ==
    ASSUME NEW s, NEW t, InOrder(s), InOrder(t)
    PROVE  InOrder(s \o t) /\ Range(s \o t) = Range(s) \cup Range(t)
BY Joined, OrderedJoined DEF InOrder

LEMMA WhenInOrder ==
    ASSUME NEW c \in BOOLEAN, NEW s, InOrder(s)
    PROVE  InOrder(When(c, s)) /\ (c => Range(When(c, s)) = Range(s))
BY DEF InOrder, When, Ordered

LEMMA ElseInOrder == InOrder(<<>>)
BY DEF InOrder, Ordered

LEMMA NamespaceSteps ==
    ASSUME NEW ns \in {"namespace", "seleniumNamespace"}
    PROVE  /\ InOrder(DeleteTestNamespace(ns))
           /\ [op |-> "awaitGone", arg |-> ns] \in Range(DeleteTestNamespace(ns))
<1>1. InOrder(Step("deleteIfFound", ns))
    BY ObjectNames, StepInOrder DEF AfterOps
<1>2. InOrder(Step("awaitGone", ns)) /\ Range(Step("awaitGone", ns)) = {[op |-> "awaitGone", arg |-> ns]}
    BY ObjectNames, StepInOrder DEF AfterOps
<1> QED BY <1>1, <1>2, JoinedInOrder DEF DeleteTestNamespace

LEMMA SeleniumSteps ==
    /\ InOrder(removeSeleniumChrome)
    /\ [op |-> "awaitGone", arg |-> "seleniumNamespace"] \in Range(removeSeleniumChrome)
<1> DEFINE s1 == Step("delete", "seleniumDeployment")
           s2 == Step("delete", "seleniumService")
           s3 == Step("delete", "seleniumIngress")
           s4 == DeleteTestNamespace("seleniumNamespace")
<1>1. InOrder(s1) BY ObjectNames, StepInOrder DEF AfterOps
<1>2. InOrder(s2) BY ObjectNames, StepInOrder DEF AfterOps
<1>3. InOrder(s3) BY ObjectNames, StepInOrder DEF AfterOps
<1>4. /\ InOrder(s4)
      /\ [op |-> "awaitGone", arg |-> "seleniumNamespace"] \in Range(s4)
    BY ObjectNames, NamespaceSteps
<1>5. removeSeleniumChrome = ((s1 \o s2) \o s3) \o s4
    BY DEF removeSeleniumChrome
<1> HIDE DEF s1, s2, s3, s4
<1>6. InOrder(s1 \o s2) BY <1>1, <1>2, JoinedInOrder
<1>7. InOrder((s1 \o s2) \o s3) BY <1>3, <1>6, JoinedInOrder
<1> QED BY <1>4, <1>5, <1>7, JoinedInOrder

LEMMA SubscriptionSteps ==
    ASSUME NEW k \in {"single", "clusterwide"}
    PROVE  LET D == DeleteSubscription(k)
           IN /\ InOrder(D)
              /\ [op |-> "deleteQuietly", arg |-> Subscription[k]] \in Range(D)
              /\ [op |-> "deleteCsv", arg |-> Csv[k]] \in Range(D)
<1> DEFINE D == DeleteSubscription(k)
           x == [op |-> "deleteQuietly", arg |-> Subscription[k]]
           y == [op |-> "deleteCsv", arg |-> Csv[k]]
           z == [op |-> "awaitGone", arg |-> Operator[k]]
<1>1. /\ Subscription[k] \in Objects /\ Csv[k] \in Objects /\ Operator[k] \in Objects
      /\ Subscription[k] = "wideSubscription" => Csv[k] = "wideCsv"
      /\ Subscription[k] \notin {"csv", "wideCsv"}
      /\ z = Wait(Csv[k])
    BY ObjectNames DEF Subscription, Csv, Operator, Wait
<1>2. x \in AfterSteps /\ y \in AfterSteps /\ z \in AfterSteps
    BY <1>1 DEF AfterSteps, AfterOps
<1>3. D = (<<x>> \o <<y>>) \o <<z>>
    BY DEF DeleteSubscription, Step
<1> HIDE DEF D, x, y, z
<1> DEFINE xy == <<x>> \o <<y>>
<1>4. xy \in Seq(AfterSteps) /\ Len(xy) = 2 /\ xy[1] = x /\ xy[2] = y
    BY <1>2
<1>5. D \in Seq(AfterSteps) /\ Len(D) = 3 /\ D[1] = x /\ D[2] = y /\ D[3] = z
    <2> DEFINE w == <<z>>
    <2>1. D = xy \o w /\ w \in Seq(AfterSteps) /\ Len(w) = 1 /\ w[1] = z
        BY <1>2, <1>3
    <2> HIDE DEF xy, w
    <2>2. /\ D \in Seq(AfterSteps) /\ Len(D) = 3
          /\ \A i \in 1 .. 3 : D[i] = IF i <= 2 THEN xy[i] ELSE w[i - 2]
        BY <1>4, <2>1, ConcatProperties
    <2>3. D[1] = xy[1] /\ D[2] = xy[2] /\ D[3] = w[1]
        BY <2>2
    <2> QED BY <1>4, <2>1, <2>2, <2>3
<1>6. x \in Range(D) /\ y \in Range(D)
    BY <1>5, RangeEquality
<1>7. Ordered(D)
    <2>1. 1 .. Len(D) = {1, 2, 3}
        BY <1>5
    <2>2. x.op = "deleteQuietly" /\ (x.arg = "wideSubscription" => y = [op |-> "deleteCsv", arg |-> "wideCsv"])
        BY <1>1 DEF x, y
    <2>3. y.op = "deleteCsv" /\ z = Wait(y.arg) /\ z.op = "awaitGone"
        BY <1>1 DEF y, z
    <2> QED BY <1>5, <2>1, <2>2, <2>3 DEF Ordered
<1> QED BY <1>5, <1>6, <1>7 DEF InOrder, D, x, y

LEMMA BundleSteps ==
    /\ InOrder(uninstallOperator)
    /\ [op |-> "deleteFile", arg |-> "-"] \in Range(uninstallOperator)
    /\ [op |-> "awaitGone", arg |-> "namespace"] \in Range(uninstallOperator)
<1> DEFINE s1 == Step("logs", "-")
           s2 == Step("deleteFile", "-")
           s3 == Step("finalize", "-")
           s4 == Step("awaitGone", "bundleOperator")
           s5 == DeleteTestNamespace("namespace")
<1>1. InOrder(s1) BY StepInOrder DEF AfterOps
<1>2. InOrder(s2) /\ Range(s2) = {[op |-> "deleteFile", arg |-> "-"]}
    BY StepInOrder DEF AfterOps
<1>3. InOrder(s3) BY StepInOrder DEF AfterOps
<1>4. InOrder(s4) BY ObjectNames, StepInOrder DEF AfterOps
<1>5. InOrder(s5) /\ [op |-> "awaitGone", arg |-> "namespace"] \in Range(s5)
    BY ObjectNames, NamespaceSteps
<1>6. uninstallOperator = (((s1 \o s2) \o s3) \o s4) \o s5
    BY DEF uninstallOperator
<1> HIDE DEF s1, s2, s3, s4, s5
<1>7. InOrder(s1 \o s2) /\ [op |-> "deleteFile", arg |-> "-"] \in Range(s1 \o s2)
    BY <1>1, <1>2, JoinedInOrder
<1>8. InOrder((s1 \o s2) \o s3) /\ [op |-> "deleteFile", arg |-> "-"] \in Range((s1 \o s2) \o s3)
    BY <1>3, <1>7, JoinedInOrder
<1>9. /\ InOrder(((s1 \o s2) \o s3) \o s4)
      /\ [op |-> "deleteFile", arg |-> "-"] \in Range(((s1 \o s2) \o s3) \o s4)
    BY <1>4, <1>8, JoinedInOrder
<1> QED BY <1>5, <1>6, <1>9, JoinedInOrder

LEMMA OLMSteps ==
    ASSUME NEW k \in {"single", "clusterwide"}, NEW info \in Handles \cup {"none"}
    PROVE  LET U == UninstallOperatorOLM(k, info)
           IN /\ InOrder(U)
              /\ k = "single" => [op |-> "awaitGone", arg |-> "namespace"] \in Range(U)
              /\ info = "empty" => [op |-> "deleteUnnamed", arg |-> "-"] \in Range(U)
              /\ info = "own" => [op |-> "deleteQuietly", arg |-> "catalog"] \in Range(U)
              /\ info # "none" =>
                     /\ [op |-> "deleteQuietly", arg |-> Subscription[k]] \in Range(U)
                     /\ [op |-> "deleteCsv", arg |-> Csv[k]] \in Range(U)
<1> DEFINE s1 == Step("logs", "-")
           d1 == DeleteSubscription(k)
           d2 == When(k = "single", Step("deleteQuietly", "group"))
           d3 == When(info = "own", Step("deleteQuietly", "catalog"))
           d4 == When(info = "empty", Step("deleteUnnamed", "-"))
           d == ((d1 \o d2) \o d3) \o d4
           s2 == When(info # "none", d)
           s3 == When(k = "single", DeleteTestNamespace("namespace"))
<1>1. InOrder(s1) BY StepInOrder DEF AfterOps
<1>2. /\ InOrder(d1)
      /\ [op |-> "deleteQuietly", arg |-> Subscription[k]] \in Range(d1)
      /\ [op |-> "deleteCsv", arg |-> Csv[k]] \in Range(d1)
    BY SubscriptionSteps
<1>3. InOrder(d2)
    <2>1. InOrder(Step("deleteQuietly", "group")) BY ObjectNames, StepInOrder DEF AfterOps
    <2> QED BY <2>1, WhenInOrder
<1>4. InOrder(d3) /\ (info = "own" => [op |-> "deleteQuietly", arg |-> "catalog"] \in Range(d3))
    <2>1. /\ InOrder(Step("deleteQuietly", "catalog"))
          /\ Range(Step("deleteQuietly", "catalog")) = {[op |-> "deleteQuietly", arg |-> "catalog"]}
        BY ObjectNames, StepInOrder DEF AfterOps
    <2> QED BY <2>1, WhenInOrder
<1>5. InOrder(d4) /\ (info = "empty" => [op |-> "deleteUnnamed", arg |-> "-"] \in Range(d4))
    <2>1. /\ InOrder(Step("deleteUnnamed", "-"))
          /\ Range(Step("deleteUnnamed", "-")) = {[op |-> "deleteUnnamed", arg |-> "-"]}
        BY StepInOrder DEF AfterOps
    <2> QED BY <2>1, WhenInOrder
<1>6. InOrder(s3) /\ (k = "single" => [op |-> "awaitGone", arg |-> "namespace"] \in Range(s3))
    BY ObjectNames, NamespaceSteps, WhenInOrder
<1>7. UninstallOperatorOLM(k, info) = (s1 \o s2) \o s3
    BY DEF UninstallOperatorOLM
<1> HIDE DEF s1, d1, d2, d3, d4, s3
<1>8. InOrder(d1 \o d2) /\ Range(d1 \o d2) = Range(d1) \cup Range(d2)
    BY <1>2, <1>3, JoinedInOrder
<1>9. /\ InOrder((d1 \o d2) \o d3)
      /\ Range((d1 \o d2) \o d3) = Range(d1) \cup Range(d2) \cup Range(d3)
    BY <1>4, <1>8, JoinedInOrder
<1>10. InOrder(d) /\ Range(d) = Range(d1) \cup Range(d2) \cup Range(d3) \cup Range(d4)
    BY <1>5, <1>9, JoinedInOrder
<1> HIDE DEF d
<1>11. InOrder(s2) /\ (info # "none" => Range(s2) = Range(d))
    BY <1>10, WhenInOrder
<1> HIDE DEF s2
<1>12. /\ InOrder((s1 \o s2) \o s3)
       /\ Range(s2) \subseteq Range((s1 \o s2) \o s3)
       /\ Range(s3) \subseteq Range((s1 \o s2) \o s3)
    BY <1>1, <1>6, <1>11, JoinedInOrder
<1> QED BY <1>2, <1>4, <1>5, <1>6, <1>7, <1>10, <1>11, <1>12 DEF Handles

LEMMA AfterSuiteSteps ==
    ASSUME NEW k \in Kind, NEW env \in Environment, NEW info \in Handles \cup {"none"}
    PROVE  LET A == AfterSuite(k, env, info)
           IN /\ A \in Seq(AfterSteps) /\ Ordered(A)
              /\ k # "clusterwide" => [op |-> "awaitGone", arg |-> "namespace"] \in Range(A)
              /\ env.selenium => [op |-> "awaitGone", arg |-> "seleniumNamespace"] \in Range(A)
              /\ k = "bundle" => [op |-> "deleteFile", arg |-> "-"] \in Range(A)
              /\ k # "bundle" =>
                     /\ info = "empty" => [op |-> "deleteUnnamed", arg |-> "-"] \in Range(A)
                     /\ info = "own" => [op |-> "deleteQuietly", arg |-> "catalog"] \in Range(A)
              /\ k = "clusterwide" /\ info # "none" =>
                     /\ [op |-> "deleteQuietly", arg |-> "wideSubscription"] \in Range(A)
                     /\ [op |-> "deleteCsv", arg |-> "wideCsv"] \in Range(A)
<1> DEFINE s1 == When(env.selenium, Step("logs", "-"))
           s2 == IF k = "bundle" THEN uninstallOperator ELSE UninstallOperatorOLM(k, info)
           s3 == When(env.selenium, removeSeleniumChrome)
           s4 == Step("check", "-")
<1>0. env.selenium \in BOOLEAN
    BY DEF Environment
<1>1. InOrder(s1)
    <2>1. InOrder(Step("logs", "-")) BY StepInOrder DEF AfterOps
    <2> QED BY <1>0, <2>1, WhenInOrder
<1>2. /\ InOrder(s2)
      /\ k # "clusterwide" => [op |-> "awaitGone", arg |-> "namespace"] \in Range(s2)
      /\ k = "bundle" => [op |-> "deleteFile", arg |-> "-"] \in Range(s2)
      /\ k # "bundle" =>
             /\ info = "empty" => [op |-> "deleteUnnamed", arg |-> "-"] \in Range(s2)
             /\ info = "own" => [op |-> "deleteQuietly", arg |-> "catalog"] \in Range(s2)
      /\ k = "clusterwide" /\ info # "none" =>
             /\ [op |-> "deleteQuietly", arg |-> "wideSubscription"] \in Range(s2)
             /\ [op |-> "deleteCsv", arg |-> "wideCsv"] \in Range(s2)
    <2>1. CASE k = "bundle" BY <2>1, BundleSteps
    <2>2. CASE k \in {"single", "clusterwide"}
        <3>1. Subscription["clusterwide"] = "wideSubscription" /\ Csv["clusterwide"] = "wideCsv"
            BY DEF Subscription, Csv
        <3> QED BY <2>2, <3>1, OLMSteps
    <2> QED BY <2>1, <2>2 DEF Kind
<1>3. InOrder(s3) /\ (env.selenium => [op |-> "awaitGone", arg |-> "seleniumNamespace"] \in Range(s3))
    BY <1>0, SeleniumSteps, WhenInOrder
<1>4. InOrder(s4) BY StepInOrder DEF AfterOps
<1>5. AfterSuite(k, env, info) = ((s1 \o s2) \o s3) \o s4
    BY DEF AfterSuite, Check
<1> HIDE DEF s1, s2, s3, s4
<1>6. InOrder(s1 \o s2) /\ Range(s2) \subseteq Range(s1 \o s2)
    BY <1>1, <1>2, JoinedInOrder
<1>7. /\ InOrder((s1 \o s2) \o s3)
      /\ Range((s1 \o s2) \o s3) = Range(s1 \o s2) \cup Range(s3)
    BY <1>3, <1>6, JoinedInOrder
<1>8. /\ InOrder(((s1 \o s2) \o s3) \o s4)
      /\ Range(((s1 \o s2) \o s3) \o s4) = Range((s1 \o s2) \o s3) \cup Range(s4)
    BY <1>4, <1>7, JoinedInOrder
<1> HIDE DEF InOrder
<1>9. InOrder(AfterSuite(k, env, info)) BY <1>5, <1>8
<1>10. /\ Range(s2) \subseteq Range(AfterSuite(k, env, info))
       /\ Range(s3) \subseteq Range(AfterSuite(k, env, info))
    BY <1>5, <1>6, <1>7, <1>8
<1>11. AfterSuite(k, env, info) \in Seq(AfterSteps) /\ Ordered(AfterSuite(k, env, info))
    BY <1>9 DEF InOrder
<1> QED BY <1>2, <1>3, <1>10, <1>11

----------------------------------------------------------------------------
(* The steps of BeforeSuite. *)

Early(env, s) == s \in Seq(EarlySteps(env))

LEMMA EarlyLonger ==
    ASSUME NEW env, NEW s, NEW t, NEW u, u = s \o t, Early(env, s), Early(env, t)
    PROVE  Early(env, u) /\ Range(s) \subseteq Range(u) /\ Range(t) \subseteq Range(u)
<1>1. s \o t \in Seq(EarlySteps(env)) /\ Range(s \o t) = Range(s) \cup Range(t)
    BY Joined DEF Early
<1> QED BY <1>1 DEF Early

LEMMA EarlyIsBefore ==
    ASSUME NEW env, NEW s, Early(env, s)
    PROVE  s \in Seq(BeforeSteps(env))
<1>1. EarlySteps(env) \subseteq BeforeSteps(env)
    BY DEF EarlySteps
<1> QED BY <1>1, SeqMonotonic DEF Early

LEMMA EarlyStep ==
    ASSUME NEW env, NEW op \in BeforeOps \ {"return"}, NEW arg \in Objects \cup {"-"},
           op \in {"create", "apply"} => arg # "catalog",
           op \in {"create", "apply"} /\ arg = "seleniumNamespace" => env.selenium,
           op = "adopt" => env.ownCatalog
    PROVE  /\ Early(env, Step(op, arg))
           /\ Range(Step(op, arg)) = {[op |-> op, arg |-> arg]}
<1>1. [op |-> op, arg |-> arg] \in EarlySteps(env)
    BY DEF EarlySteps, BeforeSteps
<1> QED BY <1>1, OneStep DEF Early

LEMMA EarlyWhen ==
    ASSUME NEW env, NEW c \in BOOLEAN, NEW s, c => Early(env, s)
    PROVE  Early(env, When(c, s)) /\ (c => Range(When(c, s)) = Range(s))
BY DEF When, Early

LEMMA SeleniumIsEarly ==
    ASSUME NEW env \in Environment, env.selenium
    PROVE  Early(env, deploySeleniumChrome)
<1>1. Early(env, Step("check", "-"))
    BY EarlyStep DEF BeforeOps
<1>2. \A o \in Selenium : Early(env, Step("create", o))
    BY EarlyStep, ObjectNames DEF BeforeOps, Selenium
<1>3. Early(env, Step("await", "seleniumDeployment"))
    BY EarlyStep, ObjectNames DEF BeforeOps
<1> QED
    BY <1>1, <1>2, <1>3 DEF deploySeleniumChrome, Check, Selenium, Early

LEMMA InitSuiteSteps ==
    ASSUME NEW env \in Environment
    PROVE  Early(env, InitSuite(env))
<1>1. Early(env, Step("connect", "-"))
    BY EarlyStep DEF BeforeOps
<1>2. env.selenium => Early(env, deploySeleniumChrome)
    BY SeleniumIsEarly
<1>3. Early(env, When(env.selenium, deploySeleniumChrome))
    BY <1>2, EarlyWhen DEF Environment
<1> QED BY <1>1, <1>3, EarlyLonger DEF InitSuite

LEMMA CatalogSteps ==
    ASSUME NEW env \in Environment, env.ownCatalog
    PROVE  /\ Early(env, CreateCatalogSource(env))
           /\ [op |-> "adopt", arg |-> "catalog"] \in Range(CreateCatalogSource(env))
<1> DEFINE s1 == Step("adopt", "catalog")
           s2 == Step("found", "catalog")
           s3 == Step("sight", "catalog")
           s4 == When(env.openshift, Step("restart", "catalog"))
           s5 == Step("settle", "catalog")
           s6 == Step("await", "catalog")
<1>1. Early(env, s1) /\ Range(s1) = {[op |-> "adopt", arg |-> "catalog"]}
    BY EarlyStep, ObjectNames DEF BeforeOps
<1>2. Early(env, s2) BY EarlyStep, ObjectNames DEF BeforeOps
<1>3. Early(env, s3) BY EarlyStep, ObjectNames DEF BeforeOps
<1>4. Early(env, s4)
    <2>1. Early(env, Step("restart", "catalog")) BY EarlyStep, ObjectNames DEF BeforeOps
    <2> QED BY <2>1, EarlyWhen DEF Environment
<1>5. Early(env, s5) BY EarlyStep, ObjectNames DEF BeforeOps
<1>6. Early(env, s6) BY EarlyStep, ObjectNames DEF BeforeOps
<1> DEFINE p2 == s1 \o s2
           p3 == p2 \o s3
           p4 == p3 \o s4
           p5 == p4 \o s5
           p6 == p5 \o s6
<1>7. CreateCatalogSource(env) = p6
    BY DEF CreateCatalogSource
<1>8. Early(env, p2) /\ Range(s1) \subseteq Range(p2)
    <2>1. p2 = s1 \o s2 OBVIOUS
    <2> HIDE DEF s1, s2, p2
    <2> QED BY <1>1, <1>2, <2>1, EarlyLonger
<1>9. Early(env, p3) /\ Range(s1) \subseteq Range(p3)
    <2>1. p3 = p2 \o s3 OBVIOUS
    <2> HIDE DEF s1, s3, p2, p3
    <2> QED BY <1>3, <1>8, <2>1, EarlyLonger
<1>10. Early(env, p4) /\ Range(s1) \subseteq Range(p4)
    <2>1. p4 = p3 \o s4 OBVIOUS
    <2> HIDE DEF s1, s4, p3, p4
    <2> QED BY <1>4, <1>9, <2>1, EarlyLonger
<1>11. Early(env, p5) /\ Range(s1) \subseteq Range(p5)
    <2>1. p5 = p4 \o s5 OBVIOUS
    <2> HIDE DEF s1, s5, p4, p5
    <2> QED BY <1>5, <1>10, <2>1, EarlyLonger
<1>12. Early(env, p6) /\ Range(s1) \subseteq Range(p6)
    <2>1. p6 = p5 \o s6 OBVIOUS
    <2> HIDE DEF s1, s6, p5, p6
    <2> QED BY <1>6, <1>11, <2>1, EarlyLonger
<1> HIDE DEF s1, p6
<1> QED BY <1>1, <1>7, <1>12

LEMMA InstallSteps ==
    ASSUME NEW k \in {"single", "clusterwide"}, NEW env \in Environment
    PROVE  LET I == InstallOperatorOLM(k, env)
           IN /\ I \in Seq(BeforeSteps(env)) /\ ReturnLast(I)
              /\ [op |-> "return", arg |-> "-"] \in Range(I)
              /\ env.ownCatalog => [op |-> "adopt", arg |-> "catalog"] \in Range(I)
<1> DEFINE s1 == When(k = "single", Step("create", "namespace"))
           s2 == Step("check", "-")
           s3 == When(env.ownCatalog, CreateCatalogSource(env))
           s4 == When(k = "single", Step("create", "group"))
           s5 == When(~env.configured, Step("lookUp", "manifest"))
           s6 == Step("create", Subscription[k])
           s7 == Step("await", Operator[k])
           s8 == Step("return", "-")
<1>0. /\ env.ownCatalog \in BOOLEAN /\ env.configured \in BOOLEAN
      /\ Subscription[k] \in Objects \ {"catalog", "seleniumNamespace"} /\ Operator[k] \in Objects
    BY ObjectNames DEF Environment, Subscription, Operator
<1>1. Early(env, s1)
    <2>1. Early(env, Step("create", "namespace")) BY EarlyStep, ObjectNames DEF BeforeOps
    <2> QED BY <2>1, EarlyWhen
<1>2. Early(env, s2) BY EarlyStep DEF BeforeOps
<1>3. Early(env, s3) /\ (env.ownCatalog => [op |-> "adopt", arg |-> "catalog"] \in Range(s3))
    BY <1>0, CatalogSteps, EarlyWhen
<1>4. Early(env, s4)
    <2>1. Early(env, Step("create", "group")) BY EarlyStep, ObjectNames DEF BeforeOps
    <2> QED BY <2>1, EarlyWhen
<1>5. Early(env, s5)
    <2>1. Early(env, Step("lookUp", "manifest")) BY EarlyStep, ObjectNames DEF BeforeOps
    <2> QED BY <1>0, <2>1, EarlyWhen
<1>6. Early(env, s6) BY <1>0, EarlyStep DEF BeforeOps
<1>7. Early(env, s7) BY <1>0, EarlyStep DEF BeforeOps
<1>8. /\ s8 \in Seq(BeforeSteps(env)) /\ ReturnLast(s8)
      /\ Range(s8) = {[op |-> "return", arg |-> "-"]}
    <2>1. [op |-> "return", arg |-> "-"] \in BeforeSteps(env)
        BY DEF BeforeSteps, BeforeOps
    <2>2. ReturnLast(s8)
        BY DEF Step, ReturnLast
    <2> HIDE DEF s8
    <2>3. s8 = Step("return", "-")
        BY DEF s8
    <2> QED BY <2>1, <2>2, <2>3, OneStep
<1> DEFINE p2 == s1 \o s2
           p3 == p2 \o s3
           p4 == p3 \o s4
           p5 == p4 \o s5
           p6 == p5 \o s6
           p7 == p6 \o s7
<1>9. InstallOperatorOLM(k, env) = p7 \o s8
    BY DEF InstallOperatorOLM, Check
<1>10. Early(env, p2)
    <2>1. p2 = s1 \o s2 OBVIOUS
    <2> HIDE DEF s2, s1, p2
    <2> QED BY <1>2, <1>1, <2>1, EarlyLonger
<1>11. Early(env, p3) /\ Range(s3) \subseteq Range(p3)
    <2>1. p3 = p2 \o s3 OBVIOUS
    <2> HIDE DEF s3, p2, p3
    <2> QED BY <1>3, <1>10, <2>1, EarlyLonger
<1>12. Early(env, p4) /\ Range(s3) \subseteq Range(p4)
    <2>1. p4 = p3 \o s4 OBVIOUS
    <2> HIDE DEF s3, s4, p3, p4
    <2> QED BY <1>4, <1>11, <2>1, EarlyLonger
<1>13. Early(env, p5) /\ Range(s3) \subseteq Range(p5)
    <2>1. p5 = p4 \o s5 OBVIOUS
    <2> HIDE DEF s3, s5, p4, p5
    <2> QED BY <1>5, <1>12, <2>1, EarlyLonger
<1>14. Early(env, p6) /\ Range(s3) \subseteq Range(p6)
    <2>1. p6 = p5 \o s6 OBVIOUS
    <2> HIDE DEF s3, s6, p5, p6
    <2> QED BY <1>6, <1>13, <2>1, EarlyLonger
<1>15. Early(env, p7) /\ Range(s3) \subseteq Range(p7)
    <2>1. p7 = p6 \o s7 OBVIOUS
    <2> HIDE DEF s3, s7, p6, p7
    <2> QED BY <1>7, <1>14, <2>1, EarlyLonger
<1> HIDE DEF s3, s8, p7
<1>16. p7 \in Seq(BeforeSteps(env))
    BY <1>15, EarlyIsBefore
<1>17. ReturnLast(p7 \o s8)
    BY <1>8, <1>15, ReturnAtEnd DEF Early
<1>18. /\ p7 \o s8 \in Seq(BeforeSteps(env))
       /\ Range(p7 \o s8) = Range(p7) \cup Range(s8)
    BY <1>8, <1>16, Joined
<1> QED BY <1>3, <1>8, <1>9, <1>15, <1>17, <1>18

LEMMA InstallBundleSteps ==
    ASSUME NEW env \in Environment
    PROVE  installOperator(env) \in Seq(BeforeSteps(env))
<1>1. Early(env, Step("create", "namespace"))
    BY EarlyStep, ObjectNames DEF BeforeOps
<1>2. \A o \in {"manifests", "clusterManifests"} : Early(env, Step("apply", o))
    BY EarlyStep, ObjectNames DEF BeforeOps
<1>3. Early(env, Step("await", "bundleOperator"))
    BY EarlyStep, ObjectNames DEF BeforeOps
<1>4. Early(env, When(env.pullSecret, Check \o Step("restart", "bundleOperator")))
    <2>1. Early(env, Check) /\ Early(env, Step("restart", "bundleOperator"))
        BY EarlyStep, ObjectNames DEF BeforeOps, Check
    <2>2. Early(env, Check \o Step("restart", "bundleOperator"))
        BY <2>1, EarlyLonger
    <2> QED BY <2>2, EarlyWhen DEF Environment
<1> DEFINE w == When(env.pullSecret, Check \o Step("restart", "bundleOperator"))
<1>5. /\ Early(env, w)
      /\ installOperator(env) = Step("create", "namespace") \o Step("apply", "manifests")
              \o Step("apply", "clusterManifests") \o w \o Step("await", "bundleOperator")
    BY <1>4 DEF installOperator
<1> HIDE DEF w
<1>6. Early(env, installOperator(env))
    BY <1>1, <1>2, <1>3, <1>5 DEF Early
<1> QED BY <1>6, EarlyIsBefore

LEMMA BeforeSuiteSteps ==
    ASSUME NEW k \in Kind, NEW env \in Environment
    PROVE  LET B == BeforeSuite(k, env)
           IN /\ B \in Seq(BeforeSteps(env))
              /\ k # "bundle" =>
                     /\ ReturnLast(B)
                     /\ [op |-> "return", arg |-> "-"] \in Range(B)
                     /\ env.ownCatalog => [op |-> "adopt", arg |-> "catalog"] \in Range(B)
<1>1. Early(env, InitSuite(env)) /\ InitSuite(env) \in Seq(BeforeSteps(env))
    BY InitSuiteSteps, EarlyIsBefore
<1>2. CASE k = "bundle"
    <2> QED BY <1>1, <1>2, InstallBundleSteps, Joined DEF BeforeSuite
<1>3. CASE k \in {"single", "clusterwide"}
    <2>1. BeforeSuite(k, env) = InitSuite(env) \o InstallOperatorOLM(k, env)
        BY <1>3 DEF BeforeSuite
    <2>2. ReturnLast(BeforeSuite(k, env))
        BY <1>1, <1>3, <2>1, InstallSteps, ReturnAtEnd DEF Early
    <2> QED BY <1>1, <1>3, <2>1, <2>2, InstallSteps, Joined
<1> QED BY <1>2, <1>3 DEF Kind

----------------------------------------------------------------------------
(* What a step does to the invariant. *)

LEMMA Constants ==
    TypeOK => /\ kind \in Kind /\ config \in Environment
              /\ config.ownCatalog \in BOOLEAN /\ config.selenium \in BOOLEAN
BY DEF TypeOK, Kind, Environment

LEMMA StepSets ==
    AfterSteps \subseteq Steps /\ \A env : BeforeSteps(env) \subseteq Steps
BY DEF AfterSteps, BeforeSteps, Steps, AfterOps, BeforeOps, Ops

\* Nothing of what has been removed comes back.
Quiet ==
    /\ \A o \in {"namespace", "seleniumNamespace"} :
           cluster[o] = "absent" => cluster'[o] = "absent"
    /\ \A o \in {"catalog", "clusterManifests", "wideSubscription"} :
           cluster[o] \notin Live => cluster'[o] \notin Live
    /\ cluster["wideSubscription"] \notin Live /\ cluster["wideCsv"] \notin Live =>
           cluster'["wideCsv"] \notin Live

\* A step of AfterSuite that is done has removed its object.
Effect ==
    /\ Head(todo).op # "deleteUnnamed"
    /\ Head(todo).op = "awaitGone" => cluster'[Head(todo).arg] = "absent"
    /\ Head(todo).op \in {"deleteQuietly", "deleteCsv"} => cluster'[Head(todo).arg] \notin Live
    /\ Head(todo).op = "deleteFile" => cluster'["clusterManifests"] \notin Live

LEMMA CsvComesNext ==
    ASSUME ListsOK, phase = "after", Due("deleteQuietly", "wideSubscription")
    PROVE  Due("deleteCsv", "wideCsv")
<1>1. todo \in Seq(AfterSteps) /\ Ordered(todo)
    BY DEF ListsOK
<1>2. Len(todo) \in Nat
    BY <1>1, LenProperties
<1>3. PICK i \in 1 .. Len(todo) : todo[i] = [op |-> "deleteQuietly", arg |-> "wideSubscription"]
    BY <1>1, RangeEquality DEF Due
<1>4. i < Len(todo) /\ todo[i + 1] = [op |-> "deleteCsv", arg |-> "wideCsv"]
    BY <1>1, <1>3 DEF Ordered
<1>5. i + 1 \in 1 .. Len(todo)
    BY <1>2, <1>4
<1> QED BY <1>1, <1>4, <1>5, RangeEquality DEF Due

LEMMA Advancing ==
    ASSUME TypeOK, ListsOK, todo # <<>>, Advance
    PROVE  /\ phase \in {"before", "after"}
           /\ todo' \in Seq(Steps) /\ ListsOK'
           /\ Head(todo) \in Steps
           /\ phase = "before" => Head(todo) \in BeforeSteps(config)
           /\ phase = "after" => Head(todo) \in AfterSteps
           /\ Range(todo) \subseteq Range(todo') \cup {Head(todo)}
           /\ ReturnLast(todo) => ReturnLast(todo')
<1>1. phase \in {"before", "after"}
    BY DEF TypeOK, ListsOK
<1>2. todo \in Seq(Steps) /\ todo' = Tail(todo) /\ UNCHANGED <<config, phase, failed>>
    BY DEF TypeOK, Advance
<1>3. /\ todo' \in Seq(Steps) /\ Head(todo) \in Steps
      /\ Range(todo) \subseteq Range(todo') \cup {Head(todo)}
      /\ ReturnLast(todo) => ReturnLast(todo')
      /\ Ordered(todo) => Ordered(todo')
    BY <1>2, TailKeeps
<1>4. phase = "before" => todo' \in Seq(BeforeSteps(config)) /\ Head(todo) \in BeforeSteps(config)
    BY <1>2, TailKeeps DEF ListsOK
<1>5. phase = "after" => todo' \in Seq(AfterSteps) /\ Head(todo) \in AfterSteps
    BY <1>2, TailKeeps DEF ListsOK
<1>6. ListsOK'
    BY <1>1, <1>2, <1>3, <1>4, <1>5 DEF ListsOK
<1> QED BY <1>1, <1>3, <1>4, <1>5, <1>6

LEMMA RemovedAdvance ==
    ASSUME TypeOK, ListsOK, RemovalIsDue, todo # <<>>, Advance, olminfo' = olminfo,
           phase = "after" => Quiet /\ Effect
    PROVE  RemovalIsDue'
<1> SUFFICES ASSUME Removing' PROVE (NamespacesGo /\ ManifestsGo /\ CatalogGoes /\ InstallationGoes)'
    BY DEF RemovalIsDue
<1>1. phase = "after" /\ Removing
    <2>1. phase \in {"before", "after"} BY Advancing
    <2>2. UNCHANGED <<phase, failed, report>> BY DEF Advance
    <2> QED BY <2>1, <2>2 DEF Removing
<1>2. NamespacesGo /\ ManifestsGo /\ CatalogGoes /\ InstallationGoes
    BY <1>1 DEF RemovalIsDue
<1>3. Quiet /\ Effect
    BY <1>1
<1>4. \A x : x \in Range(todo) => x \in Range(todo') \/ x = Head(todo)
    BY Advancing
<1>5. UNCHANGED <<kind, config, olminfo>>
    BY DEF Advance
<1>6. NamespacesGo'
    BY <1>2, <1>3, <1>4, <1>5 DEF NamespacesGo, Due, Quiet, Effect
<1>7. ManifestsGo'
    BY <1>2, <1>3, <1>4, <1>5 DEF ManifestsGo, Due, Quiet, Effect
<1>8. CatalogGoes'
    BY <1>2, <1>3, <1>4, <1>5 DEF CatalogGoes, Due, Quiet, Effect
<1>9. InstallationGoes'
    BY <1>1, <1>2, <1>3, <1>4, <1>5, CsvComesNext DEF InstallationGoes, Due, Quiet, Effect
<1> QED BY <1>6, <1>7, <1>8, <1>9

LEMMA RemovedQuiet ==
    ASSUME TypeOK, ListsOK, RemovalIsDue, Quiet,
           UNCHANGED <<kind, config, phase, todo, olminfo, failed, report>>
    PROVE  RemovalIsDue'
<1> SUFFICES ASSUME Removing' PROVE (NamespacesGo /\ ManifestsGo /\ CatalogGoes /\ InstallationGoes)'
    BY DEF RemovalIsDue
<1>1. NamespacesGo /\ ManifestsGo /\ CatalogGoes /\ InstallationGoes
    BY DEF RemovalIsDue, Removing, LastVerdict
<1>2. Due("deleteQuietly", "wideSubscription") => Due("deleteCsv", "wideCsv")
    <2>1. CASE phase = "after" BY <2>1, CsvComesNext
    <2>2. CASE phase # "after"
        <3>1. todo = <<>> BY <2>2 DEF Removing, ListsOK
        <3> QED BY <3>1 DEF Due, Range
    <2> QED BY <2>1, <2>2
<1>3. NamespacesGo'
    BY <1>1 DEF NamespacesGo, Due, Quiet
<1>4. ManifestsGo'
    BY <1>1 DEF ManifestsGo, Due, Quiet
<1>5. CatalogGoes'
    BY <1>1 DEF CatalogGoes, Due, Quiet
<1>6. InstallationGoes'
    BY <1>1, <1>2 DEF InstallationGoes, Due, Quiet
<1> QED BY <1>3, <1>4, <1>5, <1>6

\* The calls' own variables stay well typed.
CallTyped ==
    /\ clients' \in BOOLEAN
    /\ catalog' \in Handles
    /\ olminfo' \in Handles \cup {"none"}
    /\ cluster' \in [Objects -> Status]
    /\ origin' \in [Objects -> 0 .. Runs]
    /\ calm' \in BOOLEAN

LEMMA AdvanceStep ==
    ASSUME IInv, todo # <<>>, Advance, CallTyped, NothingElse',
           phase = "after" => Quiet /\ Effect,
           \/ UNCHANGED <<catalog, olminfo>> /\ Head(todo).op \notin {"adopt", "return"}
           \/ olminfo' = olminfo /\ catalog' # "nil" /\ Head(todo).op # "return"
           \/ olminfo' = catalog /\ catalog' = catalog /\ Head(todo).op = "return"
    PROVE  IInv'
<1> USE DEF IInv
<1>1. UNCHANGED <<kind, config, phase, failed, report>>
    BY DEF Advance
<1>2. /\ phase \in {"before", "after"} /\ todo' \in Seq(Steps) /\ ListsOK'
      /\ phase = "before" => Head(todo) \in BeforeSteps(config)
      /\ phase = "after" => Head(todo) \in AfterSteps
      /\ Range(todo) \subseteq Range(todo') \cup {Head(todo)}
      /\ ReturnLast(todo) => ReturnLast(todo')
    BY Advancing
<1>3. TypeOK'
    <2>1. run' = run BY <1>1 DEF run
    <2> QED BY <1>1, <1>2, <2>1 DEF TypeOK, CallTyped
<1>4. phase = "after" => Head(todo).op \notin {"adopt", "return"}
    BY <1>2 DEF AfterSteps, AfterOps
<1>5. Removing' <=> Removing
    BY <1>1 DEF Removing, LastVerdict
<1>6. CASE Head(todo).op # "return"
    <2>1. olminfo' = olminfo
        BY <1>6
    <2>2. RemovalIsDue'
        BY <2>1, RemovedAdvance
    <2>3. InfoIsKnown'
        <3>1. [op |-> "return", arg |-> "-"] # Head(todo)
            BY <1>6
        <3>2. Due("return", "-") => Due("return", "-")'
            BY <1>2, <3>1 DEF Due
        <3>3. CASE UNCHANGED catalog /\ Head(todo).op # "adopt"
            <4>1. [op |-> "adopt", arg |-> "catalog"] # Head(todo)
                BY <3>3
            <4>2. Due("adopt", "catalog") => Due("adopt", "catalog")'
                BY <1>2, <4>1 DEF Due
            <4> QED BY <1>1, <1>2, <1>5, <2>1, <3>2, <3>3, <4>2 DEF InfoIsKnown
        <3>4. CASE catalog' # "nil"
            BY <1>1, <1>2, <1>5, <2>1, <3>2, <3>4 DEF InfoIsKnown
        <3> QED BY <1>6, <3>3, <3>4
    <2> QED BY <1>2, <1>3, <2>2, <2>3
<1>7. CASE Head(todo).op = "return"
    <2>1. phase = "before" /\ olminfo' = catalog /\ catalog' = catalog
        BY <1>2, <1>4, <1>7
    <2>2. RemovalIsDue'
        BY <1>1, <2>1 DEF RemovalIsDue, Removing
    <2>3. catalog \in Handles
        BY DEF TypeOK
    <2>4. InfoIsKnown'
        <3> SUFFICES ASSUME kind # "bundle" PROVE InfoIsKnown'
            BY <1>1 DEF InfoIsKnown
        <3>1. ReturnLast(todo) /\ todo \in Seq(Steps)
            BY <2>1 DEF InfoIsKnown, TypeOK
        <3>2. Len(todo) \in Nat \ {0} /\ Head(todo) = todo[1]
            BY <3>1, EmptySeq
        <3>3. Len(todo) = 1
            <4>1. todo[1].op = "return" BY <1>7, <3>2
            <4>2. 1 \in 1 .. Len(todo) BY <3>2
            <4> QED BY <3>1, <4>1, <4>2 DEF ReturnLast
        <3>4. Range(todo) = {Head(todo)}
            BY <3>1, <3>2, <3>3, RangeEquality
        <3>5. ~Due("adopt", "catalog")
            BY <1>7, <3>4 DEF Due
        <3>6. olminfo' = "nil" => ~config.ownCatalog
            BY <2>1, <3>5 DEF InfoIsKnown
        <3>7. olminfo' # "none" /\ catalog' = olminfo'
            BY <2>1, <2>3 DEF Handles
        <3> QED BY <1>1, <1>2, <2>1, <3>1, <3>6, <3>7 DEF InfoIsKnown
    <2> QED BY <1>2, <1>3, <2>2, <2>4
<1> QED BY <1>6, <1>7

LEMMA ScriptsTyped ==
    ASSUME TypeOK
    PROVE  /\ AfterSuite(kind, config, olminfo) \in Seq(AfterSteps)
           /\ AfterSuite(kind, config, olminfo) \in Seq(Steps)
           /\ Ordered(AfterSuite(kind, config, olminfo))
<1>1. kind \in Kind /\ config \in Environment /\ olminfo \in Handles \cup {"none"}
    BY Constants DEF TypeOK
<1> QED BY <1>1, AfterSuiteSteps, StepSets, SeqMonotonic

LEMMA VerdictTyped ==
    ASSUME TypeOK, phase # "idle", NEW v \in Verdicts
    PROVE  /\ Append(report, v) \in Seq(Verdicts)
           /\ Append(report, v) # <<>>
           /\ Len(Append(report, v)) = run /\ run \in 0 .. Runs
           /\ Append(report, v)[Len(Append(report, v))] = v
BY AppendProperties DEF TypeOK, run

LEMMA PanicStep ==
    ASSUME IInv, todo # <<>>, Panic, cluster' \in [Objects -> Status], calm' \in BOOLEAN,
           origin' = origin, NothingElse'
    PROVE  IInv'
<1> USE DEF IInv
<1>1. UNCHANGED <<kind, config, clients, catalog, olminfo>> /\ failed' = TRUE
    BY DEF Panic, process
<1>2. phase \in {"before", "after"}
    BY DEF TypeOK, ListsOK
<1>3. CASE phase = "before"
    <2>1. /\ phase' = "after" /\ report' = report
          /\ todo' = AfterSuite(kind, config, olminfo)
        BY <1>3 DEF Panic
    <2>2. todo' \in Seq(Steps) /\ todo' \in Seq(AfterSteps) /\ Ordered(todo')
        BY <2>1, ScriptsTyped
    <2>3. run' = run
        BY <1>3, <2>1 DEF run
    <2>4. TypeOK'
        BY <1>1, <2>1, <2>2, <2>3 DEF TypeOK
    <2>5. ~Removing'
        BY <1>1, <2>1 DEF Removing
    <2> QED BY <1>1, <2>1, <2>2, <2>4, <2>5 DEF ListsOK, InfoIsKnown, RemovalIsDue
<1>4. CASE phase = "after"
    <2>1. phase' = "idle" /\ todo' = <<>> /\ report' = Append(report, "failed")
        BY <1>4 DEF Panic
    <2>2. /\ report' \in Seq(Verdicts) /\ Len(report') = run /\ run \in 0 .. Runs
          /\ report'[Len(report')] = "failed"
        BY <1>4, <2>1, VerdictTyped DEF Verdicts
    <2>3. run' \in 0 .. Runs
        BY <2>1, <2>2 DEF run
    <2>4. TypeOK'
        BY <1>1, <2>1, <2>2, <2>3 DEF TypeOK
    <2>5. ~Removing'
        BY <2>1, <2>2 DEF Removing, LastVerdict
    <2> QED BY <1>1, <2>1, <2>4, <2>5 DEF ListsOK, InfoIsKnown, RemovalIsDue
<1> QED BY <1>2, <1>3, <1>4

----------------------------------------------------------------------------
(* The steps of Next. *)

LEMMA InitInvariant == Init => IInv
<1> SUFFICES ASSUME Init PROVE IInv
    OBVIOUS
<1>1. todo = <<>> /\ report = <<>> /\ phase = "idle"
    BY DEF Init
<1>2. TypeOK
    <2>1. run = 0 BY <1>1 DEF run
    <2>2. cluster \in [Objects -> Status] BY DEF Init, Status
    <2>3. origin \in [Objects -> 0 .. Runs] BY DEF Init
    <2>4. catalog \in Handles /\ olminfo \in Handles \cup {"none"} BY DEF Init, Handles
    <2>5. todo \in Seq(Steps) /\ report \in Seq(Verdicts) BY <1>1
    <2>6. run \in 0 .. Runs BY <2>1
    <2>7. clients \in BOOLEAN /\ failed \in BOOLEAN /\ calm \in BOOLEAN BY DEF Init
    <2>8. kind \in Kinds /\ config \in Configs BY DEF Init
    <2> QED BY <1>1, <2>2, <2>3, <2>4, <2>5, <2>6, <2>7, <2>8 DEF TypeOK
<1>3. ListsOK /\ NothingElse
    BY ObjectNames DEF Init, ListsOK, NothingElse
<1>4. ~Removing
    BY <1>1 DEF Removing
<1> QED BY <1>1, <1>2, <1>3, <1>4 DEF IInv, InfoIsKnown, RemovalIsDue, Init

LEMMA StartSuiteStep == ASSUME IInv, NEW k \in Kinds, StartSuite(k) PROVE IInv'
<1> USE DEF IInv
<1>1. /\ kind' = k /\ config' = config /\ phase' = "before" /\ ~failed' /\ report' = report
      /\ todo' = BeforeSuite(k, config) /\ catalog' = "nil" /\ olminfo' = "none"
      /\ UNCHANGED <<cluster, origin>>
    BY DEF StartSuite
<1>2. k \in Kind /\ config \in Environment
    BY Constants DEF Kind
<1>3. /\ todo' \in Seq(BeforeSteps(config))
      /\ k # "bundle" => /\ ReturnLast(todo')
                         /\ [op |-> "return", arg |-> "-"] \in Range(todo')
                         /\ config.ownCatalog => [op |-> "adopt", arg |-> "catalog"] \in Range(todo')
    BY <1>1, <1>2, BeforeSuiteSteps
<1>4. todo' \in Seq(Steps)
    BY <1>3, StepSets, SeqMonotonic
<1>5. TypeOK'
    <2>1. run' \in 0 .. Runs
        BY DEF StartSuite, run, TypeOK
    <2> QED BY <1>1, <1>4, <2>1 DEF StartSuite, TypeOK, Handles
<1>6. ListsOK' /\ NothingElse'
    BY <1>1, <1>3 DEF ListsOK, NothingElse
<1>7. ~Removing'
    BY <1>1 DEF Removing
<1> QED BY <1>1, <1>3, <1>5, <1>6, <1>7 DEF InfoIsKnown, RemovalIsDue, Due

LEMMA StartSpecsStep == ASSUME IInv, StartSpecs PROVE IInv'
<1> USE DEF IInv
<1>1. /\ phase = "before" /\ phase' = "specs" /\ todo = <<>>
      /\ UNCHANGED <<kind, config, todo, clients, catalog, olminfo, failed, report, cluster,
                     origin, calm>>
    BY DEF StartSpecs, process
<1>2. TypeOK'
    <2>1. run' = run BY <1>1 DEF run
    <2> QED BY <1>1, <2>1 DEF TypeOK
<1>3. ListsOK' /\ NothingElse'
    BY <1>1 DEF ListsOK, NothingElse
<1>4. ~Removing'
    BY <1>1 DEF Removing
<1>5. kind # "bundle" => olminfo # "none"
    BY <1>1 DEF InfoIsKnown, Due, Range
<1> QED BY <1>1, <1>2, <1>3, <1>4, <1>5 DEF InfoIsKnown, RemovalIsDue

LEMMA EndSpecsStep == ASSUME IInv, EndSpecs PROVE IInv'
<1> USE DEF IInv
<1>1. /\ phase = "specs" /\ phase' = "after" /\ failed' \in BOOLEAN
      /\ todo' = AfterSuite(kind, config, olminfo)
      /\ UNCHANGED <<kind, config, clients, catalog, olminfo, report, cluster, origin, calm>>
    BY DEF EndSpecs, process
<1>2. TypeOK'
    <2>1. run' = run BY <1>1 DEF run
    <2> QED BY <1>1, <2>1, ScriptsTyped DEF TypeOK
<1>3. ListsOK' /\ NothingElse'
    BY <1>1, ScriptsTyped DEF ListsOK, NothingElse
<1>4. kind # "bundle" => olminfo # "none" /\ (olminfo = "nil" => ~config.ownCatalog)
    BY <1>1 DEF InfoIsKnown
<1>5. InfoIsKnown'
    BY <1>1, <1>4 DEF InfoIsKnown
<1>6. kind \in Kind /\ config \in Environment /\ olminfo \in Handles \cup {"none"}
    BY Constants DEF TypeOK
<1>7. (NamespacesGo /\ ManifestsGo /\ CatalogGoes /\ InstallationGoes)'
    BY <1>1, <1>4, <1>6, AfterSuiteSteps
    DEF NamespacesGo, ManifestsGo, CatalogGoes, InstallationGoes, Due
<1> QED BY <1>2, <1>3, <1>5, <1>7 DEF RemovalIsDue

LEMMA EndSuiteStep == ASSUME IInv, EndSuite PROVE IInv'
<1> USE DEF IInv
<1>1. /\ phase = "after" /\ phase' = "idle" /\ todo = <<>> /\ todo' = <<>>
      /\ report' = Append(report, IF failed THEN "failed" ELSE "passed")
      /\ UNCHANGED <<kind, config, clients, catalog, olminfo, failed, cluster, origin, calm>>
    BY DEF EndSuite, process
<1>2. /\ report' \in Seq(Verdicts) /\ Len(report') = run /\ run \in 0 .. Runs
      /\ report'[Len(report')] = IF failed THEN "failed" ELSE "passed"
    BY <1>1, VerdictTyped DEF Verdicts
<1>3. TypeOK'
    <2>1. run' \in 0 .. Runs BY <1>1, <1>2 DEF run
    <2> QED BY <1>1, <1>2, <2>1 DEF TypeOK
<1>4. ListsOK' /\ NothingElse'
    BY <1>1 DEF ListsOK, NothingElse
<1>5. Removing' => Removing
    BY <1>1, <1>2 DEF Removing, LastVerdict
<1>6. InfoIsKnown'
    BY <1>1, <1>5 DEF InfoIsKnown
<1>7. RemovalIsDue'
    BY <1>1, <1>5 DEF RemovalIsDue, NamespacesGo, ManifestsGo, CatalogGoes, InstallationGoes, Due
<1> QED BY <1>3, <1>4, <1>6, <1>7

LEMMA DieStep == ASSUME IInv, Die PROVE IInv'
<1> USE DEF IInv
<1>1. /\ phase # "idle" /\ phase' = "idle" /\ todo' = <<>> /\ calm' \in BOOLEAN
      /\ report' = Append(report, "died")
      /\ UNCHANGED <<kind, config, clients, catalog, olminfo, failed, cluster, origin>>
    BY DEF Die, process
<1>2. /\ report' \in Seq(Verdicts) /\ Len(report') = run /\ run \in 0 .. Runs
      /\ report'[Len(report')] = "died"
    BY <1>1, VerdictTyped DEF Verdicts
<1>3. TypeOK'
    <2>1. run' \in 0 .. Runs BY <1>1, <1>2 DEF run
    <2> QED BY <1>1, <1>2, <2>1 DEF TypeOK
<1>4. ListsOK' /\ NothingElse'
    BY <1>1 DEF ListsOK, NothingElse
<1>5. ~Removing'
    BY <1>1, <1>2 DEF Removing, LastVerdict
<1> QED BY <1>1, <1>3, <1>4, <1>5 DEF InfoIsKnown, RemovalIsDue

LEMMA PassStep == ASSUME IInv, Pass PROVE IInv'
<1>1. /\ todo # <<>> /\ Head(todo).op \in {"check", "sight", "settle", "logs"} /\ Advance
      /\ UNCHANGED <<clients, catalog, olminfo, cluster, origin, calm>>
    BY DEF Pass, At, process
<1>2. CallTyped
    BY <1>1 DEF CallTyped, IInv, TypeOK
<1>3. Quiet /\ Effect
    BY <1>1 DEF Quiet, Effect
<1>4. NothingElse'
    BY <1>1 DEF IInv, NothingElse, Advance
<1> QED BY <1>1, <1>2, <1>3, <1>4, AdvanceStep

LEMMA ConnectStep == ASSUME IInv, Connect PROVE IInv'
<1>1. /\ todo # <<>> /\ Head(todo).op = "connect" /\ Advance /\ clients' \in BOOLEAN
      /\ UNCHANGED <<catalog, olminfo, cluster, origin, calm>>
    BY DEF Connect, At
<1>2. CallTyped
    BY <1>1 DEF CallTyped, IInv, TypeOK
<1>3. Quiet /\ Effect
    BY <1>1 DEF Quiet, Effect
<1>4. NothingElse'
    BY <1>1 DEF IInv, NothingElse, Advance
<1> QED BY <1>1, <1>2, <1>3, <1>4, AdvanceStep

LEMMA RunTyped == ASSUME IInv, todo # <<>> PROVE run \in 0 .. Runs
BY DEF IInv, TypeOK

LEMMA CreateObjectStep == ASSUME IInv, CreateObject PROVE IInv'
<1>1. /\ todo # <<>> /\ Head(todo).op \in {"create", "apply"} /\ Advance
      /\ Head(todo).op = "create" => cluster[Arg] = "absent"
      /\ cluster' = [cluster EXCEPT ![Arg] = IF @ = "absent" THEN Born(Arg) ELSE @]
      /\ origin' = [origin EXCEPT ![Arg] = run]
      /\ UNCHANGED <<clients, catalog, olminfo, calm>>
    BY DEF CreateObject, At, process
<1>2. /\ phase \in {"before", "after"}
      /\ phase = "before" => Head(todo) \in BeforeSteps(config)
      /\ phase = "after" => Head(todo) \in AfterSteps
    BY <1>1, Advancing DEF IInv
<1>3. phase = "before" /\ Head(todo) \in BeforeSteps(config)
    BY <1>1, <1>2 DEF AfterSteps, AfterOps
<1>4. CallTyped
    <2>1. Born(Arg) \in Status
        BY DEF Born, Status
    <2> QED BY <1>1, <2>1, RunTyped DEF CallTyped, IInv, TypeOK
<1>5. NothingElse'
    <2>1. Arg # "catalog"
        BY <1>1, <1>3 DEF BeforeSteps, Arg
    <2>2. Arg = "seleniumNamespace" => config.selenium
        BY <1>1, <1>3 DEF BeforeSteps, Arg
    <2>3. cluster \in [Objects -> Status] /\ "catalog" \in Objects /\ "seleniumNamespace" \in Objects
        BY ObjectNames DEF IInv, TypeOK
    <2>4. cluster'["catalog"] = cluster["catalog"]
        BY <1>1, <2>1, <2>3
    <2>5. ASSUME ~config.selenium
          PROVE  cluster'["seleniumNamespace"] = cluster["seleniumNamespace"]
        <3>1. Arg # "seleniumNamespace" BY <2>2, <2>5
        <3> QED BY <1>1, <2>3, <3>1
    <2>6. config' = config
        BY <1>1 DEF Advance
    <2> QED BY <2>4, <2>5, <2>6 DEF IInv, NothingElse
<1> QED BY <1>1, <1>3, <1>4, <1>5, AdvanceStep

LEMMA AdoptCatalogStep == ASSUME IInv, AdoptCatalog PROVE IInv'
<1>1. /\ todo # <<>> /\ Head(todo).op = "adopt" /\ Advance
      /\ catalog' \in {"own", "empty"}
      /\ \/ UNCHANGED <<cluster, origin>>
         \/ /\ cluster' = [cluster EXCEPT !["catalog"] = "pending"]
            /\ origin' = [origin EXCEPT !["catalog"] = run]
      /\ UNCHANGED <<clients, olminfo, calm>>
    BY DEF AdoptCatalog, At
<1>2. phase = "before" /\ Head(todo) \in BeforeSteps(config)
    <2>1. /\ phase \in {"before", "after"}
          /\ phase = "before" => Head(todo) \in BeforeSteps(config)
          /\ phase = "after" => Head(todo) \in AfterSteps
        BY <1>1, Advancing DEF IInv
    <2> QED BY <1>1, <2>1 DEF AfterSteps, AfterOps
<1>3. CallTyped
    <2>1. cluster' \in [Objects -> Status]
        BY <1>1 DEF IInv, TypeOK, Status
    <2>2. origin' \in [Objects -> 0 .. Runs]
        BY <1>1, RunTyped DEF IInv, TypeOK
    <2>3. catalog' \in Handles
        BY <1>1 DEF Handles
    <2> QED BY <1>1, <2>1, <2>2, <2>3 DEF CallTyped, IInv, TypeOK
<1>4. NothingElse'
    <2>1. config.ownCatalog
        BY <1>1, <1>2 DEF BeforeSteps
    <2>2. cluster'["seleniumNamespace"] = cluster["seleniumNamespace"]
        BY <1>1, ObjectNames DEF IInv, TypeOK
    <2> QED BY <1>1, <2>1, <2>2 DEF IInv, NothingElse, Advance
<1> QED BY <1>1, <1>2, <1>3, <1>4, AdvanceStep

LEMMA ReturnInfoStep == ASSUME IInv, ReturnInfo PROVE IInv'
<1>1. /\ todo # <<>> /\ Head(todo).op = "return" /\ Advance /\ olminfo' = catalog
      /\ UNCHANGED <<clients, catalog, cluster, origin, calm>>
    BY DEF ReturnInfo, At
<1>2. CallTyped
    BY <1>1 DEF CallTyped, IInv, TypeOK
<1>3. Quiet /\ Effect
    BY <1>1 DEF Quiet, Effect
<1>4. NothingElse'
    BY <1>1 DEF IInv, NothingElse, Advance
<1> QED BY <1>1, <1>2, <1>3, <1>4, AdvanceStep

LEMMA DeletedObjects ==
    ASSUME TypeOK, NEW D \in SUBSET Objects, cluster' = Deleted(D)
    PROVE  /\ cluster' \in [Objects -> Status]
           /\ \A o \in Objects : /\ cluster[o] = "absent" => cluster'[o] = "absent"
                                 /\ cluster[o] \notin Live => cluster'[o] \notin Live
           /\ \A o \in D : cluster'[o] \notin Live
BY DEF TypeOK, Deleted, Status, Live

LEMMA DeleteObjectStep == ASSUME IInv, DeleteObject PROVE IInv'
<1>1. /\ todo # <<>> /\ Head(todo).op \in {"delete", "deleteQuietly", "deleteIfFound", "deleteCsv"}
      /\ Advance /\ cluster' = Deleted({Arg})
      /\ UNCHANGED <<clients, catalog, olminfo, origin, calm>>
    BY DEF DeleteObject, At, process
<1>2. phase = "after" => Head(todo) \in AfterSteps
    BY <1>1, Advancing DEF IInv
<1>3. /\ cluster' \in [Objects -> Status]
      /\ \A o \in Objects : /\ cluster[o] = "absent" => cluster'[o] = "absent"
                            /\ cluster[o] \notin Live => cluster'[o] \notin Live
      /\ Arg \in Objects => cluster'[Arg] \notin Live
    BY <1>1 DEF IInv, TypeOK, Deleted, Status, Live
<1>4. CallTyped
    BY <1>1, <1>3 DEF CallTyped, IInv, TypeOK
<1>5. Quiet
    BY <1>3, ObjectNames DEF Quiet
<1>6. phase = "after" => Effect
    <2> SUFFICES ASSUME phase = "after" PROVE Effect
        OBVIOUS
    <2>1. Head(todo).op \in {"deleteQuietly", "deleteCsv"} => Arg \in Objects
        BY <1>2 DEF AfterSteps, Arg
    <2> QED BY <1>1, <1>3, <2>1 DEF Effect, Arg
<1>7. NothingElse'
    BY <1>1, <1>3, ObjectNames DEF IInv, NothingElse, Advance
<1> QED BY <1>1, <1>4, <1>5, <1>6, <1>7, AdvanceStep

LEMMA RestartPodsStep == ASSUME IInv, RestartPods PROVE IInv'
<1>1. /\ todo # <<>> /\ Head(todo).op = "restart" /\ Advance
      /\ cluster' \in {cluster, [cluster EXCEPT ![Arg] = IF @ = "ready" THEN "pending" ELSE @]}
      /\ UNCHANGED <<clients, catalog, olminfo, origin, calm>>
    BY DEF RestartPods, At, process
<1>2. /\ cluster' \in [Objects -> Status]
      /\ \A o \in Objects : /\ cluster[o] = "absent" => cluster'[o] = "absent"
                            /\ cluster[o] \notin Live => cluster'[o] \notin Live
    BY <1>1 DEF IInv, TypeOK, Status, Live
<1>3. CallTyped
    BY <1>1, <1>2 DEF CallTyped, IInv, TypeOK
<1>4. Quiet /\ Effect
    BY <1>1, <1>2, ObjectNames DEF Quiet, Effect
<1>5. NothingElse'
    BY <1>1, <1>2, ObjectNames DEF IInv, NothingElse, Advance
<1> QED BY <1>1, <1>3, <1>4, <1>5, AdvanceStep

LEMMA PollDoneStep == ASSUME IInv, PollDone PROVE IInv'
<1>1. /\ todo # <<>> /\ Advance
      /\ Head(todo).op \in {"await", "found", "lookUp", "awaitGone", "finalize"}
      /\ Head(todo).op = "awaitGone" => cluster[Arg] = "absent"
      /\ UNCHANGED <<clients, catalog, olminfo, cluster, origin, calm>>
    BY DEF PollDone, Observed, At, Gone, process
<1>2. CallTyped
    BY <1>1 DEF CallTyped, IInv, TypeOK
<1>3. Quiet /\ Effect
    BY <1>1 DEF Quiet, Effect, Arg
<1>4. NothingElse'
    BY <1>1 DEF IInv, NothingElse, Advance
<1> QED BY <1>1, <1>2, <1>3, <1>4, AdvanceStep

LEMMA FileDeleted ==
    ASSUME IInv, cluster' = Deleted(InFile)
    PROVE  /\ cluster' \in [Objects -> Status]
           /\ Quiet
           /\ cluster'["clusterManifests"] \notin Live
           /\ config' = config => NothingElse'
<1>1. InFile \in SUBSET Objects /\ TypeOK
    BY ObjectNames DEF InFile, IInv
<1>2. /\ cluster' \in [Objects -> Status]
      /\ \A o \in Objects : /\ cluster[o] = "absent" => cluster'[o] = "absent"
                            /\ cluster[o] \notin Live => cluster'[o] \notin Live
      /\ \A o \in InFile : cluster'[o] \notin Live
    BY <1>1, DeletedObjects
<1>3. Quiet /\ cluster'["clusterManifests"] \notin Live
    BY <1>2, ObjectNames DEF Quiet, InFile
<1>4. config' = config => NothingElse'
    BY <1>2, ObjectNames DEF IInv, NothingElse
<1> QED BY <1>2, <1>3, <1>4

LEMMA DeleteFileStep == ASSUME IInv, DeleteFile PROVE IInv'
<1>1. /\ todo # <<>> /\ Head(todo).op = "deleteFile" /\ cluster' = Deleted(InFile)
      /\ UNCHANGED <<origin, calm>>
      /\ (Advance /\ UNCHANGED <<clients, catalog, olminfo>>) \/ Panic
    BY DEF DeleteFile, At, process
<1>2. config' = config
    BY <1>1 DEF Advance, Panic
<1>3. /\ cluster' \in [Objects -> Status] /\ Quiet /\ cluster'["clusterManifests"] \notin Live
      /\ NothingElse'
    BY <1>1, <1>2, FileDeleted
<1>4. CASE Panic
    <2>1. calm' \in BOOLEAN BY <1>1 DEF IInv, TypeOK
    <2> QED BY <1>1, <1>3, <1>4, <2>1, PanicStep
<1>5. CASE Advance /\ UNCHANGED <<clients, catalog, olminfo>>
    <2>1. CallTyped
        BY <1>1, <1>3, <1>5 DEF CallTyped, IInv, TypeOK
    <2>2. Effect
        BY <1>1, <1>3 DEF Effect
    <2> QED BY <1>1, <1>3, <1>5, <2>1, <2>2, AdvanceStep
<1> QED BY <1>1, <1>4, <1>5

LEMMA PanickingStep ==
    ASSUME IInv, Deadline \/ Refused \/ Misfortune
    PROVE  IInv'
<1>1. todo # <<>> /\ Panic /\ UNCHANGED <<cluster, origin>> /\ (calm' = FALSE \/ calm' = calm)
    BY DEF Deadline, Refused, Refusal, Misfortune, At
<1>2. cluster' \in [Objects -> Status] /\ calm' \in BOOLEAN
    BY <1>1 DEF IInv, TypeOK
<1>3. config' = config
    BY <1>1 DEF Panic
<1>4. NothingElse'
    BY <1>1, <1>3 DEF IInv, NothingElse
<1> QED BY <1>1, <1>2, <1>4, PanicStep

\* What NoCsv leaves of the list.
LEMMA DroppedSteps ==
    ASSUME TypeOK, ListsOK, NoCsv
    PROVE  /\ phase = "after" /\ todo \in Seq(AfterSteps)
           /\ Len(todo) \in Nat /\ Len(todo) >= 2
           /\ Head(todo) = todo[1] /\ Head(todo) = [op |-> "deleteCsv", arg |-> Arg]
           /\ todo[2] = Wait(Arg)
           /\ todo' \in Seq(AfterSteps) /\ Ordered(todo')
           /\ Len(todo') = Len(todo) - 2
           /\ \A i \in 1 .. Len(todo') : todo'[i] = todo[i + 2]
           /\ Range(todo) \subseteq Range(todo') \cup {Head(todo), todo[2]}
<1>1. todo # <<>> /\ Head(todo).op = "deleteCsv" /\ todo' = Tail(Tail(todo))
    BY DEF NoCsv, At
<1>2. phase = "after" /\ todo \in Seq(AfterSteps) /\ Ordered(todo)
    <2>1. phase \in {"before", "after"} BY <1>1 DEF TypeOK, ListsOK
    <2>2. phase = "before" => Head(todo) \in BeforeSteps(config)
        BY <1>1, TailKeeps DEF ListsOK
    <2>3. phase = "after" BY <1>1, <2>1, <2>2 DEF BeforeSteps, BeforeOps
    <2> QED BY <2>3 DEF ListsOK
<1> DEFINE t == Tail(todo)
<1>3. /\ t \in Seq(AfterSteps) /\ Ordered(t) /\ Head(todo) \in AfterSteps
      /\ Range(todo) \subseteq Range(t) \cup {Head(todo)}
    BY <1>1, <1>2, TailKeeps
<1>4. /\ Len(todo) \in Nat \ {0} /\ Head(todo) = todo[1]
      /\ Len(t) = Len(todo) - 1
      /\ \A i \in 1 .. Len(t) : t[i] = todo[i + 1]
    BY <1>1, <1>2, HeadTailProperties, EmptySeq
<1>5. Head(todo) = [op |-> "deleteCsv", arg |-> Arg]
    BY <1>1, <1>3 DEF AfterSteps, Arg
<1>6. 1 < Len(todo) /\ todo[2] = Wait(Arg)
    <2>1. 1 \in 1 .. Len(todo) /\ todo[1].op = "deleteCsv" /\ todo[1].arg = Arg
        BY <1>4, <1>5
    <2>2. 1 < Len(todo) /\ todo[1 + 1] = Wait(todo[1].arg)
        BY <1>2, <2>1 DEF Ordered
    <2> QED BY <2>1, <2>2
<1> HIDE DEF t
<1>7. Len(t) \in Nat \ {0} /\ t # <<>>
    BY <1>3, <1>4, <1>6, EmptySeq
<1> DEFINE u == Tail(t)
<1>8. u \in Seq(AfterSteps) /\ Ordered(u) /\ Range(t) \subseteq Range(u) \cup {Head(t)}
    BY <1>3, <1>7, TailKeeps
<1>9. Len(u) = Len(t) - 1 /\ Head(t) = t[1] /\ \A i \in 1 .. Len(u) : u[i] = t[i + 1]
    BY <1>3, <1>7, HeadTailProperties
<1>10. todo' = u
    BY <1>1 DEF t
<1> HIDE DEF u
<1>11. Head(t) = todo[2]
    BY <1>4, <1>7, <1>9
<1>12. ASSUME NEW i \in 1 .. Len(u) PROVE u[i] = todo[i + 2]
    <2>1. Len(u) \in Nat BY <1>7, <1>9
    <2>2. u[i] = t[i + 1] /\ i + 1 \in 1 .. Len(t)
        BY <1>7, <1>9, <2>1
    <2> QED BY <1>4, <2>2
<1>13. Len(u) = Len(todo) - 2
    BY <1>4, <1>9
<1> QED BY <1>2, <1>3, <1>4, <1>5, <1>6, <1>8, <1>10, <1>11, <1>12, <1>13

\* Two steps are dropped, and neither is one that removes anything still there.
LEMMA NoCsvStep == ASSUME IInv, NoCsv PROVE IInv'
<1> USE DEF IInv
<1>1. /\ todo # <<>> /\ Head(todo).op = "deleteCsv" /\ cluster[Arg] = "absent"
      /\ UNCHANGED <<kind, config, phase, failed, report, clients, catalog, olminfo, cluster,
                     origin, calm>>
    BY DEF NoCsv, At, process
<1> DEFINE h == todo[2]
<1>2. phase = "after" /\ Head(todo) = [op |-> "deleteCsv", arg |-> Arg]
    BY DroppedSteps
<1>5. h.op = "awaitGone" /\ h.arg \in {"operator", "wideOperator"}
    BY DroppedSteps DEF Wait
<1>7. todo' \in Seq(AfterSteps) /\ Ordered(todo')
    BY DroppedSteps
<1>8. \A x : x \in Range(todo) => x \in Range(todo') \/ x = Head(todo) \/ x = h
    BY DroppedSteps
<1> HIDE DEF h
<1>9. TypeOK'
    <2>1. todo' \in Seq(Steps) BY <1>7, StepSets, SeqMonotonic
    <2>2. run' = run BY <1>1 DEF run
    <2> QED BY <1>1, <2>1, <2>2 DEF TypeOK
<1>10. ListsOK' /\ NothingElse'
    BY <1>1, <1>2, <1>7 DEF ListsOK, NothingElse
<1>11. Removing' <=> Removing
    BY <1>1 DEF Removing, LastVerdict
<1>12. InfoIsKnown'
    BY <1>1, <1>2, <1>11 DEF InfoIsKnown
<1>13. RemovalIsDue'
    <2> SUFFICES ASSUME Removing
        PROVE  (NamespacesGo /\ ManifestsGo /\ CatalogGoes /\ InstallationGoes)'
        BY <1>11 DEF RemovalIsDue
    <2>1. NamespacesGo /\ ManifestsGo /\ CatalogGoes /\ InstallationGoes
        BY DEF RemovalIsDue
    <2>2. NamespacesGo'
        BY <1>1, <1>5, <1>8, <2>1 DEF NamespacesGo, Due
    <2>3. ManifestsGo'
        BY <1>1, <1>5, <1>8, <2>1 DEF ManifestsGo, Due
    <2>4. CatalogGoes'
        BY <1>1, <1>5, <1>8, <2>1 DEF CatalogGoes, Due
    <2>5. InstallationGoes'
        BY <1>1, <1>5, <1>8, <2>1 DEF InstallationGoes, Due, Arg, Live
    <2> QED BY <2>2, <2>3, <2>4, <2>5
<1> QED BY <1>9, <1>10, <1>12, <1>13

LEMMA ClusterChange ==
    ASSUME IInv, NEW o \in Objects,
           ControllerCreates(o) \/ BecomesReady(o) \/ Collected(o) \/ Vanishes(o)
    PROVE  /\ UNCHANGED <<kind, config, phase, todo, clients, catalog, olminfo, failed, report, calm>>
           /\ cluster' \in [Objects -> Status] /\ origin' \in [Objects -> 0 .. Runs]
           /\ \A p \in Objects : \/ cluster'[p] = cluster[p]
                                 \/ cluster[p] \in Live
                                 \/ cluster'[p] = "absent"
                                 \/ p = o /\ ControllerCreates(o) /\ cluster[o] = "absent"
<1> USE DEF IInv
<1>1. CASE ControllerCreates(o)
    <2>1. /\ cluster' = [cluster EXCEPT ![o] = Born(o)]
          /\ origin' = [origin EXCEPT ![o] = Source(o)]
          /\ o \in DOMAIN Maker /\ cluster[o] = "absent"
          /\ UNCHANGED <<kind, config, phase, todo, clients, catalog, olminfo, failed, report, calm>>
        BY <1>1 DEF ControllerCreates, process
    <2>2. Born(o) \in Status
        BY DEF Born, Status
    <2>3. Source(o) \in 0 .. Runs
        <3>1. Maker[o] \in Objects /\ "catalog" \in Objects
            BY <2>1, ObjectNames DEF Maker
        <3> QED BY <3>1 DEF Source, TypeOK
    <2>4. cluster' \in [Objects -> Status] /\ origin' \in [Objects -> 0 .. Runs]
        BY <2>1, <2>2, <2>3 DEF TypeOK
    <2>5. \A p \in Objects : cluster'[p] = cluster[p] \/ p = o
        BY <2>1 DEF TypeOK
    <2> QED BY <1>1, <2>1, <2>4, <2>5
<1>2. ASSUME NEW from, NEW to \in Status, Changes(o, from, to),
             from \in Live \/ to = "absent"
      PROVE  /\ UNCHANGED <<kind, config, phase, todo, clients, catalog, olminfo, failed, report, calm>>
             /\ cluster' \in [Objects -> Status] /\ origin' \in [Objects -> 0 .. Runs]
             /\ \A p \in Objects : \/ cluster'[p] = cluster[p]
                                   \/ cluster[p] \in Live
                                   \/ cluster'[p] = "absent"
    <2>1. /\ cluster[o] = from /\ cluster' = [cluster EXCEPT ![o] = to]
          /\ origin' = [origin EXCEPT ![o] = IF to = "absent" THEN 0 ELSE @]
          /\ UNCHANGED <<kind, config, phase, todo, clients, catalog, olminfo, failed, report, calm>>
        BY <1>2 DEF Changes, process
    <2>2. cluster' \in [Objects -> Status] /\ origin' \in [Objects -> 0 .. Runs]
        BY <2>1 DEF TypeOK
    <2>3. \A p \in Objects : cluster'[p] = IF p = o THEN to ELSE cluster[p]
        BY <2>1 DEF TypeOK
    <2> QED BY <1>2, <2>1, <2>2, <2>3
<1>3. CASE BecomesReady(o)
    BY <1>2, <1>3 DEF BecomesReady, Live, Status
<1>4. CASE Collected(o)
    BY <1>2, <1>4 DEF Collected, Status
<1>5. CASE Vanishes(o)
    BY <1>2, <1>5 DEF Vanishes, Status
<1> QED BY <1>1, <1>3, <1>4, <1>5

LEMMA ClusterStepStep == ASSUME IInv, ClusterStep PROVE IInv'
<1> USE DEF IInv
<1>1. PICK o \in Objects :
          ControllerCreates(o) \/ BecomesReady(o) \/ Collected(o) \/ Vanishes(o)
    BY DEF ClusterStep
<1>2. /\ UNCHANGED <<kind, config, phase, todo, clients, catalog, olminfo, failed, report, calm>>
      /\ cluster' \in [Objects -> Status] /\ origin' \in [Objects -> 0 .. Runs]
      /\ \A p \in Objects : \/ cluster'[p] = cluster[p]
                            \/ cluster[p] \in Live
                            \/ cluster'[p] = "absent"
                            \/ p = o /\ ControllerCreates(o) /\ cluster[o] = "absent"
    BY <1>1, ClusterChange
<1>3. ControllerCreates(o) =>
          /\ o \notin {"namespace", "seleniumNamespace", "catalog", "clusterManifests",
                       "wideSubscription"}
          /\ o = "wideCsv" => cluster["wideSubscription"] \in Live
    BY DEF ControllerCreates, Maker
<1>4. Quiet
    BY <1>2, <1>3, ObjectNames DEF Quiet, Live
<1>5. TypeOK'
    <2>1. run' = run BY <1>2 DEF run
    <2> QED BY <1>2, <2>1 DEF TypeOK
<1>6. NothingElse'
    BY <1>2, <1>3, ObjectNames DEF NothingElse, Live
<1>7. ListsOK'
    BY <1>2 DEF ListsOK
<1>8. RemovalIsDue'
    BY <1>2, <1>4, RemovedQuiet
<1>9. InfoIsKnown'
    BY <1>2 DEF InfoIsKnown, Removing, LastVerdict, Due
<1> QED BY <1>5, <1>6, <1>7, <1>8, <1>9

LEMMA StutterStep == ASSUME IInv, UNCHANGED vars PROVE IInv'
BY DEF vars, process, IInv, TypeOK, run, ListsOK, NothingElse, InfoIsKnown, RemovalIsDue,
       Removing, LastVerdict, Due, NamespacesGo, ManifestsGo, CatalogGoes, InstallationGoes

LEMMA NextInvariant == IInv /\ [Next]_vars => IInv'
<1> SUFFICES ASSUME IInv, [Next]_vars PROVE IInv'
    OBVIOUS
<1>1. CASE RunStep
    BY <1>1, StartSuiteStep, StartSpecsStep, EndSpecsStep, EndSuiteStep DEF RunStep
<1>2. CASE CallStep
    BY <1>2, PassStep, ConnectStep, CreateObjectStep, AdoptCatalogStep, ReturnInfoStep,
       DeleteObjectStep, RestartPodsStep, NoCsvStep, DeleteFileStep, PollDoneStep, PanickingStep
    DEF CallStep
<1>3. CASE Misfortune \/ Die
    BY <1>3, PanickingStep, DieStep
<1>4. CASE ClusterStep
    BY <1>4, ClusterStepStep
<1>5. CASE Terminated \/ UNCHANGED vars
    BY <1>5, StutterStep DEF Terminated
<1> QED BY <1>1, <1>2, <1>3, <1>4, <1>5 DEF Next

LEMMA Invariance == Spec => []IInv
BY InitInvariant, NextInvariant, PTL DEF Spec

----------------------------------------------------------------------------

\* The state is well formed for any number of runs: what is left to do are steps of
\* the suites, no more verdicts than runs are given.
THEOREM TypeCorrectness == Spec => []TypeOK
BY Invariance, PTL DEF IInv

\* Nothing is due any more, so nothing of what the suite makes stays.
LEMMA GreenMeansClean == IInv => GreenRunIsClean
<1> SUFFICES ASSUME IInv, phase = "idle", report # <<>>, LastVerdict = "passed"
             PROVE  ~Left
    BY DEF GreenRunIsClean
<1> USE DEF IInv
<1>1. Removing /\ todo = <<>>
    BY DEF Removing, ListsOK
<1>2. \A op, arg : ~Due(op, arg)
    BY <1>1 DEF Due, Range
<1>3. NamespacesGo /\ ManifestsGo /\ CatalogGoes /\ InstallationGoes
    BY <1>1 DEF RemovalIsDue
<1>4. ASSUME NEW o, o \in Selenium PROVE ~Stays(o)
    <2>1. cluster["seleniumNamespace"] = "absent"
        BY <1>2, <1>3 DEF NamespacesGo, NothingElse
    <2>2. o = "seleniumNamespace" \/ (o \in DOMAIN Home /\ Home[o] = "seleniumNamespace")
        BY <1>4 DEF Selenium, Home
    <2> QED BY <2>1, <2>2 DEF Stays, Accepting, Live
<1>5. kind \in {"bundle", "single", "clusterwide"}
    BY DEF TypeOK
<1>6. kind # "clusterwide" => cluster["namespace"] = "absent"
    BY <1>2, <1>3 DEF NamespacesGo
<1>7. ASSUME NEW o, o = "namespace" \/ (o \in DOMAIN Home /\ Home[o] = "namespace"),
             kind # "clusterwide"
      PROVE  ~Stays(o)
    BY <1>6, <1>7 DEF Stays, Accepting, Live
<1>8. kind # "bundle" => cluster["catalog"] \notin Live
    <2> SUFFICES ASSUME kind # "bundle" PROVE cluster["catalog"] \notin Live
        OBVIOUS
    <2>1. olminfo \in {"nil", "own", "empty"}
        BY <1>1 DEF InfoIsKnown, TypeOK, Handles
    <2>2. CASE olminfo = "nil"
        BY <2>2 DEF InfoIsKnown, NothingElse, Live
    <2>3. CASE olminfo \in {"own", "empty"}
        BY <1>2, <1>3, <2>3 DEF CatalogGoes
    <2> QED BY <2>1, <2>2, <2>3
<1>9. ASSUME NEW o \in Own[kind] PROVE ~Stays(o)
    <2>1. CASE kind = "bundle"
        <3>1. o \in {"namespace", "manifests", "clusterManifests", "bundleOperator"}
            BY <1>9, <2>1 DEF Own
        <3>2. cluster["clusterManifests"] \notin Live
            BY <1>2, <1>3, <2>1 DEF ManifestsGo
        <3> QED BY <1>7, <2>1, <3>1, <3>2 DEF Home, Stays
    <2>2. CASE kind = "single"
        <3>1. o \in {"namespace", "catalog", "group", "subscription", "csv", "operator"}
            BY <1>9, <2>2 DEF Own
        <3> QED BY <1>7, <1>8, <2>2, <3>1 DEF Home, Stays
    <2>3. CASE kind = "clusterwide"
        <3>1. o \in {"catalog", "wideSubscription", "wideCsv", "wideOperator"}
            BY <1>9, <2>3 DEF Own
        <3>2. cluster["wideSubscription"] \notin Live /\ cluster["wideCsv"] \notin Live
            BY <1>2, <1>3, <2>3 DEF InstallationGoes
        <3>3. "wideOperator" \in DOMAIN Owner /\ Owner["wideOperator"] = "wideCsv"
            BY DEF Owner
        <3> QED BY <1>8, <2>3, <3>1, <3>2, <3>3 DEF Stays
    <2> QED BY <1>5, <2>1, <2>2, <2>3
<1> QED BY <1>4, <1>9 DEF Left

\* A suite that is reported green has removed all it makes, and nothing of it comes
\* back, after any number of suites and whatever those had left.
THEOREM GreenRunsAreClean == Spec => []GreenRunIsClean
BY Invariance, GreenMeansClean, PTL

----------------------------------------------------------------------------
(* The suites carry out the procedure of the documentation. *)

LEMMA InitRefines == Init => Procedure!Init
<1> SUFFICES ASSUME Init PROVE Procedure!Init
    OBVIOUS
<1>1. \A o \in Objects : cluster[o] = "absent"
    BY DEF Init
<1>2. Own[kind] \cup Selenium \subseteq Objects
    <2>1. kind \in {"bundle", "single", "clusterwide"} BY DEF Init
    <2> QED BY <2>1, ObjectNames DEF Own, Selenium
<1>3. ~Left
    BY <1>1, <1>2 DEF Left, Stays, Live
<1> QED BY <1>3 DEF Procedure!Init, Init

\* Between the suites a controller only makes what it was about to make, so the
\* maker was there to stay.
LEMMA NothingComesBack ==
    ASSUME IInv, NEW o \in Objects,
           ControllerCreates(o) \/ BecomesReady(o) \/ Collected(o) \/ Vanishes(o),
           Left'
    PROVE  Left
<1> USE DEF IInv
<1> SUFFICES ASSUME ~Left PROVE FALSE
    OBVIOUS
<1>1. /\ UNCHANGED <<kind, config, phase, todo, clients, catalog, olminfo, failed, report, calm>>
      /\ cluster' \in [Objects -> Status] /\ origin' \in [Objects -> 0 .. Runs]
      /\ \A p \in Objects : \/ cluster'[p] = cluster[p]
                            \/ cluster[p] \in Live
                            \/ cluster'[p] = "absent"
                            \/ p = o /\ ControllerCreates(o) /\ cluster[o] = "absent"
    BY ClusterChange
<1>2. PICK q \in Own[kind] \cup Selenium : Stays(q)'
    BY <1>1 DEF Left
<1>3. kind \in {"bundle", "single", "clusterwide"} /\ q \in Objects
    <2>1. kind \in {"bundle", "single", "clusterwide"} BY DEF TypeOK
    <2> QED BY <2>1, ObjectNames DEF Own, Selenium
<1>4. \A p \in Objects : cluster'[p] \in Live =>
          cluster[p] \in Live \/ (p = o /\ ControllerCreates(o) /\ cluster[o] = "absent")
    BY <1>1 DEF Live
<1>5. ControllerCreates(o) =>
          o \in DOMAIN Maker /\ cluster[Maker[o]] \in Live /\ Accepting(o)
    BY DEF ControllerCreates
<1>6. \A p \in {"namespace", "seleniumNamespace"} : cluster'[p] \in Live => cluster[p] \in Live
    BY <1>4, <1>5, ObjectNames DEF Maker
<1>7. Accepting(q)' => Accepting(q)
    BY <1>6 DEF Accepting, Home
<1>8. CASE cluster[q] \in Live /\ (q \in DOMAIN Owner => cluster[Owner[q]] \in Live)
    BY <1>2, <1>7, <1>8 DEF Left, Stays
<1>9. CASE q = o /\ ControllerCreates(o)
    <2>1. q \in {"csv", "operator", "wideCsv", "wideOperator", "bundleOperator"}
        BY <1>2, <1>3, <1>5, <1>9 DEF Own, Selenium, Maker
    <2>2. Maker[q] \in Own[kind]
        BY <1>2, <1>3, <2>1 DEF Own, Selenium, Maker
    <2>3. cluster[Maker[q]] \in Live /\ Accepting(q)
        BY <1>5, <1>9
    <2>4. Accepting(Maker[q])
        BY <2>1, <2>3 DEF Accepting, Home, Maker
    <2>5. CASE q \in {"csv", "wideCsv", "bundleOperator"}
        <3>1. Maker[q] \notin DOMAIN Owner
            BY <2>5 DEF Maker, Owner
        <3> QED BY <2>2, <2>3, <2>4, <3>1 DEF Left, Stays
    <2>6. CASE q \in {"operator", "wideOperator"}
        <3>1. Maker[q] \notin DOMAIN Owner
            BY <2>6 DEF Maker, Owner
        <3> QED BY <2>2, <2>3, <2>4, <3>1 DEF Left, Stays
    <2> QED BY <2>1, <2>5, <2>6
<1>10. CASE /\ q \in DOMAIN Owner /\ Owner[q] = o /\ ControllerCreates(o)
            /\ cluster[q] \in Live
    <2>1. q \in {"operator", "wideOperator", "bundleOperator"} /\ o \in {"csv", "wideCsv"}
        BY <1>2, <1>3, <1>5, <1>10 DEF Own, Selenium, Owner, Maker
    <2>2. Maker[o] \in Own[kind]
        BY <1>2, <1>3, <1>10, <2>1 DEF Own, Selenium, Maker, Owner
    <2>3. cluster[Maker[o]] \in Live /\ Accepting(o)
        BY <1>5, <1>10
    <2>4. Accepting(Maker[o]) /\ Maker[o] \notin DOMAIN Owner
        BY <2>1, <2>3 DEF Accepting, Home, Maker, Owner
    <2> QED BY <2>2, <2>3, <2>4 DEF Left, Stays
<1>11. cluster'[q] \in Live /\ (q \in DOMAIN Owner => cluster'[Owner[q]] \in Live)
    BY <1>2 DEF Stays
<1>12. q \in DOMAIN Owner => Owner[q] \in Objects
    BY ObjectNames DEF Owner
<1> QED BY <1>3, <1>4, <1>8, <1>9, <1>10, <1>11, <1>12

LEMMA StepRefines ==
    ASSUME IInv, IInv', [Next]_vars
    PROVE  [Procedure!Next]_Procedure!vars
<1> USE DEF IInv
<1>0. (~Left) \in BOOLEAN /\ (~Left)' \in BOOLEAN
    OBVIOUS
<1>1. ASSUME NEW k \in Kinds, StartSuite(k) PROVE Procedure!Next
    BY <1>0, <1>1 DEF StartSuite, Procedure!Next, Procedure!Start
<1>2. CASE StartSpecs
    BY <1>0, <1>2 DEF StartSpecs, ListsOK, Procedure!Next, Procedure!Deployed
<1>3. CASE EndSpecs
    BY <1>0, <1>3 DEF EndSpecs, Procedure!Next, Procedure!Tested
<1>4. CASE EndSuite
    <2>1. CASE failed
        <3>1. failed' = TRUE
            BY <1>4, <2>1 DEF EndSuite, TypeOK
        <3> QED BY <1>0, <1>4, <2>1, <3>1 DEF EndSuite, Procedure!Next, Procedure!Failed
    <2>2. CASE ~failed
        <3>1. /\ phase' = "idle" /\ report' = Append(report, "passed") /\ report \in Seq(Verdicts)
              /\ phase # "idle"
            BY <1>4, <2>2 DEF EndSuite, TypeOK
        <3>2. report' # <<>> /\ LastVerdict' = "passed"
            BY <3>1, VerdictTyped DEF LastVerdict, Verdicts
        <3>3. GreenRunIsClean'
            BY GreenMeansClean, PTL
        <3>4. ~Left'
            BY <3>1, <3>2, <3>3 DEF GreenRunIsClean
        <3> QED BY <1>4, <2>2, <3>4 DEF EndSuite, Procedure!Next, Procedure!CleanedUp
    <2> QED BY <2>1, <2>2
<1>5. CASE Die
    BY <1>0, <1>5 DEF Die, Procedure!Next, Procedure!Die
<1>6. ASSUME todo # <<>>, Panic PROVE Procedure!Next
    <2>1. phase \in {"before", "after"}
        BY <1>6 DEF TypeOK, ListsOK
    <2>2. CASE phase = "before"
        BY <1>0, <1>6, <2>2 DEF Panic, Procedure!Next, Procedure!NotDeployed
    <2>3. CASE phase = "after"
        BY <1>0, <1>6, <2>3 DEF Panic, Procedure!Next, Procedure!Failed
    <2> QED BY <2>1, <2>2, <2>3
<1>7. ASSUME todo # <<>>, UNCHANGED <<phase, failed, report>> PROVE Procedure!Next
    <2>1. phase # "idle"
        BY <1>7 DEF ListsOK
    <2> QED BY <1>0, <1>7, <2>1 DEF Procedure!Next, Procedure!Settle
<1>8. CASE CallStep \/ Misfortune
    <2>1. todo # <<>>
        BY <1>8 DEF CallStep, Misfortune, Pass, Connect, CreateObject, AdoptCatalog, ReturnInfo,
           DeleteObject, RestartPods, NoCsv, DeleteFile, PollDone, Observed, Deadline, Refused,
           Refusal, At
    <2>2. Panic \/ UNCHANGED <<phase, failed, report>>
        BY <1>8 DEF CallStep, Misfortune, Pass, Connect, CreateObject, AdoptCatalog, ReturnInfo,
           DeleteObject, RestartPods, NoCsv, DeleteFile, PollDone, Deadline, Refused, Advance
    <2> QED BY <1>6, <1>7, <2>1, <2>2
<1>9. CASE ClusterStep
    <2>1. PICK o \in Objects :
              ControllerCreates(o) \/ BecomesReady(o) \/ Collected(o) \/ Vanishes(o)
        BY <1>9 DEF ClusterStep
    <2>2. UNCHANGED <<phase, failed, report>>
        BY <2>1, ClusterChange
    <2>3. ~Left => ~Left'
        BY <2>1, NothingComesBack
    <2> QED BY <1>0, <2>2, <2>3 DEF Procedure!Next, Procedure!Settle
<1>10. CASE Terminated \/ UNCHANGED vars
    BY <1>10 DEF Terminated, vars, Procedure!vars, Left, Stays, Accepting
<1> QED
    BY <1>1, <1>2, <1>3, <1>4, <1>5, <1>8, <1>9, <1>10 DEF Next, RunStep

\* The procedure of README.md:27-34 is carried out, whatever fails and whatever the
\* cluster does: specs run only after a deployment that went through, AfterSuite in
\* either case, and a verdict of passed means that the cluster is clean.
THEOREM SuitesRefineProcedure == Spec => ImplementsProcedure
<1>1. Spec => Procedure!Init
    BY InitRefines DEF Spec
<1>2. IInv /\ IInv' /\ [Next]_vars => [Procedure!Next]_Procedure!vars
    BY StepRefines
<1> QED BY <1>1, <1>2, Invariance, PTL DEF Spec, ImplementsProcedure, Procedure!Spec
=============================================================================
