----------------------- MODULE OperatorSeries_proofs ------------------------
(***************************************************************************)
(* What one suite of OperatorSuites leaves to the next: theorems for any   *)
(* number of runs, any of the suites and any environments.                 *)
(*                                                                         *)
(* The single namespace suite frees its namespace because nothing that     *)
(* AfterSuite does before can fail of itself (Freeing).  The specs meet    *)
(* the operator of their own run because a series of green suites leaves   *)
(* nothing that works, neither an operator nor what makes one, so that     *)
(* all there is comes from this run (Series).                              *)
(***************************************************************************)
EXTENDS OperatorSuites_proofs

----------------------------------------------------------------------------
(* The namespace is freed. *)

\* The steps that cannot fail of themselves while the clients are set.
Certain == {"logs", "deleteQuietly", "deleteCsv", "awaitGone"}
FreeNamespace == [op |-> "deleteIfFound", arg |-> "namespace"]

\* The deletion of the namespace is among the steps, and only such steps before it.
NamespaceFirst(s) ==
    \E i \in 1 .. Len(s) : s[i] = FreeNamespace /\ \A j \in 1 .. i - 1 : s[j].op \in Certain

\* The clients are set by the first call of BeforeSuite.
Connected ==
    /\ phase = "before" => clients \/ At("connect")
    /\ phase = "specs" => clients
    /\ phase = "after" /\ calm => clients

\* A suite that is to free the namespace, in AfterSuite or past it.
ToBeFreed == kind = "single" /\ calm /\ olminfo # "empty"

NamespaceGoes ==
    /\ phase = "after" /\ ToBeFreed => cluster["namespace"] \notin Live \/ NamespaceFirst(todo)
    /\ phase = "idle" /\ report # <<>> /\ ToBeFreed => cluster["namespace"] \notin Live

Freeing == Connected /\ NamespaceGoes

----------------------------------------------------------------------------
(* A series of green suites. *)

\* What the suites and the controllers make, but for what only selenium and a
\* package manifest are good for.
Tracked == {"namespace", "manifests", "clusterManifests", "bundleOperator", "catalog", "group",
            "subscription", "csv", "operator", "wideSubscription", "wideCsv", "wideOperator"}

Green == \A i \in DOMAIN report : report[i] = "passed"

\* An object exists only in a namespace that does.
Homed == \A p \in DOMAIN Home : cluster[p] # "absent" => cluster[Home[p]] # "absent"

\* All that works is of the suite that runs, and comes from its images.
OfThisRun == \A o \in Tracked : cluster[o] \in Live => o \in Own[kind] /\ origin[o] = run

\* Until AfterSuite nothing is about to be collected.
Attached == phase \in {"before", "specs"} => \A o \in Tracked : cluster[o] \in Live => Stays(o)

\* What BeforeSuite makes is of its suite, and nothing that a controller makes.
MakeSteps(k) ==
    {x \in [op : BeforeOps, arg : Objects \cup {"-"}] :
        /\ x.op \in {"create", "apply"} => x.arg \in (Own[k] \ DOMAIN Maker) \cup Selenium
        /\ x.op = "adopt" => k # "bundle"
        /\ x.op = "restart" => x.arg = "catalog" \/ (k = "bundle" /\ x.arg = "bundleOperator")}

\* The bundle's operator, restarted or not, is awaited in the end.
AwaitLast(s) == s = <<>> \/ s[Len(s)] = [op |-> "await", arg |-> "bundleOperator"]
MakesOwn ==
    phase = "before" => /\ todo \in Seq(MakeSteps(kind))
                        /\ kind = "bundle" => AwaitLast(todo)

\* BeforeSuite does not end without the operator.
OperatorComes ==
    /\ phase = "before" => Due("await", Operator[kind]) \/ cluster[Operator[kind]] = "ready"
    /\ phase = "specs" => cluster[Operator[kind]] = "ready"

\* One CSV at most is deleted, and the subscription before it.
DeleteSub == [op |-> "deleteQuietly", arg |-> "wideSubscription"]
CsvLast(s) ==
    \A i, j \in 1 .. Len(s) :
        (s[i] = DeleteSub \/ s[i].op = "deleteCsv") /\ s[j].op = "deleteCsv" => i <= j

\* The clusterwide operator is awaited to be gone: its CSV is found and deleted, or
\* has been, and the wait comes next.
OperatorGoes ==
    phase = "after" /\ ~failed /\ kind = "clusterwide" =>
        /\ CsvLast(todo)
        /\ \/ Due("deleteCsv", "wideCsv") /\ cluster["wideCsv"] \in Live
           \/ /\ ~Due("deleteCsv", "wideCsv")
              /\ cluster["wideSubscription"] \notin Live /\ cluster["wideCsv"] \notin Live
              /\ Due("awaitGone", "wideOperator") \/ cluster["wideOperator"] \notin Live

NothingStays == phase = "idle" => \A o \in Tracked : cluster[o] \notin Live

Series ==
    /\ Homed /\ MakesOwn
    /\ Green => OfThisRun /\ Attached /\ OperatorComes /\ OperatorGoes /\ NothingStays

----------------------------------------------------------------------------
(* Lists of steps: what comes before the deletion of the namespace. *)

CertainSteps == {x \in AfterSteps : x.op \in Certain}

LEMMA CertainIsAfter ==
    ASSUME NEW s \in Seq(CertainSteps)
    PROVE  s \in Seq(AfterSteps)
<1>1. CertainSteps \subseteq AfterSteps
    BY DEF CertainSteps
<1> QED BY <1>1, SeqMonotonic

LEMMA CertainFirst ==
    ASSUME NEW s \in Seq(CertainSteps), NEW t \in Seq(AfterSteps), NamespaceFirst(t)
    PROVE  NamespaceFirst(s \o t)
<1>1. PICK i \in 1 .. Len(t) : t[i] = FreeNamespace /\ \A j \in 1 .. i - 1 : t[j].op \in Certain
    BY DEF NamespaceFirst
<1>2. /\ Len(s) \in Nat /\ Len(t) \in Nat /\ Len(s \o t) = Len(s) + Len(t)
      /\ \A k \in 1 .. Len(s) + Len(t) :
             (s \o t)[k] = IF k <= Len(s) THEN s[k] ELSE t[k - Len(s)]
    BY CertainIsAfter, ConcatProperties, LenProperties
<1> DEFINE n == Len(s) + i
<1>3. n \in 1 .. Len(s \o t) /\ (s \o t)[n] = FreeNamespace
    BY <1>1, <1>2
<1>4. ASSUME NEW j \in 1 .. n - 1 PROVE (s \o t)[j].op \in Certain
    <2>1. CASE j <= Len(s)
        <3>1. j \in 1 .. Len(s) /\ (s \o t)[j] = s[j] BY <1>2, <2>1
        <3>2. s[j] \in CertainSteps BY <3>1, ElementOfSeq
        <3> QED BY <3>1, <3>2 DEF CertainSteps
    <2>2. CASE j > Len(s)
        <3>1. j - Len(s) \in 1 .. i - 1 /\ (s \o t)[j] = t[j - Len(s)] BY <1>2, <2>2
        <3> QED BY <1>1, <3>1
    <2> QED BY <1>2, <2>1, <2>2
<1> HIDE DEF n
<1> QED BY <1>3, <1>4 DEF NamespaceFirst

LEMMA StillFirst ==
    ASSUME NEW s \in Seq(AfterSteps), NEW t \in Seq(AfterSteps), NamespaceFirst(s)
    PROVE  NamespaceFirst(s \o t)
<1>1. PICK i \in 1 .. Len(s) : s[i] = FreeNamespace /\ \A j \in 1 .. i - 1 : s[j].op \in Certain
    BY DEF NamespaceFirst
<1>2. /\ Len(s) \in Nat /\ Len(t) \in Nat /\ Len(s \o t) = Len(s) + Len(t)
      /\ \A k \in 1 .. Len(s) + Len(t) :
             (s \o t)[k] = IF k <= Len(s) THEN s[k] ELSE t[k - Len(s)]
    BY ConcatProperties, LenProperties
<1>3. i \in 1 .. Len(s \o t) /\ \A j \in 1 .. i : (s \o t)[j] = s[j]
    BY <1>2
<1> QED BY <1>1, <1>2, <1>3 DEF NamespaceFirst

\* The list t has all of s but its first n steps, none of which deletes the namespace.
LEMMA FirstOfRest ==
    ASSUME NEW s, NEW t, NEW n \in Nat, Len(s) \in Nat, Len(t) = Len(s) - n,
           \A i \in 1 .. Len(t) : t[i] = s[i + n],
           \A i \in 1 .. n : s[i] # FreeNamespace,
           NamespaceFirst(s)
    PROVE  NamespaceFirst(t)
<1>1. PICK i \in 1 .. Len(s) : s[i] = FreeNamespace /\ \A j \in 1 .. i - 1 : s[j].op \in Certain
    BY DEF NamespaceFirst
<1>2. i > n
    BY <1>1
<1>3. i - n \in 1 .. Len(t) /\ t[i - n] = s[i]
    BY <1>2
<1>4. ASSUME NEW j \in 1 .. (i - n) - 1 PROVE t[j].op \in Certain
    <2>1. j \in 1 .. Len(t) /\ j + n \in 1 .. i - 1 BY <1>2
    <2> QED BY <1>1, <2>1
<1> QED BY <1>1, <1>3, <1>4 DEF NamespaceFirst

LEMMA CertainStep ==
    ASSUME NEW op \in Certain, NEW arg \in Objects \cup {"-"},
           op \in {"deleteQuietly", "deleteCsv"} => arg \in Objects,
           op = "deleteQuietly" => arg \notin {"csv", "wideCsv"}
    PROVE  Step(op, arg) \in Seq(CertainSteps)
<1>1. [op |-> op, arg |-> arg] \in CertainSteps
    BY DEF CertainSteps, AfterSteps, AfterOps, Certain
<1> QED BY <1>1, OneStep

\* AfterSuite deletes the namespace unless it has to delete an object without a name.
LEMMA SingleAfterSuite ==
    ASSUME NEW env \in Environment, NEW info \in {"none", "nil", "own"}
    PROVE  NamespaceFirst(AfterSuite("single", env, info))
<1> DEFINE l == Step("logs", "-")
           d1 == DeleteSubscription("single")
           d2 == When("single" = "single", Step("deleteQuietly", "group"))
           d3 == When(info = "own", Step("deleteQuietly", "catalog"))
           d4 == When(info = "empty", Step("deleteUnnamed", "-"))
           d == ((d1 \o d2) \o d3) \o d4
           w == When(info # "none", d)
           n == DeleteTestNamespace("namespace")
           u == (l \o w) \o n
           s1 == When(env.selenium, l)
           s3 == When(env.selenium, removeSeleniumChrome)
           c == Step("check", "-")
<1>1. l \in Seq(CertainSteps)
    BY CertainStep DEF Certain
<1>2. d1 \in Seq(CertainSteps)
    <2>1. Step("deleteQuietly", "subscription") \in Seq(CertainSteps)
        BY CertainStep, ObjectNames DEF Certain
    <2>2. Step("deleteCsv", "csv") \in Seq(CertainSteps)
        BY CertainStep, ObjectNames DEF Certain
    <2>3. Step("awaitGone", "operator") \in Seq(CertainSteps)
        BY CertainStep, ObjectNames DEF Certain
    <2>4. d1 = (Step("deleteQuietly", "subscription") \o Step("deleteCsv", "csv"))
                 \o Step("awaitGone", "operator")
        BY DEF DeleteSubscription, Subscription, Csv, Operator
    <2> HIDE DEF d1
    <2> QED BY <2>1, <2>2, <2>3, <2>4, Joined
<1>3. d2 \in Seq(CertainSteps)
    <2>1. Step("deleteQuietly", "group") \in Seq(CertainSteps)
        BY CertainStep, ObjectNames DEF Certain
    <2> QED BY <2>1 DEF When
<1>4. d3 \in Seq(CertainSteps)
    <2>1. Step("deleteQuietly", "catalog") \in Seq(CertainSteps)
        BY CertainStep, ObjectNames DEF Certain
    <2> QED BY <2>1 DEF When
<1>5. d4 \in Seq(CertainSteps)
    BY DEF When
<1>6. w \in Seq(CertainSteps)
    <2> HIDE DEF d1, d2, d3, d4
    <2>1. d1 \o d2 \in Seq(CertainSteps) BY <1>2, <1>3, Joined
    <2>2. (d1 \o d2) \o d3 \in Seq(CertainSteps) BY <1>4, <2>1, Joined
    <2>3. d \in Seq(CertainSteps) BY <1>5, <2>2, Joined
    <2> HIDE DEF d
    <2> QED BY <2>3 DEF When
<1>7. n \in Seq(AfterSteps) /\ NamespaceFirst(n)
    <2>1. n \in Seq(AfterSteps)
        BY NamespaceSteps DEF InOrder
    <2>2. Len(n) = 2 /\ n[1] = FreeNamespace
        BY DEF DeleteTestNamespace, Step, FreeNamespace
    <2> HIDE DEF n
    <2>3. 1 \in 1 .. Len(n) /\ \A j \in 1 .. 1 - 1 : n[j].op \in Certain
        BY <2>2
    <2> QED BY <2>1, <2>2, <2>3 DEF NamespaceFirst
<1>8. s3 \in Seq(AfterSteps)
    BY SeleniumSteps DEF When, InOrder
<1>9. c \in Seq(AfterSteps)
    <2>1. InOrder(c) BY StepInOrder DEF AfterOps
    <2> QED BY <2>1 DEF InOrder
<1>10. s1 \in Seq(CertainSteps)
    BY <1>1 DEF When
<1>11. AfterSuite("single", env, info) = ((s1 \o u) \o s3) \o c
    BY DEF AfterSuite, UninstallOperatorOLM, Check, When
<1> HIDE DEF l, w, n, s1, s3, c
<1>12. l \o w \in Seq(CertainSteps)
    BY <1>1, <1>6, Joined
<1>13. u \in Seq(AfterSteps) /\ NamespaceFirst(u)
    BY <1>7, <1>12, CertainIsAfter, CertainFirst, Joined
<1> HIDE DEF u
<1>14. s1 \o u \in Seq(AfterSteps) /\ NamespaceFirst(s1 \o u)
    BY <1>10, <1>13, CertainIsAfter, CertainFirst, Joined
<1>15. (s1 \o u) \o s3 \in Seq(AfterSteps) /\ NamespaceFirst((s1 \o u) \o s3)
    BY <1>8, <1>14, StillFirst, Joined
<1> QED BY <1>9, <1>11, <1>15, StillFirst

----------------------------------------------------------------------------
(* What a step does to Freeing. *)

LEMMA HeadOfFirst ==
    ASSUME NEW s \in Seq(AfterSteps), NamespaceFirst(s)
    PROVE  s # <<>> /\ (Head(s) = FreeNamespace \/ Head(s).op \in Certain)
<1>1. PICK i \in 1 .. Len(s) : s[i] = FreeNamespace /\ \A j \in 1 .. i - 1 : s[j].op \in Certain
    BY DEF NamespaceFirst
<1>2. Len(s) \in Nat /\ s # <<>> /\ Head(s) = s[1]
    BY <1>1, LenProperties
<1>3. CASE i = 1 BY <1>1, <1>2, <1>3
<1>4. CASE i > 1
    <2>1. 1 \in 1 .. i - 1 BY <1>4
    <2> QED BY <1>1, <1>2, <2>1
<1> QED BY <1>1, <1>2, <1>3, <1>4

LEMMA ConnectComesFirst ==
    ASSUME NEW k \in Kind, NEW env \in Environment
    PROVE  LET B == BeforeSuite(k, env)
           IN  B # <<>> /\ Head(B).op = "connect"
<1> DEFINE x == Step("connect", "-")
           y == When(env.selenium, deploySeleniumChrome)
           z == IF k = "bundle" THEN installOperator(env) ELSE InstallOperatorOLM(k, env)
<1>1. x \in Seq(BeforeSteps(env)) /\ Len(x) = 1 /\ x[1].op = "connect"
    <2>1. Early(env, x) BY EarlyStep DEF BeforeOps
    <2>2. Len(x) = 1 /\ x[1].op = "connect" BY DEF Step
    <2> HIDE DEF x
    <2> QED BY <2>1, <2>2, EarlyIsBefore
<1>2. y \in Seq(BeforeSteps(env))
    <2>1. Early(env, x \o y)
        BY InitSuiteSteps DEF InitSuite
    <2>2. Early(env, y)
        <3>1. env.selenium => Early(env, deploySeleniumChrome)
            BY SeleniumIsEarly
        <3> QED BY <3>1, EarlyWhen DEF Environment
    <2> QED BY <2>2, EarlyIsBefore
<1>3. z \in Seq(BeforeSteps(env))
    <2>1. CASE k = "bundle" BY <2>1, InstallBundleSteps
    <2>2. CASE k \in {"single", "clusterwide"} BY <2>2, InstallSteps
    <2> QED BY <2>1, <2>2 DEF Kind
<1>4. BeforeSuite(k, env) = (x \o y) \o z
    BY DEF BeforeSuite, InitSuite
<1> HIDE DEF x, y, z
<1>5. /\ x \o y \in Seq(BeforeSteps(env)) /\ Len(x \o y) \in Nat /\ Len(x \o y) >= 1
      /\ (x \o y)[1] = x[1]
    BY <1>1, <1>2, ConcatProperties, LenProperties
<1> DEFINE xy == x \o y
<1> HIDE DEF xy
<1>6. xy \in Seq(BeforeSteps(env)) /\ Len(xy) \in Nat /\ Len(xy) >= 1 /\ xy[1] = x[1]
    BY <1>5 DEF xy
<1>7. /\ xy \o z \in Seq(BeforeSteps(env)) /\ Len(xy \o z) >= 1 /\ (xy \o z)[1] = x[1]
    BY <1>3, <1>6, ConcatProperties, LenProperties
<1>8. BeforeSuite(k, env) = xy \o z
    BY <1>4 DEF xy
<1>9. xy \o z # <<>> /\ Head(xy \o z) = (xy \o z)[1]
    BY <1>7, EmptySeq
<1> QED BY <1>1, <1>7, <1>8, <1>9

\* A call that goes through.
LEMMA FreeingAdvance ==
    ASSUME IInv, Freeing, todo # <<>>, Advance, calm' = calm,
           \/ clients' = clients /\ Head(todo).op # "connect"
           \/ clients' = TRUE,
           phase = "after" =>
               /\ olminfo' = olminfo
               /\ cluster["namespace"] \notin Live => cluster'["namespace"] \notin Live
               /\ Head(todo) = FreeNamespace => cluster'["namespace"] \notin Live
    PROVE  Freeing'
<1> USE DEF Freeing, IInv
<1>1. UNCHANGED <<kind, phase, report>> /\ todo' = Tail(todo) /\ phase \in {"before", "after"}
    BY Advancing DEF Advance
<1>2. Connected'
    BY <1>1 DEF Connected, At
<1>3. CASE phase = "before"
    BY <1>1, <1>2, <1>3 DEF NamespaceGoes
<1>4. CASE phase = "after"
    <2>1. todo \in Seq(AfterSteps)
        BY <1>4 DEF ListsOK
    <2>2. /\ Len(todo) \in Nat \ {0} /\ Head(todo) = todo[1]
          /\ Len(todo') = Len(todo) - 1
          /\ \A i \in 1 .. Len(todo') : todo'[i] = todo[i + 1]
        BY <1>1, <2>1, HeadTailProperties, EmptySeq
    <2>3. NamespaceFirst(todo) /\ Head(todo) # FreeNamespace => NamespaceFirst(todo')
        <3> DEFINE t == todo'
        <3> HIDE DEF t
        <3>1. Len(t) = Len(todo) - 1 /\ \A i \in 1 .. Len(t) : t[i] = todo[i + 1]
            BY <2>2 DEF t
        <3>2. Head(todo) # FreeNamespace => \A i \in 1 .. 1 : todo[i] # FreeNamespace
            BY <2>2
        <3>3. NamespaceFirst(todo) /\ Head(todo) # FreeNamespace => NamespaceFirst(t)
            BY <2>2, <3>1, <3>2, FirstOfRest
        <3>4. NamespaceFirst(t) => NamespaceFirst(todo')
            BY DEF t
        <3> QED BY <3>3, <3>4
    <2>4. NamespaceGoes'
        BY <1>1, <1>4, <2>3 DEF NamespaceGoes, ToBeFreed
    <2> QED BY <1>2, <2>4
<1> QED BY <1>1, <1>3, <1>4

\* A call that fails because of what it finds: either it is not in AfterSuite, or the
\* namespace is already on its way out.
LEMMA FreeingPanic ==
    ASSUME IInv, Freeing, todo # <<>>, Panic,
           \/ calm' = FALSE
           \/ /\ calm' = calm /\ Head(todo).op # "connect"
              /\ Head(todo).op \in Certain => Head(todo).op = "logs" /\ ~clients
              /\ Head(todo) = FreeNamespace => cluster["namespace"] \notin Live,
           cluster["namespace"] \notin Live => cluster'["namespace"] \notin Live
    PROVE  Freeing'
<1> USE DEF Freeing, IInv
<1>1. UNCHANGED <<kind, config, clients, olminfo>> /\ phase \in {"before", "after"}
    BY DEF Panic, process, TypeOK, ListsOK
<1>2. CASE calm' = FALSE
    BY <1>1, <1>2 DEF Panic, Connected, NamespaceGoes, ToBeFreed
<1>3. CASE calm' = calm /\ phase = "before" /\ calm' # FALSE
    <2>1. phase' = "after" /\ todo' = AfterSuite(kind, config, olminfo) /\ clients
        BY <1>3 DEF Panic, Connected, At
    <2>2. ToBeFreed' => NamespaceFirst(todo')
        <3>1. olminfo \in Handles \cup {"none"} /\ config \in Environment
            BY Constants DEF TypeOK
        <3> DEFINE A == AfterSuite("single", config, olminfo)
        <3>2. olminfo # "empty" => NamespaceFirst(A)
            BY <3>1, SingleAfterSuite DEF Handles
        <3>3. kind = "single" => todo' = A
            BY <2>1
        <3> HIDE DEF A
        <3> QED BY <1>1, <3>2, <3>3 DEF ToBeFreed, NamespaceFirst
    <2> QED BY <1>1, <2>1, <2>2 DEF Connected, NamespaceGoes
<1>4. CASE calm' = calm /\ phase = "after" /\ calm' # FALSE
    <2>1. phase' = "idle" /\ clients /\ calm
        BY <1>4 DEF Panic, Connected, TypeOK
    <2>2. todo \in Seq(AfterSteps)
        BY <1>4 DEF ListsOK
    <2>3. ToBeFreed => cluster["namespace"] \notin Live
        BY <1>4, <2>1, <2>2, HeadOfFirst DEF NamespaceGoes
    <2> QED BY <1>1, <1>4, <2>1, <2>3 DEF Connected, NamespaceGoes, ToBeFreed
<1> QED BY <1>1, <1>2, <1>3, <1>4

LEMMA FreeingRun ==
    ASSUME IInv, Freeing, RunStep \/ Die
    PROVE  Freeing'
<1> USE DEF Freeing, IInv
<1>1. ASSUME NEW k \in Kinds, StartSuite(k) PROVE Freeing'
    <2>1. k \in Kind /\ config \in Environment
        BY SuitesAssumption, Constants DEF Kind
    <2>2. phase' = "before" /\ todo' = BeforeSuite(k, config)
        BY <1>1 DEF StartSuite
    <2>3. todo' # <<>> /\ Head(todo').op = "connect"
        BY <2>1, <2>2, ConnectComesFirst
    <2> QED BY <2>2, <2>3 DEF Connected, NamespaceGoes, At
<1>2. CASE StartSpecs
    BY <1>2 DEF StartSpecs, process, Connected, NamespaceGoes, At
<1>3. CASE EndSpecs
    <2>1. /\ phase = "specs" /\ phase' = "after" /\ todo' = AfterSuite(kind, config, olminfo)
          /\ UNCHANGED <<kind, config, clients, olminfo, calm, cluster>>
        BY <1>3 DEF EndSpecs, process
    <2>2. olminfo \in Handles \cup {"none"} /\ config \in Environment
        BY Constants DEF TypeOK
    <2> DEFINE A == AfterSuite("single", config, olminfo)
    <2>3. olminfo # "empty" => NamespaceFirst(A)
        BY <2>2, SingleAfterSuite DEF Handles
    <2>4. kind = "single" => todo' = A
        BY <2>1
    <2> HIDE DEF A
    <2>5. ToBeFreed' => NamespaceFirst(todo')
        BY <2>1, <2>3, <2>4 DEF ToBeFreed, NamespaceFirst
    <2> QED BY <2>1, <2>5 DEF Connected, NamespaceGoes
<1>4. CASE EndSuite
    <2>1. /\ phase = "after" /\ phase' = "idle" /\ todo = <<>>
          /\ UNCHANGED <<kind, olminfo, calm, cluster>>
        BY <1>4 DEF EndSuite, process
    <2>2. ~NamespaceFirst(todo)
        BY <2>1 DEF NamespaceFirst
    <2> QED BY <2>1, <2>2 DEF Connected, NamespaceGoes, ToBeFreed
<1>5. CASE Die
    BY <1>5 DEF Die, Connected, NamespaceGoes, ToBeFreed
<1> QED BY <1>1, <1>2, <1>3, <1>4, <1>5 DEF RunStep

LEMMA FreeingNoCsv == ASSUME IInv, Freeing, NoCsv PROVE Freeing'
<1> USE DEF Freeing, IInv
<1>1. /\ phase = "after" /\ Len(todo) \in Nat
      /\ Len(todo') = Len(todo) - 2
      /\ \A i \in 1 .. Len(todo') : todo'[i] = todo[i + 2]
      /\ todo[1] # FreeNamespace /\ todo[2] # FreeNamespace
    BY DroppedSteps DEF Wait, FreeNamespace
<1>2. UNCHANGED <<kind, phase, report, clients, olminfo, calm, cluster>>
    BY DEF NoCsv, process
<1>3. NamespaceFirst(todo) => NamespaceFirst(todo')
    <2> DEFINE t == todo'
    <2> HIDE DEF t
    <2>1. Len(t) = Len(todo) - 2 /\ \A i \in 1 .. Len(t) : t[i] = todo[i + 2]
        BY <1>1 DEF t
    <2>2. \A i \in 1 .. 2 : todo[i] # FreeNamespace
        BY <1>1
    <2>3. NamespaceFirst(todo) => NamespaceFirst(t)
        BY <1>1, <2>1, <2>2, FirstOfRest
    <2> QED BY <2>3 DEF t
<1> QED BY <1>1, <1>2, <1>3 DEF Connected, NamespaceGoes, ToBeFreed

LEMMA FreeingCall ==
    ASSUME IInv, Freeing, CallStep \/ Misfortune
    PROVE  Freeing'
<1>0. /\ cluster \in [Objects -> Status] /\ "namespace" \in Objects
      /\ todo # <<>> => /\ phase = "before" => Head(todo) \in BeforeSteps(config)
                        /\ phase = "after" => Head(todo) \in AfterSteps
    BY TailKeeps, ObjectNames DEF IInv, TypeOK, ListsOK
<1>1. CASE Pass \/ PollDone
    <2>1. /\ todo # <<>> /\ Advance /\ UNCHANGED <<clients, olminfo, cluster, calm>>
          /\ Head(todo).op \notin {"connect", "deleteIfFound"}
        BY <1>1 DEF Pass, PollDone, Observed, At, process
    <2>2. Head(todo) # FreeNamespace
        BY <2>1 DEF FreeNamespace
    <2> QED BY <2>1, <2>2, FreeingAdvance
<1>2. CASE Connect
    <2>1. /\ todo # <<>> /\ Advance /\ clients' = TRUE /\ UNCHANGED <<olminfo, cluster, calm>>
          /\ Head(todo).op = "connect"
        BY <1>2 DEF Connect, At
    <2>2. Head(todo) # FreeNamespace
        BY <2>1 DEF FreeNamespace
    <2> QED BY <2>1, <2>2, FreeingAdvance
<1>3. CASE CreateObject \/ AdoptCatalog \/ ReturnInfo \/ RestartPods
    <2>1. /\ todo # <<>> /\ Advance /\ UNCHANGED <<clients, calm>>
          /\ Head(todo).op \in {"create", "apply", "adopt", "return", "restart"}
        BY <1>3 DEF CreateObject, AdoptCatalog, ReturnInfo, RestartPods, At, process
    <2>2. phase # "after"
        BY <1>0, <2>1 DEF AfterSteps, AfterOps
    <2> QED BY <2>1, <2>2, FreeingAdvance
<1>4. CASE DeleteObject
    <2>1. /\ todo # <<>> /\ Advance /\ UNCHANGED <<clients, olminfo, calm>>
          /\ Head(todo).op # "connect" /\ cluster' = Deleted({Arg})
        BY <1>4 DEF DeleteObject, At, process
    <2>2. cluster["namespace"] \notin Live => cluster'["namespace"] \notin Live
        BY <1>0, <2>1 DEF Deleted, Live
    <2>3. Head(todo) = FreeNamespace => cluster'["namespace"] \notin Live
        BY <1>0, <2>1 DEF FreeNamespace, Arg, Deleted, Live
    <2> QED BY <2>1, <2>2, <2>3, FreeingAdvance
<1>5. CASE NoCsv
    BY <1>5, FreeingNoCsv
<1>6. CASE DeleteFile
    <2>1. /\ todo # <<>> /\ Head(todo).op = "deleteFile" /\ cluster' = Deleted(InFile)
          /\ calm' = calm
          /\ (Advance /\ UNCHANGED <<clients, olminfo>>) \/ Panic
        BY <1>6 DEF DeleteFile, At, process
    <2>2. cluster["namespace"] \notin Live => cluster'["namespace"] \notin Live
        BY <1>0, <2>1 DEF Deleted, Live
    <2>3. Head(todo) # FreeNamespace /\ Head(todo).op \notin Certain /\ Head(todo).op # "connect"
        BY <2>1 DEF FreeNamespace, Certain
    <2>4. CASE Panic BY <2>1, <2>2, <2>3, <2>4, FreeingPanic
    <2>5. CASE Advance /\ UNCHANGED <<clients, olminfo>> BY <2>1, <2>2, <2>3, <2>5, FreeingAdvance
    <2> QED BY <2>1, <2>4, <2>5
<1>7. CASE Deadline \/ Misfortune
    <2>1. todo # <<>> /\ Panic /\ calm' = FALSE /\ cluster' = cluster
        BY <1>7 DEF Deadline, Misfortune
    <2> QED BY <2>1, FreeingPanic
<1>8. CASE Refused
    <2>1. todo # <<>> /\ Panic /\ calm' = calm /\ cluster' = cluster /\ Refusal
        BY <1>8 DEF Refused, Refusal, At
    <2>2. /\ Head(todo).op # "connect"
          /\ Head(todo).op \in Certain => Head(todo).op = "logs" /\ ~clients
        BY <2>1 DEF Refusal, At, Certain
    <2>3. Head(todo) = FreeNamespace => cluster["namespace"] \notin Live
        BY <2>1 DEF Refusal, At, Arg, FreeNamespace, Live
    <2> QED BY <2>1, <2>2, <2>3, FreeingPanic
<1> QED BY <1>1, <1>2, <1>3, <1>4, <1>5, <1>6, <1>7, <1>8 DEF CallStep

LEMMA FreeingCluster ==
    ASSUME IInv, Freeing, ClusterStep
    PROVE  Freeing'
<1>1. PICK o \in Objects :
          ControllerCreates(o) \/ BecomesReady(o) \/ Collected(o) \/ Vanishes(o)
    BY DEF ClusterStep
<1>2. /\ UNCHANGED <<kind, phase, todo, clients, olminfo, report, calm>>
      /\ \A p \in Objects : \/ cluster'[p] = cluster[p]
                            \/ cluster[p] \in Live
                            \/ cluster'[p] = "absent"
                            \/ p = o /\ ControllerCreates(o) /\ cluster[o] = "absent"
    BY <1>1, ClusterChange
<1>3. ControllerCreates(o) => o # "namespace"
    BY DEF ControllerCreates, Maker
<1>4. cluster["namespace"] \notin Live => cluster'["namespace"] \notin Live
    BY <1>2, <1>3, ObjectNames DEF Live
<1> QED
    BY <1>2, <1>4 DEF Freeing, Connected, NamespaceGoes, ToBeFreed, NamespaceFirst, At

LEMMA FreeingInvariance == Spec => []Freeing
<1>1. Init => Freeing
    BY DEF Init, Freeing, Connected, NamespaceGoes
<1>2. IInv /\ Freeing /\ [Next]_vars => Freeing'
    <2> SUFFICES ASSUME IInv, Freeing, [Next]_vars PROVE Freeing'
        OBVIOUS
    <2>1. CASE Terminated \/ UNCHANGED vars
        BY <2>1 DEF Terminated, vars, process, Freeing, Connected, NamespaceGoes, ToBeFreed,
           NamespaceFirst, At
    <2> QED BY <2>1, FreeingRun, FreeingCall, FreeingCluster DEF Next
<1> QED BY <1>1, <1>2, Invariance, PTL DEF Spec

\* After the single namespace suite its namespace is gone or on its way out, however the
\* suite went, if no call of it failed of itself and it had a catalog source of its own
\* or none: the deletion is reached, since only calls that cannot fail precede it.
THEOREM NamespaceFreed == Spec => []NamespaceIsFreed
<1>1. Freeing => NamespaceIsFreed
    BY DEF Freeing, NamespaceGoes, ToBeFreed, NamespaceIsFreed, Stays
<1> QED BY <1>1, FreeingInvariance, PTL

----------------------------------------------------------------------------
(* Lists of steps: what BeforeSuite makes, and the order of the deletions. *)

Make(k, s) == s \in Seq(MakeSteps(k))

LEMMA MakeLonger ==
    ASSUME NEW k, NEW s, NEW t, NEW u, u = s \o t, Make(k, s), Make(k, t)
    PROVE  Make(k, u) /\ Range(s) \subseteq Range(u) /\ Range(t) \subseteq Range(u)
<1>1. s \o t \in Seq(MakeSteps(k)) /\ Range(s \o t) = Range(s) \cup Range(t)
    BY Joined DEF Make
<1> QED BY <1>1 DEF Make

LEMMA MakeStep ==
    ASSUME NEW k, NEW op \in BeforeOps, NEW arg \in Objects \cup {"-"},
           op \in {"create", "apply"} => arg \in (Own[k] \ DOMAIN Maker) \cup Selenium,
           op = "adopt" => k # "bundle",
           op = "restart" => arg = "catalog" \/ (k = "bundle" /\ arg = "bundleOperator")
    PROVE  Make(k, Step(op, arg)) /\ Range(Step(op, arg)) = {[op |-> op, arg |-> arg]}
<1>1. [op |-> op, arg |-> arg] \in MakeSteps(k)
    BY DEF MakeSteps
<1> QED BY <1>1, OneStep DEF Make

LEMMA MakeWhen ==
    ASSUME NEW k, NEW c \in BOOLEAN, NEW s, c => Make(k, s)
    PROVE  Make(k, When(c, s))
BY DEF When, Make

\* What can be made.
LEMMA Makeable ==
    /\ Selenium \subseteq Objects
    /\ {"namespace", "manifests", "clusterManifests"} \subseteq Own["bundle"] \ DOMAIN Maker
    /\ {"namespace", "group", "subscription"} \subseteq Own["single"] \ DOMAIN Maker
    /\ "wideSubscription" \in Own["clusterwide"] \ DOMAIN Maker
BY ObjectNames DEF Selenium, Own, Maker

LEMMA InitSuiteMakes ==
    ASSUME NEW k, NEW env \in Environment
    PROVE  Make(k, InitSuite(env))
<1>1. Make(k, Step("connect", "-"))
    BY MakeStep DEF BeforeOps
<1>2. Make(k, deploySeleniumChrome)
    <2>1. Make(k, Step("check", "-"))
        BY MakeStep DEF BeforeOps
    <2>2. \A o \in Selenium : Make(k, Step("create", o))
        BY MakeStep, Makeable DEF BeforeOps
    <2>3. Make(k, Step("await", "seleniumDeployment"))
        BY MakeStep, ObjectNames DEF BeforeOps
    <2> QED
        BY <2>1, <2>2, <2>3 DEF deploySeleniumChrome, Check, Selenium, Make
<1>3. Make(k, When(env.selenium, deploySeleniumChrome))
    BY <1>2, MakeWhen DEF Environment
<1> QED BY <1>1, <1>3, MakeLonger DEF InitSuite

LEMMA AwaitLastTail ==
    ASSUME NEW S, NEW s \in Seq(S), s # <<>>, AwaitLast(s)
    PROVE  /\ AwaitLast(Tail(s))
           /\ \/ Head(s) = [op |-> "await", arg |-> "bundleOperator"]
              \/ [op |-> "await", arg |-> "bundleOperator"] \in Range(Tail(s))
<1> DEFINE t == Tail(s)
           x == [op |-> "await", arg |-> "bundleOperator"]
<1>1. /\ Len(s) \in Nat \ {0} /\ Head(s) = s[1] /\ t \in Seq(S) /\ Len(t) = Len(s) - 1
      /\ \A i \in 1 .. Len(t) : t[i] = s[i + 1]
    OBVIOUS
<1>2. s[Len(s)] = x BY DEF AwaitLast
<1> HIDE DEF t, x
<1>3. CASE Len(s) = 1
    <2>1. t = <<>> BY <1>1, <1>3, EmptySeq
    <2> QED BY <1>1, <1>2, <1>3, <2>1 DEF AwaitLast, x, t
<1>4. CASE Len(s) # 1
    <2>1. Len(t) \in 1 .. Len(t) /\ t[Len(t)] = x BY <1>1, <1>2, <1>4
    <2>2. x \in Range(t) BY <1>1, <2>1 DEF Range
    <2> QED BY <2>1, <2>2 DEF AwaitLast, x, t
<1> QED BY <1>3, <1>4

LEMMA AwaitLastJoined ==
    ASSUME NEW S, NEW T, NEW s \in Seq(S), NEW t \in Seq(T), t # <<>>, AwaitLast(t)
    PROVE  s \o t # <<>> /\ AwaitLast(s \o t)
<1>1. /\ Len(s) \in Nat /\ Len(t) \in Nat \ {0} /\ Len(s \o t) = Len(s) + Len(t)
      /\ (s \o t)[Len(s) + Len(t)] = t[Len(t)]
    OBVIOUS
<1> QED BY <1>1 DEF AwaitLast

LEMMA InstallBundleMakes ==
    ASSUME NEW env \in Environment
    PROVE  /\ Make("bundle", installOperator(env))
           /\ [op |-> "await", arg |-> Operator["bundle"]] \in Range(installOperator(env))
           /\ installOperator(env) # <<>> /\ AwaitLast(installOperator(env))
<1> DEFINE s1 == Step("create", "namespace")
           s2 == Step("apply", "manifests")
           s3 == Step("apply", "clusterManifests")
           w == When(env.pullSecret, Check \o Step("restart", "bundleOperator"))
           s4 == Step("await", "bundleOperator")
<1>1. Make("bundle", s1) BY MakeStep, Makeable, ObjectNames DEF BeforeOps
<1>2. Make("bundle", s2) BY MakeStep, Makeable, ObjectNames DEF BeforeOps
<1>3. Make("bundle", s3) BY MakeStep, Makeable, ObjectNames DEF BeforeOps
<1>4. Make("bundle", s4) /\ Range(s4) = {[op |-> "await", arg |-> "bundleOperator"]}
    BY MakeStep, ObjectNames DEF BeforeOps
<1>4a. Make("bundle", w)
    <2>1. Make("bundle", Check) /\ Make("bundle", Step("restart", "bundleOperator"))
        BY MakeStep, ObjectNames DEF BeforeOps, Check
    <2>2. Make("bundle", Check \o Step("restart", "bundleOperator")) BY <2>1, MakeLonger
    <2> QED BY <2>2, MakeWhen DEF Environment
<1>4b. s4 # <<>> /\ AwaitLast(s4) BY DEF AwaitLast, Step
<1>5. installOperator(env) = (((s1 \o s2) \o s3) \o w) \o s4
    BY DEF installOperator
<1> HIDE DEF s1, s2, s3, w, s4
<1>6. Make("bundle", s1 \o s2) BY <1>1, <1>2, MakeLonger
<1>7. Make("bundle", (s1 \o s2) \o s3) BY <1>3, <1>6, MakeLonger
<1> DEFINE u == ((s1 \o s2) \o s3) \o w
<1>7a. Make("bundle", u) BY <1>4a, <1>7, MakeLonger
<1> HIDE DEF u
<1>8. Make("bundle", u) /\ installOperator(env) = u \o s4
    BY <1>5, <1>7a DEF u
<1>9. Make("bundle", installOperator(env)) /\ Range(s4) \subseteq Range(installOperator(env))
    BY <1>4, <1>8, MakeLonger
<1>10. installOperator(env) # <<>> /\ AwaitLast(installOperator(env))
    BY <1>4, <1>4b, <1>8, AwaitLastJoined DEF Make
<1> QED BY <1>4, <1>9, <1>10 DEF Operator

LEMMA CatalogMakes ==
    ASSUME NEW k \in {"single", "clusterwide"}, NEW env \in Environment
    PROVE  Make(k, CreateCatalogSource(env))
<1>1. Make(k, Step("adopt", "catalog")) BY MakeStep, ObjectNames DEF BeforeOps
<1>2. Make(k, Step("found", "catalog")) BY MakeStep, ObjectNames DEF BeforeOps
<1>3. Make(k, Step("sight", "catalog")) BY MakeStep, ObjectNames DEF BeforeOps
<1>4. Make(k, When(env.openshift, Step("restart", "catalog")))
    <2>1. Make(k, Step("restart", "catalog")) BY MakeStep, ObjectNames DEF BeforeOps
    <2> QED BY <2>1, MakeWhen DEF Environment
<1>5. Make(k, Step("settle", "catalog")) BY MakeStep, ObjectNames DEF BeforeOps
<1>6. Make(k, Step("await", "catalog")) BY MakeStep, ObjectNames DEF BeforeOps
<1> QED BY <1>1, <1>2, <1>3, <1>4, <1>5, <1>6 DEF CreateCatalogSource, Make

LEMMA InstallMakes ==
    ASSUME NEW k \in {"single", "clusterwide"}, NEW env \in Environment
    PROVE  /\ Make(k, InstallOperatorOLM(k, env))
           /\ [op |-> "await", arg |-> Operator[k]] \in Range(InstallOperatorOLM(k, env))
<1> DEFINE s1 == When(k = "single", Step("create", "namespace"))
           s2 == Step("check", "-")
           s3 == When(env.ownCatalog, CreateCatalogSource(env))
           s4 == When(k = "single", Step("create", "group"))
           s5 == When(~env.configured, Step("lookUp", "manifest"))
           s6 == Step("create", Subscription[k])
           s7 == Step("await", Operator[k])
           s8 == Step("return", "-")
<1>0. /\ Subscription[k] \in Objects /\ Subscription[k] \in Own[k] \ DOMAIN Maker
      /\ Operator[k] \in Objects
    BY ObjectNames, Makeable DEF Subscription, Operator
<1>1. Make(k, s1)
    <2>1. k = "single" => Make(k, Step("create", "namespace"))
        BY MakeStep, Makeable, ObjectNames DEF BeforeOps
    <2> QED BY <2>1, MakeWhen
<1>2. Make(k, s2) BY MakeStep DEF BeforeOps
<1>3. Make(k, s3) BY CatalogMakes, MakeWhen DEF Environment
<1>4. Make(k, s4)
    <2>1. k = "single" => Make(k, Step("create", "group"))
        BY MakeStep, Makeable, ObjectNames DEF BeforeOps
    <2> QED BY <2>1, MakeWhen
<1>5. Make(k, s5)
    <2>1. Make(k, Step("lookUp", "manifest")) BY MakeStep, ObjectNames DEF BeforeOps
    <2> QED BY <2>1, MakeWhen DEF Environment
<1>6. Make(k, s6) BY <1>0, MakeStep DEF BeforeOps
<1>7. Make(k, s7) /\ Range(s7) = {[op |-> "await", arg |-> Operator[k]]}
    BY <1>0, MakeStep DEF BeforeOps
<1>8. Make(k, s8) BY MakeStep DEF BeforeOps
<1>9. InstallOperatorOLM(k, env) = ((((((s1 \o s2) \o s3) \o s4) \o s5) \o s6) \o s7) \o s8
    BY DEF InstallOperatorOLM, Check
<1> HIDE DEF s1, s2, s3, s4, s5, s6, s7, s8
<1>10. Make(k, s1 \o s2) BY <1>1, <1>2, MakeLonger
<1>11. Make(k, (s1 \o s2) \o s3) BY <1>3, <1>10, MakeLonger
<1>12. Make(k, ((s1 \o s2) \o s3) \o s4) BY <1>4, <1>11, MakeLonger
<1> DEFINE p4 == ((s1 \o s2) \o s3) \o s4
           p5 == p4 \o s5
           u == p5 \o s6
           v == u \o s7
<1>13. Make(k, p4) BY <1>12
<1> HIDE DEF p4
<1>14. Make(k, p5) BY <1>5, <1>13, MakeLonger
<1> HIDE DEF p5
<1>15. Make(k, u) BY <1>6, <1>14, MakeLonger
<1>16. InstallOperatorOLM(k, env) = v \o s8 BY <1>9 DEF p4, p5
<1> HIDE DEF u
<1>17. Make(k, v) /\ Range(s7) \subseteq Range(v) BY <1>7, <1>15, MakeLonger
<1> HIDE DEF v
<1>18. /\ Make(k, InstallOperatorOLM(k, env))
       /\ Range(v) \subseteq Range(InstallOperatorOLM(k, env))
    BY <1>8, <1>16, <1>17, MakeLonger
<1> QED BY <1>7, <1>17, <1>18

LEMMA BeforeSuiteMakes ==
    ASSUME NEW k \in Kind, NEW env \in Environment
    PROVE  /\ Make(k, BeforeSuite(k, env))
           /\ [op |-> "await", arg |-> Operator[k]] \in Range(BeforeSuite(k, env))
           /\ k = "bundle" => AwaitLast(BeforeSuite(k, env))
<1> DEFINE a == InitSuite(env)
           b == IF k = "bundle" THEN installOperator(env) ELSE InstallOperatorOLM(k, env)
<1>1. Make(k, a)
    BY InitSuiteMakes
<1>2. /\ Make(k, b) /\ [op |-> "await", arg |-> Operator[k]] \in Range(b)
      /\ k = "bundle" => b # <<>> /\ AwaitLast(b)
    <2>1. CASE k = "bundle" BY <2>1, InstallBundleMakes
    <2>2. CASE k \in {"single", "clusterwide"} BY <2>2, InstallMakes
    <2> QED BY <2>1, <2>2 DEF Kind
<1>3. BeforeSuite(k, env) = a \o b
    BY DEF BeforeSuite
<1> HIDE DEF a, b
<1>4. k = "bundle" => AwaitLast(a \o b)
    BY <1>1, <1>2, AwaitLastJoined DEF Make
<1> QED BY <1>1, <1>2, <1>3, <1>4, MakeLonger

\* A list that deletes neither the subscription nor a CSV.
Plain(s) == s \in Seq(AfterSteps) /\ \A x \in Range(s) : x # DeleteSub /\ x.op # "deleteCsv"

LEMMA PlainStep ==
    ASSUME NEW op, NEW arg, InOrder(Step(op, arg)), op # "deleteCsv",
           op = "deleteQuietly" => arg # "wideSubscription"
    PROVE  Plain(Step(op, arg))
<1>1. Step(op, arg) \in Seq(AfterSteps)
    BY DEF InOrder
<1>2. Range(Step(op, arg)) = {[op |-> op, arg |-> arg]}
    BY DEF Step, Range
<1> QED BY <1>1, <1>2 DEF Plain, DeleteSub

LEMMA PlainJoined ==
    ASSUME NEW s, NEW t, Plain(s), Plain(t)
    PROVE  Plain(s \o t)
BY Joined DEF Plain

LEMMA PlainWhen ==
    ASSUME NEW c, NEW s, c => Plain(s)
    PROVE  Plain(When(c, s))
BY DEF When, Plain, Range

LEMMA PlainIsLast ==
    ASSUME NEW s, Plain(s)
    PROVE  s \in Seq(AfterSteps) /\ CsvLast(s)
BY RangeEquality DEF Plain, CsvLast

LEMMA PlainBefore ==
    ASSUME NEW s, Plain(s), NEW t \in Seq(AfterSteps), CsvLast(t)
    PROVE  s \o t \in Seq(AfterSteps) /\ CsvLast(s \o t)
<1>1. /\ s \in Seq(AfterSteps) /\ Len(s) \in Nat /\ Len(t) \in Nat
      /\ s \o t \in Seq(AfterSteps) /\ Len(s \o t) = Len(s) + Len(t)
      /\ \A k \in 1 .. Len(s) + Len(t) :
             (s \o t)[k] = IF k <= Len(s) THEN s[k] ELSE t[k - Len(s)]
    BY ConcatProperties, LenProperties DEF Plain
<1> SUFFICES ASSUME NEW i \in 1 .. Len(s \o t), NEW j \in 1 .. Len(s \o t), ~(i <= j),
                    (s \o t)[i] = DeleteSub \/ (s \o t)[i].op = "deleteCsv",
                    (s \o t)[j].op = "deleteCsv"
             PROVE  FALSE
    BY <1>1 DEF CsvLast
<1>2. ASSUME NEW k \in 1 .. Len(s \o t), k <= Len(s)
      PROVE  (s \o t)[k] # DeleteSub /\ (s \o t)[k].op # "deleteCsv"
    <2>1. k \in 1 .. Len(s) /\ (s \o t)[k] = s[k] BY <1>1, <1>2
    <2>2. s[k] \in Range(s) BY <1>1, <2>1, RangeEquality
    <2> QED BY <2>1, <2>2 DEF Plain
<1>3. i > Len(s) /\ j > Len(s)
    BY <1>1, <1>2
<1> DEFINE m == i - Len(s)
           n == j - Len(s)
<1>4. /\ m \in 1 .. Len(t) /\ n \in 1 .. Len(t) /\ ~(m <= n)
      /\ (s \o t)[i] = t[m] /\ (s \o t)[j] = t[n]
    BY <1>1, <1>3
<1> HIDE DEF m, n
<1> QED BY <1>4 DEF CsvLast

LEMMA PlainAfter ==
    ASSUME NEW s \in Seq(AfterSteps), CsvLast(s), NEW t, Plain(t)
    PROVE  s \o t \in Seq(AfterSteps) /\ CsvLast(s \o t)
<1>1. /\ t \in Seq(AfterSteps) /\ Len(s) \in Nat /\ Len(t) \in Nat
      /\ s \o t \in Seq(AfterSteps) /\ Len(s \o t) = Len(s) + Len(t)
      /\ \A k \in 1 .. Len(s) + Len(t) :
             (s \o t)[k] = IF k <= Len(s) THEN s[k] ELSE t[k - Len(s)]
    BY ConcatProperties, LenProperties DEF Plain
<1> SUFFICES ASSUME NEW i \in 1 .. Len(s \o t), NEW j \in 1 .. Len(s \o t), ~(i <= j),
                    (s \o t)[i] = DeleteSub \/ (s \o t)[i].op = "deleteCsv",
                    (s \o t)[j].op = "deleteCsv"
             PROVE  FALSE
    BY <1>1 DEF CsvLast
<1>2. ASSUME NEW k \in 1 .. Len(s \o t), k > Len(s)
      PROVE  (s \o t)[k] # DeleteSub /\ (s \o t)[k].op # "deleteCsv"
    <2>1. k - Len(s) \in 1 .. Len(t) /\ (s \o t)[k] = t[k - Len(s)] BY <1>1, <1>2
    <2>2. t[k - Len(s)] \in Range(t) BY <1>1, <2>1, RangeEquality
    <2> QED BY <2>1, <2>2 DEF Plain
<1>3. i <= Len(s) /\ j <= Len(s)
    BY <1>1, <1>2
<1>4. i \in 1 .. Len(s) /\ j \in 1 .. Len(s) /\ (s \o t)[i] = s[i] /\ (s \o t)[j] = s[j]
    BY <1>1, <1>3
<1> QED BY <1>4 DEF CsvLast

LEMMA WideAfterSuite ==
    ASSUME NEW env \in Environment, NEW info \in Handles \cup {"none"}
    PROVE  CsvLast(AfterSuite("clusterwide", env, info))
<1> DEFINE l == Step("logs", "-")
           d1 == DeleteSubscription("clusterwide")
           d2 == When("clusterwide" = "single", Step("deleteQuietly", "group"))
           d3 == When(info = "own", Step("deleteQuietly", "catalog"))
           d4 == When(info = "empty", Step("deleteUnnamed", "-"))
           d == ((d1 \o d2) \o d3) \o d4
           w == When(info # "none", d)
           n == When("clusterwide" = "single", DeleteTestNamespace("namespace"))
           u == (l \o w) \o n
           s1 == When(env.selenium, l)
           s3 == When(env.selenium, removeSeleniumChrome)
           c == Step("check", "-")
           Last(s) == s \in Seq(AfterSteps) /\ CsvLast(s)
<1>1. Plain(l)
    <2>1. InOrder(l) BY StepInOrder DEF AfterOps
    <2> QED BY <2>1, PlainStep
<1>2. Last(d1)
    <2>1. d1 \in Seq(AfterSteps)
        BY SubscriptionSteps DEF InOrder
    <2>2. /\ Len(d1) = 3 /\ d1[1] = DeleteSub
          /\ d1[2] = [op |-> "deleteCsv", arg |-> "wideCsv"]
          /\ d1[3] = [op |-> "awaitGone", arg |-> "wideOperator"]
        BY DEF DeleteSubscription, Step, Subscription, Csv, Operator, DeleteSub
    <2> HIDE DEF d1
    <2>3. d1[1].op # "deleteCsv" /\ d1[3].op # "deleteCsv" /\ d1[3] # DeleteSub
        BY <2>2 DEF DeleteSub
    <2> QED BY <2>1, <2>2, <2>3 DEF CsvLast
<1>3. Plain(d2)
    BY PlainWhen
<1>4. Plain(d3)
    <2>1. InOrder(Step("deleteQuietly", "catalog")) BY ObjectNames, StepInOrder DEF AfterOps
    <2>2. Plain(Step("deleteQuietly", "catalog")) BY <2>1, PlainStep
    <2> QED BY <2>2, PlainWhen
<1>5. Plain(d4)
    <2>1. InOrder(Step("deleteUnnamed", "-")) BY StepInOrder DEF AfterOps
    <2>2. Plain(Step("deleteUnnamed", "-")) BY <2>1, PlainStep
    <2> QED BY <2>2, PlainWhen
<1>6. Plain(n)
    BY PlainWhen
<1>7. Plain(s1)
    BY <1>1, PlainWhen
<1>8. Plain(s3)
    <2>1. \A ns \in {"seleniumDeployment", "seleniumService", "seleniumIngress"} :
              Plain(Step("delete", ns))
        BY StepInOrder, ObjectNames, PlainStep DEF AfterOps
    <2>2. Plain(DeleteTestNamespace("seleniumNamespace"))
        <3>1. InOrder(Step("deleteIfFound", "seleniumNamespace"))
            BY StepInOrder, ObjectNames DEF AfterOps
        <3>2. InOrder(Step("awaitGone", "seleniumNamespace"))
            BY StepInOrder, ObjectNames DEF AfterOps
        <3> QED BY <3>1, <3>2, PlainStep, PlainJoined DEF DeleteTestNamespace
    <2> DEFINE p1 == Step("delete", "seleniumDeployment")
               p2 == Step("delete", "seleniumService")
               p3 == Step("delete", "seleniumIngress")
               p4 == DeleteTestNamespace("seleniumNamespace")
    <2>3. Plain(p1) /\ Plain(p2) /\ Plain(p3) /\ Plain(p4)
        BY <2>1, <2>2
    <2>4. removeSeleniumChrome = ((p1 \o p2) \o p3) \o p4
        BY DEF removeSeleniumChrome
    <2> HIDE DEF p1, p2, p3, p4
    <2>5. Plain(p1 \o p2) BY <2>3, PlainJoined
    <2>6. Plain((p1 \o p2) \o p3) BY <2>3, <2>5, PlainJoined
    <2>7. Plain(removeSeleniumChrome) BY <2>3, <2>4, <2>6, PlainJoined
    <2> QED BY <2>7, PlainWhen
<1>9. Plain(c)
    <2>1. InOrder(c) BY StepInOrder DEF AfterOps
    <2> QED BY <2>1, PlainStep
<1>10. AfterSuite("clusterwide", env, info) = ((s1 \o u) \o s3) \o c
    BY DEF AfterSuite, UninstallOperatorOLM, Check
<1> HIDE DEF l, d1, d2, d3, d4, n, s1, s3, c
<1>11. Last(d1 \o d2) BY <1>2, <1>3, PlainAfter
<1>12. Last((d1 \o d2) \o d3) BY <1>4, <1>11, PlainAfter
<1>13. Last(d) BY <1>5, <1>12, PlainAfter
<1> HIDE DEF d
<1>14. Last(w)
    BY <1>13 DEF When, CsvLast
<1> HIDE DEF w
<1>15. Last(l \o w) BY <1>1, <1>14, PlainBefore
<1>16. Last(u) BY <1>6, <1>15, PlainAfter
<1> HIDE DEF u
<1>17. Last(s1 \o u) BY <1>7, <1>16, PlainBefore
<1>18. Last((s1 \o u) \o s3) BY <1>8, <1>17, PlainAfter
<1>19. Last(((s1 \o u) \o s3) \o c) BY <1>9, <1>18, PlainAfter
<1> HIDE DEF Last
<1>20. Last(AfterSuite("clusterwide", env, info)) BY <1>10, <1>19
<1> QED BY <1>20 DEF Last

----------------------------------------------------------------------------
(* What a step does to Series. *)

LEMMA TrackedObjects ==
    /\ Tracked \subseteq Objects
    /\ \A o \in Tracked \cap DOMAIN Owner :
           Owner[o] \in Tracked /\ o \in DOMAIN Maker /\ Owner[o] = Maker[o]
    /\ DOMAIN Owner \subseteq DOMAIN Maker
    /\ DOMAIN Maker \subseteq Objects /\ DOMAIN Home \subseteq Objects
    /\ \A o \in Tracked \cap DOMAIN Maker : Maker[o] \in Tracked
    /\ \A o \in Tracked \cap DOMAIN Home : Home[o] \in Tracked
    /\ \A o \in DOMAIN Home : Home[o] \in {"namespace", "seleniumNamespace"}
    /\ \A o \in DOMAIN Home \cup DOMAIN Maker : o \notin {"namespace", "seleniumNamespace"}
    /\ Selenium \cap Tracked = {}
BY ObjectNames DEF Tracked, Owner, Maker, Home, Selenium

LEMMA OwnObjects ==
    ASSUME NEW k \in Kind
    PROVE  /\ Own[k] \subseteq Tracked
           /\ Operator[k] \in Tracked \ {"catalog"}
           /\ \A o \in Tracked \cap DOMAIN Maker : Maker[o] \in Own[k] => o \in Own[k]
           /\ k # "bundle" => "catalog" \in Own[k]
BY DEF Kind, Own, Tracked, Operator, Maker

\* Nothing comes to exist outside an accepting namespace, nor ceases to.
LEMMA HomedStep ==
    ASSUME Homed,
           \A p \in Objects : cluster'[p] # "absent" => cluster[p] # "absent" \/ Accepting(p),
           \A p \in {"namespace", "seleniumNamespace"} :
               cluster[p] # "absent" => cluster'[p] # "absent"
    PROVE  Homed'
<1> SUFFICES ASSUME NEW p \in DOMAIN Home, cluster'[p] # "absent"
             PROVE  cluster'[Home[p]] # "absent"
    BY DEF Homed
<1>1. p \in Objects /\ Home[p] \in {"namespace", "seleniumNamespace"}
    BY TrackedObjects
<1>2. cluster[Home[p]] # "absent"
    BY <1>1 DEF Homed, Accepting, Live
<1> QED BY <1>1, <1>2

\* What works now did so before and has not changed hands, or comes from this run.
LEMMA OfThisRunStep ==
    ASSUME OfThisRun, kind' = kind, run' = run,
           \A o \in Tracked : cluster'[o] \in Live =>
               \/ cluster[o] \in Live /\ origin'[o] \in {origin[o], run}
               \/ o \in Own[kind] /\ origin'[o] = run
    PROVE  OfThisRun'
BY DEF OfThisRun

LEMMA RunSame ==
    ASSUME UNCHANGED <<report, phase>>
    PROVE  run' = run
BY DEF run

\* Steps of BeforeSuite that go through: nothing stops working, and what is made is
\* of this suite.
LEMMA SeriesBefore ==
    ASSUME IInv, Series, phase = "before", todo # <<>>, Advance,
           \A o \in Tracked :
               /\ cluster[o] \in Live => cluster'[o] \in Live
               /\ o # "catalog" /\ cluster[o] = "ready" =>
                      cluster'[o] = "ready" \/ (o = Operator[kind] /\ Due("await", o)')
               /\ cluster'[o] \in Live =>
                      \/ cluster[o] \in Live /\ origin'[o] \in {origin[o], run}
                      \/ /\ o \in Own[kind] \ DOMAIN Maker /\ origin'[o] = run
                         /\ Accepting(o),
           Head(todo) = [op |-> "await", arg |-> Operator[kind]] => cluster'[Operator[kind]] = "ready",
           Homed'
    PROVE  Series'
<1> USE DEF IInv, Series
<1>1. UNCHANGED <<kind, phase, report, failed>> /\ todo' = Tail(todo) /\ kind \in Kind
    BY Constants DEF Advance
<1>2. MakesOwn'
    BY <1>1, TailKeeps, AwaitLastTail DEF MakesOwn
<1> SUFFICES ASSUME Green PROVE (OfThisRun /\ Attached /\ OperatorComes)'
    BY <1>1, <1>2 DEF Green, OperatorGoes, NothingStays
<1>3. OfThisRun /\ Attached /\ OperatorComes
    OBVIOUS
<1>4. OfThisRun'
    BY <1>1, <1>3, RunSame, OfThisRunStep
<1>5. Attached'
    <2> SUFFICES ASSUME NEW o \in Tracked, cluster'[o] \in Live PROVE Stays(o)'
        BY DEF Attached
    <2>1. CASE cluster[o] \in Live
        <3>1. Stays(o)
            BY <1>3, <2>1 DEF Attached
        <3>2. o \in DOMAIN Owner => cluster'[Owner[o]] \in Live
            BY <3>1, TrackedObjects DEF Stays
        <3>3. o \in DOMAIN Home => cluster'[Home[o]] \in Live
            BY <3>1, TrackedObjects DEF Stays, Accepting
        <3> QED BY <3>2, <3>3 DEF Stays, Accepting
    <2>2. CASE o \notin DOMAIN Maker /\ Accepting(o)
        <3>1. o \notin DOMAIN Owner
            BY <2>2, TrackedObjects
        <3>2. o \in DOMAIN Home => cluster'[Home[o]] \in Live
            BY <2>2, TrackedObjects DEF Accepting
        <3> QED BY <3>1, <3>2 DEF Stays, Accepting
    <2> QED BY <2>1, <2>2
<1>6. OperatorComes'
    <2>1. Operator[kind] \in Tracked \ {"catalog"}
        BY <1>1, OwnObjects
    <2>2. Range(todo) \subseteq Range(todo') \cup {Head(todo)}
        BY Advancing
    <2> QED BY <1>1, <1>3, <2>1, <2>2 DEF OperatorComes, Due
<1> QED BY <1>4, <1>5, <1>6

\* Steps of AfterSuite that go through or fail: nothing is made.
Lessens ==
    /\ UNCHANGED <<kind, origin>>
    /\ \A o \in Objects : /\ cluster'[o] = "absent" <=> cluster[o] = "absent"
                          /\ cluster'[o] \in Live => cluster[o] \in Live

LEMMA LessensKeeps ==
    ASSUME Series, Lessens
    PROVE  /\ Homed'
           /\ Green /\ run' = run => OfThisRun'
<1>1. Homed'
    BY HomedStep, ObjectNames DEF Lessens, Series
<1>2. Green /\ run' = run => OfThisRun'
    BY TrackedObjects, OfThisRunStep DEF Lessens, Series
<1> QED BY <1>1, <1>2

LEMMA SeriesPanic ==
    ASSUME IInv, Series, todo # <<>>, Panic, Lessens
    PROVE  Series'
<1> USE DEF IInv, Series
<1>1. phase \in {"before", "after"} /\ failed'
    BY DEF TypeOK, ListsOK, Panic
<1>2. CASE phase = "before"
    <2>1. phase' = "after" /\ report' = report /\ run' = run
        BY <1>2 DEF Panic, run
    <2> QED BY <1>1, <2>1, LessensKeeps
        DEF Green, MakesOwn, Attached, OperatorComes, OperatorGoes, NothingStays
<1>3. CASE phase = "after"
    <2>1. phase' = "idle" /\ report' = Append(report, "failed")
        BY <1>3 DEF Panic
    <2>2. report' # <<>> /\ report'[Len(report')] = "failed" /\ report' \in Seq(Verdicts)
        BY <1>3, <2>1, VerdictTyped DEF Verdicts
    <2>3. Len(report') \in DOMAIN report'
        <3>1. Len(report') \in Nat \ {0} BY <2>2, EmptySeq
        <3> QED BY <2>2, <3>1
    <2>4. ~Green'
        BY <2>2, <2>3 DEF Green
    <2> QED BY <2>1, <2>4, LessensKeeps DEF MakesOwn
<1> QED BY <1>1, <1>2, <1>3

LEMMA CsvLastOfRest ==
    ASSUME NEW s, NEW t, NEW n \in Nat, Len(s) \in Nat, Len(t) = Len(s) - n,
           \A i \in 1 .. Len(t) : t[i] = s[i + n],
           CsvLast(s)
    PROVE  CsvLast(t)
<1> SUFFICES ASSUME NEW i \in 1 .. Len(t), NEW j \in 1 .. Len(t),
                    t[i] = DeleteSub \/ t[i].op = "deleteCsv", t[j].op = "deleteCsv"
             PROVE  i <= j
    BY DEF CsvLast
<1>1. i + n \in 1 .. Len(s) /\ j + n \in 1 .. Len(s) /\ t[i] = s[i + n] /\ t[j] = s[j + n]
    OBVIOUS
<1>2. i + n <= j + n
    BY <1>1 DEF CsvLast
<1> QED BY <1>2

\* After the first step, if it deletes a CSV, no other does, nor one a subscription.
LEMMA CsvOnce ==
    ASSUME NEW s \in Seq(AfterSteps), CsvLast(s), s # <<>>, Head(s).op = "deleteCsv",
           NEW t, NEW n \in Nat, n >= 1, Len(t) = Len(s) - n,
           \A i \in 1 .. Len(t) : t[i] = s[i + n], t \in Seq(AfterSteps),
           NEW x \in Range(t)
    PROVE  x # DeleteSub /\ x.op # "deleteCsv"
<1>1. Len(s) \in Nat \ {0} /\ Head(s) = s[1] /\ Len(t) \in Nat
    BY EmptySeq, LenProperties
<1>2. PICK i \in 1 .. Len(t) : t[i] = x
    BY RangeEquality
<1>3. i + n \in 1 .. Len(s) /\ s[i + n] = x /\ 1 \in 1 .. Len(s) /\ ~(i + n <= 1)
    BY <1>1, <1>2
<1> QED BY <1>1, <1>3 DEF CsvLast

LEMMA SeriesAfter ==
    ASSUME IInv, IInv', Series, phase = "after", todo # <<>>, Advance, Lessens,
           Head(todo).op # "deleteCsv" /\ cluster["wideCsv"] \in Live =>
               cluster'["wideCsv"] \in Live,
           Head(todo).op = "deleteCsv" => cluster'[Arg] \notin Live,
           Head(todo) = [op |-> "awaitGone", arg |-> "wideOperator"] =>
               cluster'["wideOperator"] \notin Live
    PROVE  Series'
<1> USE DEF IInv, Series
<1>1. UNCHANGED <<kind, phase, report, failed, config>> /\ todo' = Tail(todo) /\ run' = run
    BY DEF Advance, run
<1>2. Homed' /\ MakesOwn' /\ (Green => OfThisRun')
    BY <1>1, LessensKeeps DEF MakesOwn
<1> SUFFICES ASSUME Green, ~failed, kind = "clusterwide" PROVE OperatorGoes'
    BY <1>1, <1>2 DEF Green, Attached, OperatorComes, NothingStays, OperatorGoes
<1>3. OperatorGoes /\ CsvLast(todo) /\ todo \in Seq(AfterSteps) /\ Ordered(todo)
    BY DEF OperatorGoes, ListsOK
<1>4. /\ Len(todo) \in Nat \ {0} /\ Head(todo) = todo[1] /\ Head(todo) \in AfterSteps
      /\ todo' \in Seq(AfterSteps) /\ Len(todo') = Len(todo) - 1
      /\ \A i \in 1 .. Len(todo') : todo'[i] = todo[i + 1]
    BY <1>1, <1>3, HeadTailProperties, EmptySeq
<1>5. Range(todo) \subseteq Range(todo') \cup {Head(todo)} /\ Range(todo') \subseteq Range(todo)
    <2>1. Range(todo) \subseteq Range(todo') \cup {Head(todo)}
        BY <1>1, <1>3, TailKeeps
    <2>2. ASSUME NEW x \in Range(todo') PROVE x \in Range(todo)
        <3>1. PICK i \in 1 .. Len(todo') : todo'[i] = x BY <1>4, RangeEquality
        <3>2. i + 1 \in 1 .. Len(todo) /\ todo[i + 1] = x BY <1>4, <3>1
        <3> QED BY <1>3, <3>2, RangeEquality
    <2> QED BY <2>1, <2>2
<1>6. CsvLast(todo')
    <2> DEFINE t == todo'
    <2> HIDE DEF t
    <2>1. Len(t) = Len(todo) - 1 /\ \A i \in 1 .. Len(t) : t[i] = todo[i + 1]
        BY <1>4 DEF t
    <2>2. CsvLast(t)
        BY <1>3, <1>4, <2>1, CsvLastOfRest
    <2> QED BY <2>2 DEF t, CsvLast
<1>7. \A o \in {"wideSubscription", "wideCsv", "wideOperator"} :
          cluster[o] \notin Live => cluster'[o] \notin Live
    BY ObjectNames DEF Lessens
<1>8. CASE Due("deleteCsv", "wideCsv") /\ cluster["wideCsv"] \in Live
    <2>1. CASE Head(todo).op # "deleteCsv"
        <3>1. cluster'["wideCsv"] \in Live
            BY <1>8, <2>1
        <3>2. Due("deleteCsv", "wideCsv")'
            BY <1>5, <1>8, <2>1 DEF Due
        <3> QED BY <1>1, <1>6, <3>1, <3>2 DEF OperatorGoes
    <2>2. CASE Head(todo).op = "deleteCsv"
        <3> DEFINE t == todo'
        <3> HIDE DEF t
        <3>1. /\ t \in Seq(AfterSteps) /\ Len(t) = Len(todo) - 1
              /\ \A i \in 1 .. Len(t) : t[i] = todo[i + 1]
            BY <1>4 DEF t
        <3>2. \A x \in Range(t) : x # DeleteSub /\ x.op # "deleteCsv"
            BY <1>3, <2>2, <3>1, CsvOnce
        <3>3. \A x \in Range(todo') : x # DeleteSub /\ x.op # "deleteCsv"
            BY <3>2 DEF t
        <3>4. ~Due("deleteCsv", "wideCsv")' /\ ~Due("deleteQuietly", "wideSubscription")'
            BY <3>3 DEF Due, DeleteSub
        <3>5. Head(todo) = [op |-> "deleteCsv", arg |-> "wideCsv"]
            <4>1. [op |-> "deleteCsv", arg |-> "wideCsv"] \in Range(todo)
                BY <1>8 DEF Due
            <4> QED BY <1>5, <3>3, <4>1
        <3>6. cluster'["wideCsv"] \notin Live
            BY <2>2, <3>5 DEF Arg
        <3>7. cluster'["wideSubscription"] \notin Live
            <4>1. Removing' BY <1>1 DEF Removing
            <4>2. InstallationGoes' BY <4>1 DEF RemovalIsDue
            <4> QED BY <1>1, <3>4, <4>2 DEF InstallationGoes
        <3>8. Due("awaitGone", "wideOperator")'
            <4>1. 1 \in 1 .. Len(todo) /\ todo[1].op = "deleteCsv" /\ todo[1].arg = "wideCsv"
                BY <1>4, <3>5
            <4>2. 1 < Len(todo) /\ todo[1 + 1] = Wait("wideCsv")
                BY <1>3, <4>1 DEF Ordered
            <4>3. 1 \in 1 .. Len(todo') /\ todo'[1] = Wait("wideCsv")
                BY <1>4, <4>2
            <4>4. Wait("wideCsv") \in Range(todo')
                BY <1>4, <4>3, RangeEquality
            <4> QED BY <4>4 DEF Due, Wait
        <3> QED BY <1>6, <3>4, <3>6, <3>7, <3>8 DEF OperatorGoes
    <2> QED BY <2>1, <2>2
<1>9. CASE /\ ~Due("deleteCsv", "wideCsv")
           /\ cluster["wideSubscription"] \notin Live /\ cluster["wideCsv"] \notin Live
           /\ Due("awaitGone", "wideOperator") \/ cluster["wideOperator"] \notin Live
    <2>1. ~Due("deleteCsv", "wideCsv")'
        BY <1>5, <1>9 DEF Due
    <2>2. Due("awaitGone", "wideOperator")' \/ cluster'["wideOperator"] \notin Live
        BY <1>5, <1>7, <1>9 DEF Due
    <2> QED BY <1>6, <1>7, <1>9, <2>1, <2>2 DEF OperatorGoes
<1> QED BY <1>3, <1>8, <1>9 DEF OperatorGoes

\* The CSV that is gone is not the clusterwide one, which is there until its deletion.
LEMMA SeriesNoCsv == ASSUME IInv, Series, NoCsv PROVE Series'
<1> USE DEF IInv, Series
<1>1. /\ phase = "after" /\ cluster[Arg] = "absent"
      /\ UNCHANGED <<kind, phase, report, failed, cluster, origin>> /\ run' = run
    BY DroppedSteps DEF NoCsv, run
<1>2. /\ todo \in Seq(AfterSteps) /\ Len(todo) \in Nat /\ Len(todo) >= 2 /\ todo # <<>>
      /\ Head(todo) = [op |-> "deleteCsv", arg |-> Arg] /\ todo[2] = Wait(Arg)
      /\ Len(todo') = Len(todo) - 2
      /\ \A i \in 1 .. Len(todo') : todo'[i] = todo[i + 2]
      /\ todo' \in Seq(AfterSteps)
      /\ Range(todo) \subseteq Range(todo') \cup {Head(todo), todo[2]}
    BY DroppedSteps DEF NoCsv, At
<1>3. Homed' /\ MakesOwn' /\ (Green => OfThisRun')
    BY <1>1 DEF Homed, MakesOwn, OfThisRun
<1> SUFFICES ASSUME Green, ~failed, kind = "clusterwide" PROVE OperatorGoes'
    BY <1>1, <1>3 DEF Green, Attached, OperatorComes, NothingStays, OperatorGoes
<1>4. OperatorGoes /\ CsvLast(todo)
    BY <1>1 DEF OperatorGoes
<1> DEFINE t == todo'
<1> HIDE DEF t
<1>5. /\ t \in Seq(AfterSteps) /\ Len(t) = Len(todo) - 2
      /\ \A i \in 1 .. Len(t) : t[i] = todo[i + 2]
    BY <1>2 DEF t
<1>6. CsvLast(todo')
    <2>1. CsvLast(t) BY <1>2, <1>4, <1>5, CsvLastOfRest
    <2> QED BY <2>1 DEF t, CsvLast
<1>7. \A x \in Range(todo') : x.op # "deleteCsv"
    <2>1. \A x \in Range(t) : x.op # "deleteCsv"
        BY <1>2, <1>4, <1>5, CsvOnce
    <2> QED BY <2>1 DEF t
<1>8. ~Due("deleteCsv", "wideCsv")'
    BY <1>7 DEF Due
<1>9. CASE Due("deleteCsv", "wideCsv") /\ cluster["wideCsv"] \in Live
    <2>1. [op |-> "deleteCsv", arg |-> "wideCsv"] = Head(todo)
        BY <1>2, <1>8, <1>9 DEF Due, Wait
    <2>2. Arg = "wideCsv"
        BY <2>1 DEF Arg
    <2> QED BY <1>1, <1>9, <2>2 DEF Live
<1>10. CASE /\ ~Due("deleteCsv", "wideCsv")
            /\ cluster["wideSubscription"] \notin Live /\ cluster["wideCsv"] \notin Live
            /\ Due("awaitGone", "wideOperator") \/ cluster["wideOperator"] \notin Live
    <2>1. Arg # "wideCsv"
        <3>1. Head(todo) \in Range(todo)
            BY <1>2, RangeEquality
        <3> QED BY <1>2, <1>10, <3>1 DEF Due
    <2>2. Due("awaitGone", "wideOperator") => Due("awaitGone", "wideOperator")'
        BY <1>2, <2>1 DEF Due, Wait
    <2> QED BY <1>1, <1>6, <1>8, <1>10, <2>2 DEF OperatorGoes
<1> QED BY <1>1, <1>4, <1>9, <1>10 DEF OperatorGoes

\* Nothing works any more after a green suite.
LEMMA GreenLeavesNothing ==
    ASSUME IInv, Series, Green, phase = "after", todo = <<>>, ~failed
    PROVE  \A o \in Tracked : cluster[o] \notin Live
<1> USE DEF IInv, Series
<1>1. Removing /\ \A op, arg : ~Due(op, arg)
    BY DEF Removing, Due, Range
<1>2. NamespacesGo /\ ManifestsGo /\ CatalogGoes /\ InstallationGoes /\ OfThisRun /\ kind \in Kind
    BY <1>1, Constants DEF RemovalIsDue
<1> SUFFICES ASSUME NEW o \in Own[kind], cluster[o] \in Live PROVE FALSE
    BY <1>2 DEF OfThisRun
<1>3. kind # "clusterwide" =>
          /\ o # "namespace"
          /\ ~(o \in DOMAIN Home /\ Home[o] = "namespace")
    BY <1>1, <1>2 DEF NamespacesGo, Homed, Live
<1>4. kind # "bundle" => o # "catalog"
    <2>1. kind # "bundle" => olminfo \in {"nil", "own", "empty"}
        BY <1>1 DEF InfoIsKnown, TypeOK, Handles
    <2>2. olminfo = "nil" /\ kind # "bundle" => cluster["catalog"] = "absent"
        BY DEF InfoIsKnown, NothingElse
    <2> QED BY <1>1, <1>2, <2>1, <2>2 DEF CatalogGoes, Live
<1>5. CASE kind = "bundle"
    <2>1. o \in {"namespace", "manifests", "clusterManifests", "bundleOperator"}
        BY <1>5 DEF Own
    <2>2. cluster["clusterManifests"] \notin Live
        BY <1>1, <1>2, <1>5 DEF ManifestsGo
    <2> QED BY <1>3, <1>5, <2>1, <2>2 DEF Home
<1>6. CASE kind = "single"
    <2>1. o \in {"namespace", "catalog", "group", "subscription", "csv", "operator"}
        BY <1>6 DEF Own
    <2> QED BY <1>3, <1>4, <1>6, <2>1 DEF Home
<1>7. CASE kind = "clusterwide"
    <2>1. o \in {"catalog", "wideSubscription", "wideCsv", "wideOperator"}
        BY <1>7 DEF Own
    <2>2. /\ cluster["wideSubscription"] \notin Live /\ cluster["wideCsv"] \notin Live
          /\ cluster["wideOperator"] \notin Live
        BY <1>1, <1>7 DEF OperatorGoes
    <2> QED BY <1>4, <1>7, <2>1, <2>2
<1> QED BY <1>2, <1>5, <1>6, <1>7 DEF Kind

\* A verdict other than passed ends the series.
LEMMA NotGreen ==
    ASSUME TypeOK, phase # "idle", NEW v \in Verdicts, v # "passed",
           report' = Append(report, v)
    PROVE  ~Green'
<1>1. report' # <<>> /\ report'[Len(report')] = v /\ report' \in Seq(Verdicts)
    BY VerdictTyped
<1>2. Len(report') \in DOMAIN report'
    <2>1. Len(report') \in Nat \ {0} BY <1>1, EmptySeq
    <2> QED BY <1>1, <2>1
<1> QED BY <1>1, <1>2 DEF Green

LEMMA SeriesRun ==
    ASSUME IInv, Series, RunStep \/ Die
    PROVE  Series'
<1> USE DEF IInv, Series
<1>1. ASSUME NEW k \in Kinds, StartSuite(k) PROVE Series'
    <2>1. /\ k \in Kind /\ config \in Environment
        BY SuitesAssumption, Constants DEF Kind
    <2>2. /\ phase = "idle" /\ phase' = "before" /\ kind' = k
          /\ todo' = BeforeSuite(k, config)
          /\ UNCHANGED <<report, cluster, origin>>
        BY <1>1 DEF StartSuite
    <2>3. /\ Make(k, todo') /\ [op |-> "await", arg |-> Operator[k]] \in Range(todo')
          /\ k = "bundle" => AwaitLast(todo')
        BY <2>1, <2>2, BeforeSuiteMakes
    <2>4. MakesOwn' /\ Homed'
        BY <2>2, <2>3 DEF MakesOwn, Make, Homed
    <2>5. Green' => (\A o \in Tracked : cluster[o] \notin Live)'
        BY <2>2 DEF Green, NothingStays
    <2>6. OperatorComes'
        BY <2>2, <2>3 DEF OperatorComes, Due
    <2> QED BY <2>2, <2>4, <2>5, <2>6 DEF OfThisRun, Attached, OperatorGoes, NothingStays
<1>2. CASE StartSpecs
    <2>1. /\ phase = "before" /\ phase' = "specs" /\ todo = <<>>
          /\ UNCHANGED <<kind, todo, report, cluster, origin>> /\ run' = run
        BY <1>2 DEF StartSpecs, run
    <2>2. ~Due("await", Operator[kind])
        BY <2>1 DEF Due, Range
    <2>3. Homed' /\ MakesOwn'
        BY <2>1 DEF Homed, MakesOwn
    <2>4. Green => (OfThisRun /\ Attached /\ OperatorComes)'
        BY <2>1, <2>2 DEF OfThisRun, Attached, OperatorComes, Stays, Accepting
    <2> QED BY <2>1, <2>3, <2>4 DEF Green, OperatorGoes, NothingStays
<1>3. CASE EndSpecs
    <2>1. /\ phase = "specs" /\ phase' = "after" /\ todo' = AfterSuite(kind, config, olminfo)
          /\ UNCHANGED <<kind, config, olminfo, report, cluster, origin>> /\ run' = run
        BY <1>3 DEF EndSpecs, process, run
    <2>2. Homed' /\ MakesOwn'
        BY <2>1 DEF Homed, MakesOwn
    <2>3. Green => OfThisRun'
        BY <2>1 DEF OfThisRun
    <2>4. ASSUME Green, kind = "clusterwide" PROVE OperatorGoes'
        <3>1. olminfo \in Handles \cup {"none"} /\ config \in Environment /\ kind \in Kind
            BY Constants DEF TypeOK
        <3> DEFINE A == AfterSuite("clusterwide", config, olminfo)
        <3>2. CsvLast(A)
            BY <3>1, WideAfterSuite
        <3>3. todo' = A
            BY <2>1, <2>4
        <3>4. olminfo # "none"
            BY <2>1, <2>4 DEF InfoIsKnown
        <3>5. [op |-> "deleteCsv", arg |-> "wideCsv"] \in Range(A)
            BY <2>4, <3>1, <3>4, AfterSuiteSteps
        <3>6. cluster["wideOperator"] = "ready" /\ "wideOperator" \in Tracked
            BY <2>1, <2>4, OwnObjects DEF OperatorComes, Operator, Tracked
        <3>7. cluster["wideCsv"] \in Live
            <4>1. Stays("wideOperator")
                BY <2>1, <2>4, <3>6 DEF Attached, Live
            <4> QED BY <4>1 DEF Stays, Owner
        <3> HIDE DEF A
        <3> QED BY <2>1, <3>2, <3>3, <3>5, <3>7 DEF OperatorGoes, Due, CsvLast
    <2>5. kind # "clusterwide" => OperatorGoes'
        BY <2>1 DEF OperatorGoes
    <2> QED BY <2>1, <2>2, <2>3, <2>4, <2>5 DEF Green, Attached, OperatorComes, NothingStays
<1>4. CASE EndSuite
    <2>1. /\ phase = "after" /\ phase' = "idle" /\ todo = <<>>
          /\ report' = Append(report, IF failed THEN "failed" ELSE "passed")
          /\ UNCHANGED <<kind, cluster, origin>>
        BY <1>4 DEF EndSuite
    <2>2. Homed' /\ MakesOwn'
        BY <2>1 DEF Homed, MakesOwn
    <2>3. CASE failed
        <3>1. ~Green'
            BY <2>1, <2>3, NotGreen DEF Verdicts
        <3> QED BY <2>2, <3>1
    <2>4. CASE ~failed
        <3> SUFFICES ASSUME Green' PROVE Series'
            BY <2>2
        <3>1. Green
            <4>1. report \in Seq(Verdicts) /\ report' = Append(report, "passed")
                BY <2>1, <2>4 DEF TypeOK
            <4>2. ASSUME NEW i \in DOMAIN report PROVE report[i] = "passed"
                <5>1. i \in DOMAIN report' /\ report'[i] = report[i]
                    BY <4>1, AppendProperties
                <5> QED BY <5>1 DEF Green
            <4> QED BY <4>2 DEF Green
        <3>2. \A o \in Tracked : cluster[o] \notin Live
            BY <2>1, <2>4, <3>1, GreenLeavesNothing
        <3> QED BY <2>1, <2>2, <3>2
            DEF OfThisRun, Attached, OperatorComes, OperatorGoes, NothingStays
    <2> QED BY <2>3, <2>4
<1>5. CASE Die
    <2>1. Homed' /\ MakesOwn'
        BY <1>5 DEF Die, Homed, MakesOwn
    <2>2. ~Green'
        BY <1>5, NotGreen DEF Die, Verdicts
    <2> QED BY <2>1, <2>2
<1> QED BY <1>1, <1>2, <1>3, <1>4, <1>5 DEF RunStep

LEMMA SeriesCall ==
    ASSUME IInv, IInv', Series, CallStep \/ Misfortune
    PROVE  Series'
<1>0. /\ cluster \in [Objects -> Status] /\ origin \in [Objects -> 0 .. Runs]
      /\ kind \in Kind /\ Homed
      /\ todo # <<>> => /\ phase \in {"before", "after"}
                        /\ phase = "before" => Head(todo) \in BeforeSteps(config)
                        /\ phase = "before" => Head(todo) \in MakeSteps(kind)
                        /\ phase = "after" => Head(todo) \in AfterSteps
    BY Constants, TailKeeps DEF IInv, TypeOK, ListsOK, Series, MakesOwn
<1>1. CASE Pass \/ Connect \/ ReturnInfo \/ PollDone
    <2>1. /\ todo # <<>> /\ Advance /\ UNCHANGED <<cluster, origin>>
          /\ Head(todo).op # "deleteCsv"
          /\ Head(todo).op = "await" => cluster[Arg] = "ready"
          /\ Head(todo).op = "awaitGone" => cluster[Arg] = "absent"
        BY <1>1 DEF Pass, Connect, ReturnInfo, PollDone, Observed, Gone, At, process
    <2>2. Lessens
        BY <2>1 DEF Lessens, Advance
    <2>3. Homed'
        BY <2>2, LessensKeeps
    <2>4. CASE phase = "before"
        <3>1. Head(todo) = [op |-> "await", arg |-> Operator[kind]] =>
                  cluster'[Operator[kind]] = "ready"
            BY <2>1 DEF Arg
        <3> QED BY <2>1, <2>3, <2>4, <3>1, SeriesBefore
    <2>5. CASE phase = "after"
        <3>1. Head(todo) = [op |-> "awaitGone", arg |-> "wideOperator"] =>
                  cluster'["wideOperator"] \notin Live
            BY <2>1 DEF Arg, Live
        <3> QED BY <2>1, <2>2, <2>5, <3>1, SeriesAfter
    <2> QED BY <1>0, <2>1, <2>4, <2>5
<1>2. CASE CreateObject
    <2>1. /\ todo # <<>> /\ Advance /\ Head(todo).op \in {"create", "apply"} /\ Accepting(Arg)
          /\ cluster' = [cluster EXCEPT ![Arg] = IF @ = "absent" THEN Born(Arg) ELSE @]
          /\ origin' = [origin EXCEPT ![Arg] = run]
        BY <1>2 DEF CreateObject, At
    <2>2. phase = "before" /\ Arg \in (Own[kind] \ DOMAIN Maker) \cup Selenium
        BY <1>0, <2>1 DEF AfterSteps, AfterOps, MakeSteps, Arg
    <2>3. \A p \in Objects :
              /\ cluster'[p] = IF p = Arg /\ cluster[p] = "absent" THEN Born(p) ELSE cluster[p]
              /\ origin'[p] = IF p = Arg THEN run ELSE origin[p]
        BY <1>0, <2>1
    <2>4. \A p : Born(p) \in Live
        BY DEF Born, Live
    <2>5. Homed'
        BY <1>0, <2>1, <2>3, HomedStep, ObjectNames
    <2>6. ASSUME NEW o \in Tracked
          PROVE  /\ cluster[o] \in Live => cluster'[o] \in Live
                 /\ cluster[o] = "ready" => cluster'[o] = "ready"
                 /\ cluster'[o] \in Live =>
                        \/ cluster[o] \in Live /\ origin'[o] \in {origin[o], run}
                        \/ o \in Own[kind] \ DOMAIN Maker /\ origin'[o] = run /\ Accepting(o)
        <3>1. o \in Objects /\ o \notin Selenium
            BY TrackedObjects
        <3>2. CASE o = Arg /\ cluster[o] = "absent"
            BY <2>1, <2>2, <2>3, <3>1, <3>2 DEF Live
        <3>3. CASE ~(o = Arg /\ cluster[o] = "absent")
            BY <2>3, <3>1, <3>3
        <3> QED BY <3>2, <3>3
    <2>7. Head(todo) # [op |-> "await", arg |-> Operator[kind]]
        BY <2>1
    <2> QED BY <2>1, <2>2, <2>5, <2>6, <2>7, SeriesBefore
<1>3. CASE AdoptCatalog
    <2>1. /\ todo # <<>> /\ Advance /\ Head(todo).op = "adopt"
          /\ \/ UNCHANGED <<cluster, origin>>
             \/ /\ cluster["catalog"] = "absent"
                /\ cluster' = [cluster EXCEPT !["catalog"] = "pending"]
                /\ origin' = [origin EXCEPT !["catalog"] = run]
        BY <1>3 DEF AdoptCatalog, At
    <2>2. phase = "before" /\ kind # "bundle"
        BY <1>0, <2>1 DEF AfterSteps, AfterOps, MakeSteps
    <2>3. "catalog" \in Own[kind] \ DOMAIN Maker /\ Accepting("catalog")
        BY <1>0, <2>2, OwnObjects DEF Maker, Accepting, Home
    <2>4. \A p \in Objects :
              \/ cluster'[p] = cluster[p] /\ origin'[p] = origin[p]
              \/ p = "catalog" /\ cluster[p] = "absent" /\ cluster'[p] = "pending" /\ origin'[p] = run
        BY <1>0, <2>1
    <2>5. Homed'
        BY <1>0, <2>3, <2>4, HomedStep, ObjectNames
    <2>6. ASSUME NEW o \in Tracked
          PROVE  /\ cluster[o] \in Live => cluster'[o] \in Live
                 /\ cluster[o] = "ready" => cluster'[o] = "ready"
                 /\ cluster'[o] \in Live =>
                        \/ cluster[o] \in Live /\ origin'[o] \in {origin[o], run}
                        \/ o \in Own[kind] \ DOMAIN Maker /\ origin'[o] = run /\ Accepting(o)
        <3>1. o \in Objects
            BY TrackedObjects
        <3> QED BY <2>3, <2>4, <3>1 DEF Live
    <2>7. Head(todo) # [op |-> "await", arg |-> Operator[kind]]
        BY <2>1
    <2> QED BY <2>1, <2>2, <2>5, <2>6, <2>7, SeriesBefore
<1>4. CASE RestartPods
    <2>1. /\ todo # <<>> /\ Advance /\ Head(todo).op = "restart" /\ origin' = origin
          /\ cluster' \in {cluster, [cluster EXCEPT ![Arg] = IF @ = "ready" THEN "pending" ELSE @]}
        BY <1>4 DEF RestartPods, At
    <2>2. /\ phase = "before" /\ Arg \in {"catalog", "bundleOperator"}
          /\ Arg = "bundleOperator" => kind = "bundle"
        BY <1>0, <2>1 DEF AfterSteps, AfterOps, MakeSteps, Arg
    <2>2a. kind = "bundle" => Due("await", "bundleOperator")'
        <3>1. todo' = Tail(todo) BY <2>1 DEF Advance
        <3>2. kind = "bundle" => AwaitLast(todo) BY <2>2 DEF Series, MakesOwn
        <3>3. todo \in Seq(Steps) BY DEF IInv, TypeOK
        <3> QED BY <2>1, <3>1, <3>2, <3>3, AwaitLastTail DEF Due
    <2>3. \A p \in Objects :
              \/ cluster'[p] = cluster[p]
              \/ p = Arg /\ cluster[p] = "ready" /\ cluster'[p] = "pending"
        BY <1>0, <2>1, <2>2
    <2>4. Homed'
        BY <1>0, <2>3, HomedStep, ObjectNames
    <2>5. ASSUME NEW o \in Tracked
          PROVE  /\ cluster[o] \in Live => cluster'[o] \in Live
                 /\ o # "catalog" /\ cluster[o] = "ready" =>
                        cluster'[o] = "ready" \/ (o = Operator[kind] /\ Due("await", o)')
                 /\ cluster'[o] \in Live => cluster[o] \in Live /\ origin'[o] \in {origin[o], run}
        <3>1. o \in Objects
            BY TrackedObjects
        <3>2. kind = "bundle" => Operator[kind] = "bundleOperator" BY DEF Operator
        <3> QED BY <2>1, <2>2, <2>2a, <2>3, <3>1, <3>2 DEF Live
    <2>6. Head(todo) # [op |-> "await", arg |-> Operator[kind]]
        BY <2>1
    <2> QED BY <2>1, <2>2, <2>4, <2>5, <2>6, SeriesBefore
<1>5. CASE DeleteObject
    <2>1. /\ todo # <<>> /\ Advance /\ cluster' = Deleted({Arg}) /\ origin' = origin
          /\ Head(todo).op \in {"delete", "deleteQuietly", "deleteIfFound", "deleteCsv"}
        BY <1>5 DEF DeleteObject, At
    <2>2. phase = "after" /\ Head(todo) \in AfterSteps
        BY <1>0, <2>1 DEF BeforeSteps, BeforeOps
    <2>3. \A p \in Objects :
              cluster'[p] = IF p = Arg /\ cluster[p] # "absent" THEN "terminating" ELSE cluster[p]
        BY <2>1 DEF Deleted
    <2>4. Lessens
        BY <2>1, <2>3 DEF Lessens, Advance, Live
    <2>5. Head(todo).op # "deleteCsv" => Arg # "wideCsv"
        BY <2>1, <2>2 DEF AfterSteps, Arg
    <2>6. Head(todo).op # "deleteCsv" /\ cluster["wideCsv"] \in Live => cluster'["wideCsv"] \in Live
        BY <2>3, <2>5, ObjectNames
    <2>7. Head(todo).op = "deleteCsv" => cluster'[Arg] \notin Live
        BY <2>2, <2>3 DEF AfterSteps, Arg, Live
    <2>8. Head(todo) # [op |-> "awaitGone", arg |-> "wideOperator"]
        BY <2>1
    <2> QED BY <2>1, <2>2, <2>4, <2>6, <2>7, <2>8, SeriesAfter
<1>6. CASE NoCsv
    BY <1>6, SeriesNoCsv
<1>7. CASE DeleteFile
    <2>1. /\ todo # <<>> /\ Head(todo).op = "deleteFile" /\ cluster' = Deleted(InFile)
          /\ origin' = origin
          /\ Advance \/ Panic
        BY <1>7 DEF DeleteFile, At
    <2>2. phase = "after"
        BY <1>0, <2>1 DEF BeforeSteps, BeforeOps
    <2>3. \A p \in Objects :
              cluster'[p] = IF p \in InFile /\ cluster[p] # "absent" THEN "terminating" ELSE cluster[p]
        BY <2>1 DEF Deleted
    <2>4. Lessens
        BY <2>1, <2>3 DEF Lessens, Advance, Panic, Live
    <2>5. cluster["wideCsv"] \in Live => cluster'["wideCsv"] \in Live
        BY <2>3, ObjectNames DEF InFile
    <2>6. CASE Panic
        BY <2>1, <2>4, <2>6, SeriesPanic
    <2>7. CASE Advance
        BY <2>1, <2>2, <2>4, <2>5, <2>7, SeriesAfter
    <2> QED BY <2>1, <2>6, <2>7
<1>8. CASE Deadline \/ Refused \/ Misfortune
    <2>1. todo # <<>> /\ Panic /\ UNCHANGED <<cluster, origin>>
        BY <1>8 DEF Deadline, Refused, Refusal, Misfortune, At
    <2>2. Lessens
        BY <2>1 DEF Lessens, Panic
    <2> QED BY <2>1, <2>2, SeriesPanic
<1> QED BY <1>1, <1>2, <1>3, <1>4, <1>5, <1>6, <1>7, <1>8 DEF CallStep

LEMMA SeriesCluster == ASSUME IInv, Series, ClusterStep PROVE Series'
<1> USE DEF IInv, Series
<1>1. PICK o \in Objects :
          ControllerCreates(o) \/ BecomesReady(o) \/ Collected(o) \/ Vanishes(o)
    BY DEF ClusterStep
<1>2. /\ UNCHANGED <<kind, config, phase, todo, failed, report>> /\ run' = run /\ kind \in Kind
      /\ cluster \in [Objects -> Status] /\ origin \in [Objects -> 0 .. Runs]
    BY <1>1, ClusterChange, Constants DEF run, TypeOK
<1>3. MakesOwn'
    BY <1>2 DEF MakesOwn
<1>4. CASE ControllerCreates(o)
    <2>1. /\ o \in DOMAIN Maker /\ cluster[o] = "absent" /\ cluster[Maker[o]] \in Live
          /\ Accepting(o)
          /\ o \in {"csv", "wideCsv", "manifest"} => Serving
          /\ \A p \in Objects : /\ cluster'[p] = IF p = o THEN Born(o) ELSE cluster[p]
                                /\ origin'[p] = IF p = o THEN Source(o) ELSE origin[p]
          /\ Born(o) \in Live
        BY <1>2, <1>4 DEF ControllerCreates, Born, Live
    <2>2. Homed'
        <3>1. \A p \in Objects : cluster'[p] # "absent" => cluster[p] # "absent" \/ Accepting(p)
            BY <2>1
        <3>2. \A p \in {"namespace", "seleniumNamespace"} :
                  cluster[p] # "absent" => cluster'[p] # "absent"
            BY <2>1, ObjectNames
        <3> QED BY <3>1, <3>2, HomedStep
    <2> SUFFICES ASSUME Green
                 PROVE  (OfThisRun /\ Attached /\ OperatorComes /\ OperatorGoes /\ NothingStays)'
        BY <1>2, <1>3, <2>2 DEF Green
    <2>3. OfThisRun /\ Attached /\ OperatorComes /\ OperatorGoes /\ NothingStays
        OBVIOUS
    <2>4. ASSUME o \in Tracked
          PROVE  /\ o \in Own[kind] /\ Source(o) = run
                 /\ Maker[o] \in Tracked
        <3>1. Maker[o] \in Tracked
            BY <2>1, <2>4, TrackedObjects
        <3>2. Maker[o] \in Own[kind] /\ origin[Maker[o]] = run
            BY <2>1, <2>3, <3>1 DEF OfThisRun
        <3>3. o \in Own[kind]
            BY <1>2, <2>1, <2>4, <3>2, OwnObjects
        <3>4. o \in {"csv", "wideCsv"} /\ config.ownCatalog => origin["catalog"] = run
            BY <2>1, <2>3 DEF Serving, OfThisRun, Tracked, Live
        <3> QED BY <3>1, <3>2, <3>3, <3>4 DEF Source
    <2>5. OfThisRun'
        <3>1. ASSUME NEW p \in Tracked, cluster'[p] \in Live
              PROVE  \/ cluster[p] \in Live /\ origin'[p] \in {origin[p], run}
                     \/ p \in Own[kind] /\ origin'[p] = run
            BY <2>1, <2>4, <3>1, TrackedObjects
        <3> QED BY <1>2, <2>3, <3>1, OfThisRunStep
    <2>6. \A p \in Objects : cluster[p] \in Live => cluster'[p] = cluster[p]
        BY <2>1 DEF Live
    <2>7. Attached'
        <3> SUFFICES ASSUME phase \in {"before", "specs"}, NEW p \in Tracked, cluster'[p] \in Live
                     PROVE  Stays(p)'
            BY <1>2 DEF Attached
        <3>1. p \in Objects
            BY TrackedObjects
        <3>2. CASE cluster[p] \in Live
            <4>1. Stays(p)
                BY <2>3, <3>2 DEF Attached
            <4> QED BY <2>6, <3>1, <3>2, <4>1, TrackedObjects DEF Stays, Accepting
        <3>3. CASE p = o
            <4>1. p \in DOMAIN Owner => Owner[p] = Maker[p] /\ Owner[p] \in Objects
                BY TrackedObjects
            <4>2. p \in DOMAIN Home => cluster'[Home[p]] \in Live
                <5>1. p \in DOMAIN Home => cluster[Home[p]] \in Live /\ Home[p] \in Objects
                    BY <2>1, <3>3, TrackedObjects, ObjectNames DEF Accepting
                <5> QED BY <2>6, <5>1
            <4> QED BY <2>1, <2>6, <3>3, <4>1, <4>2 DEF Stays, Accepting
        <3> QED BY <2>1, <3>1, <3>2, <3>3
    <2>8. OperatorComes'
        <3>1. Operator[kind] \in Objects
            BY <1>2, OwnObjects, TrackedObjects
        <3> QED BY <1>2, <2>3, <2>6, <3>1 DEF OperatorComes, Due, Live
    <2>9. OperatorGoes'
        <3>1. o # "wideSubscription" /\ Maker["wideCsv"] = "wideSubscription"
              /\ Maker["wideOperator"] = "wideCsv"
            BY <2>1 DEF Maker
        <3> QED BY <1>2, <2>1, <2>3, <2>6, <3>1, ObjectNames DEF OperatorGoes, Due, CsvLast
    <2>10. NothingStays'
        <3>1. phase = "idle" => o \notin Tracked
            BY <2>1, <2>3, <2>4 DEF NothingStays
        <3> QED BY <1>2, <2>1, <2>3, <3>1, TrackedObjects DEF NothingStays
    <2> QED BY <2>5, <2>7, <2>8, <2>9, <2>10
<1>5. ASSUME NEW from, NEW to, Changes(o, from, to), from \in Live \/ to = "absent",
             to = "absent" => from = "terminating" /\ \A p \in DOMAIN Home : Home[p] = o => cluster[p] = "absent",
             to \notin Live =>
                 \/ to = "absent"
                 \/ o \in DOMAIN Owner /\ cluster[Owner[o]] = "absent"
                 \/ o \in DOMAIN Home /\ ~Accepting(o),
             from = "ready" => to # "pending"
      PROVE  Series'
    <2>1. /\ cluster[o] = from
          /\ \A p \in Objects : /\ cluster'[p] = IF p = o THEN to ELSE cluster[p]
                                /\ p # o \/ to # "absent" => origin'[p] = origin[p]
        BY <1>2, <1>5 DEF Changes
    <2>2. Homed'
        <3> SUFFICES ASSUME NEW p \in DOMAIN Home, cluster'[p] # "absent"
                     PROVE  cluster'[Home[p]] # "absent"
            BY DEF Homed
        <3>1. p \in Objects /\ Home[p] \in Objects
            BY TrackedObjects, ObjectNames
        <3>2. cluster[p] # "absent"
            BY <1>5, <2>1, <3>1 DEF Live
        <3> QED BY <1>5, <2>1, <3>1, <3>2 DEF Homed
    <2> SUFFICES ASSUME Green
                 PROVE  (OfThisRun /\ Attached /\ OperatorComes /\ OperatorGoes /\ NothingStays)'
        BY <1>2, <1>3, <2>2 DEF Green
    <2>3. OfThisRun /\ Attached /\ OperatorComes /\ OperatorGoes /\ NothingStays
        OBVIOUS
    <2>4. \A p \in Objects : cluster'[p] \in Live => cluster[p] \in Live /\ origin'[p] = origin[p]
        BY <1>5, <2>1 DEF Live
    <2>5. OfThisRun'
        BY <1>2, <2>3, <2>4, TrackedObjects, OfThisRunStep
    <2>6. ASSUME phase \in {"before", "specs"}, NEW p \in Tracked, cluster[p] \in Live
          PROVE  cluster'[p] \in Live /\ (cluster[p] = "ready" => cluster'[p] = "ready")
        <3>1. Stays(p) /\ p \in Objects
            BY <2>3, <2>6, TrackedObjects DEF Attached
        <3>2. ASSUME p = o PROVE to \in Live
            <4>1. cluster[o] = from /\ from # "terminating" /\ Stays(o)
                BY <2>1, <2>6, <3>1, <3>2 DEF Live
            <4>2. /\ o \in DOMAIN Owner => cluster[Owner[o]] # "absent"
                  /\ Accepting(o)
                BY <4>1 DEF Stays, Live
            <4> QED BY <1>5, <4>1, <4>2
        <3> QED BY <1>5, <2>1, <2>6, <3>1, <3>2 DEF Live
    <2>7. Attached'
        <3> SUFFICES ASSUME phase \in {"before", "specs"}, NEW p \in Tracked, cluster'[p] \in Live
                     PROVE  Stays(p)'
            BY <1>2 DEF Attached
        <3>1. Stays(p)
            BY <2>3, <2>4, TrackedObjects DEF Attached
        <3>2. p \in DOMAIN Owner => cluster'[Owner[p]] \in Live
            BY <2>6, <3>1, TrackedObjects DEF Stays
        <3>3. p \in DOMAIN Home => cluster'[Home[p]] \in Live
            BY <2>6, <3>1, TrackedObjects DEF Stays, Accepting
        <3> QED BY <3>2, <3>3 DEF Stays, Accepting
    <2>8. OperatorComes'
        <3>1. Operator[kind] \in Tracked
            BY <1>2, OwnObjects
        <3> QED BY <1>2, <2>3, <2>6, <3>1 DEF OperatorComes, Due, Live
    <2>9. OperatorGoes'
        <3>1. "wideCsv" \notin DOMAIN Owner /\ "wideCsv" \notin DOMAIN Home
            BY DEF Owner, Home
        <3>2. cluster["wideCsv"] \in Live => cluster'["wideCsv"] \in Live
            BY <1>5, <2>1, <3>1, ObjectNames DEF Live
        <3> QED BY <1>2, <2>3, <2>4, <3>2, ObjectNames DEF OperatorGoes, Due, CsvLast
    <2>10. NothingStays'
        BY <1>2, <2>3, <2>4, TrackedObjects DEF NothingStays
    <2> QED BY <2>5, <2>7, <2>8, <2>9, <2>10
<1>6. CASE BecomesReady(o)
    BY <1>5, <1>6 DEF BecomesReady, Live
<1>7. CASE Collected(o)
    BY <1>5, <1>7 DEF Collected, Live
<1>8. CASE Vanishes(o)
    BY <1>5, <1>8 DEF Vanishes
<1> QED BY <1>1, <1>4, <1>6, <1>7, <1>8

LEMMA SeriesInvariance == Spec => []Series
<1>1. Init => Series
    <2> SUFFICES ASSUME Init PROVE Series
        OBVIOUS
    <2>1. phase = "idle" /\ \A o \in Objects : cluster[o] = "absent"
        BY DEF Init
    <2>2. Homed
        BY <2>1, TrackedObjects DEF Homed
    <2>3. \A o \in Tracked : cluster[o] \notin Live
        BY <2>1, TrackedObjects DEF Live
    <2> QED BY <2>1, <2>2, <2>3
        DEF Series, MakesOwn, OfThisRun, Attached, OperatorComes, OperatorGoes, NothingStays
<1>2. IInv /\ IInv' /\ Series /\ [Next]_vars => Series'
    <2> SUFFICES ASSUME IInv, IInv', Series, [Next]_vars PROVE Series'
        OBVIOUS
    <2>1. CASE Terminated \/ UNCHANGED vars
        BY <2>1 DEF Terminated, vars, process, Series, Homed, MakesOwn, Green, OfThisRun, Attached,
           OperatorComes, OperatorGoes, NothingStays, Stays, Accepting, Due, CsvLast, run
    <2> QED BY <2>1, SeriesRun, SeriesCall, SeriesCluster DEF Next
<1> QED BY <1>1, <1>2, Invariance, PTL DEF Spec

\* While every suite so far was green, in any order and number of them, the specs run
\* against an operator that is ready and that comes from the catalog or the manifests
\* of their own suite, and not from what an earlier one had left.
THEOREM SpecsMeetTheirOperator == Spec => []SpecsMeetOwnOperator
<1>1. IInv /\ Series => SpecsMeetOwnOperator
    <2> SUFFICES ASSUME IInv, Series, phase = "specs", Green
                 PROVE  cluster[Operator[kind]] = "ready" /\ origin[Operator[kind]] = run
        BY DEF SpecsMeetOwnOperator, Green
    <2>1. kind \in Kind
        BY Constants DEF IInv
    <2>2. Operator[kind] \in Tracked /\ cluster[Operator[kind]] = "ready"
        BY <2>1, OwnObjects DEF Series, OperatorComes
    <2> QED BY <2>2 DEF Series, OfThisRun, Live
<1> QED BY <1>1, Invariance, SeriesInvariance, PTL
=============================================================================
