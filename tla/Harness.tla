------------------------------ MODULE Harness ------------------------------
(***************************************************************************)
(* The life of a spec of the e2e suites: how a Go test function runs, how  *)
(* a failed assertion unwinds it, and what its calls do to the cluster.    *)
(*                                                                         *)
(* The test functions are straight-line Go.  Each one that has deferred    *)
(* calls of its own, or that is called through a function value, is a      *)
(* SCRIPT: a sequence of steps.  Body[s] is the text of script s (module   *)
(* SuiteScripts holds the real ones); this module interprets any.          *)
(*                                                                         *)
(* A failed Expect panics (RegisterFailHandler(Fail), suite.go:168): the   *)
(* frame's remaining steps are dropped, its deferred calls still run, last *)
(* deferred first, and its caller then unwinds the same way, up to ginkgo, *)
(* which records the failure and goes on with the next spec.               *)
(*                                                                         *)
(* The cluster lives on its own: controllers create, start and collect     *)
(* objects between any two steps of the spec.                              *)
(***************************************************************************)
EXTENDS Naturals, Sequences

CONSTANTS
    Objects,    \* what the suite handles: objects of the namespace, a local file
    Scripts,    \* the names of the scripts
    Specs,      \* the scripts that are ginkgo specs
    Suites,     \* the sets of specs that the flags and the profile select
    Body,       \* Body[s]: the steps of script s
    Passive,    \* objects that work as soon as they exist
    None,
    Maker,      \* Maker[o]: the object for which a controller creates o, or None
    Owner,      \* Owner[o]: the object with which o is collected, or None
    Home,       \* Home[o]: the namespace of o, if a spec makes and removes it, or None
    Needs,      \* Needs[o]: the objects o cannot work without
    Flaky       \* the operations that may fail on their own

Status == {"absent", "pending", "ready", "terminating"}
Live == {"pending", "ready"}

\* Operations on an object, on a script, and the bare ones.
ObjectOps == {"create", "apply", "attempt", "await", "delete", "deleteQuietly",
              "deleteIfFound", "deleteRegistry", "awaitGone", "awaitGoneQuietly",
              "finalize", "read", "erase", "returnIfInstalled"}
ScriptOps == {"call", "defer", "register", "registerIfDeployed"}
PlainOps  == {"newContext", "name", "installed", "cleanups", "check",
              "saveLogs", "test"}
Ops == ObjectOps \cup ScriptOps \cup PlainOps

Steps == [op : ObjectOps, arg : Objects] \cup [op : ScriptOps, arg : Scripts]
           \cup [op : PlainOps, arg : {"-"}]

ASSUME HarnessAssumption ==
    /\ Specs \subseteq Scripts
    /\ Suites \subseteq SUBSET Specs
    /\ Body \in [Scripts -> Seq(Steps)]
    /\ Passive \subseteq Objects
    /\ None \notin Objects
    /\ Maker \in [Objects -> Objects \cup {None}]
    /\ Owner \in [Objects -> Objects \cup {None}]
    /\ Home \in [Objects -> Objects \cup {None}]
    /\ Needs \in [Objects -> SUBSET Objects]
    /\ Flaky \subseteq Ops

VARIABLES
    stack,      \* the frames of the running spec, the innermost last
    cleanups,   \* TestContext.cleanupFunctions
    named,      \* TestContext.RegistryName is set
    deployed,   \* KafkaClusterInfo.StrimziDeployed of the last cluster deployed
    cluster,    \* the status of every object
    verdict,    \* what ginkgo knows of every spec
    mishap,     \* history: something failed that was not a test's own assertion
    erred       \* history: a checked call of the running spec has failed

vars == <<stack, cleanups, named, deployed, cluster, verdict, mishap, erred>>
context == <<cleanups, named, deployed>>
history == <<mishap, erred>>

Verdicts == {"skipped", "pending", "running", "passed", "failed"}
Frames == [rest : Seq(Steps), defers : Seq(Scripts), panicking : BOOLEAN]

\* The state is well formed: in particular, all that is registered or deferred is
\* a function of the suites, and all that is left to run is a step of one.
TypeOK ==
    /\ stack \in Seq(Frames)
    /\ cleanups \in Seq(Scripts)
    /\ named \in BOOLEAN
    /\ deployed \in BOOLEAN
    /\ cluster \in [Objects -> Status]
    /\ verdict \in [Specs -> Verdicts]
    /\ mishap \in BOOLEAN
    /\ erred \in BOOLEAN

Init ==
    /\ stack = <<>>
    /\ cleanups = <<>>
    /\ named = FALSE
    /\ deployed = FALSE
    /\ cluster = [o \in Objects |-> "absent"]
    /\ \E suite \in Suites :
           verdict = [s \in Specs |-> IF s \in suite THEN "pending" ELSE "skipped"]
    /\ mishap = FALSE
    /\ erred = FALSE

----------------------------------------------------------------------------
(* Frames: the call stack of the goroutine that runs the spec. *)

Depth == Len(stack)
Top == stack[Depth]
NewFrame(steps) == [rest |-> steps, defers |-> <<>>, panicking |-> FALSE]

At(op) == /\ stack # <<>>
          /\ Top.rest # <<>>
          /\ Head(Top.rest).op = op
Arg == Head(Top.rest).arg

Finished == stack # <<>> /\ Top.rest = <<>> /\ Top.defers = <<>>

\* The stack after the step at hand, and with a callee on top of it.
Advanced == [stack EXCEPT ![Depth].rest = Tail(@)]
Advance == stack' = Advanced
Enter(steps) == stack' = Append(Advanced, NewFrame(steps))

\* A panic drops what is left of the frame; its deferred calls are kept.
Unwound(frames) ==
    [frames EXCEPT ![Len(frames)].rest = <<>>, ![Len(frames)].panicking = TRUE]
Panic == stack' = Unwound(stack) /\ erred' = TRUE

----------------------------------------------------------------------------
(* Ginkgo runs the specs one at a time, in any order. *)

StartSpec(s) ==
    /\ stack = <<>>
    /\ verdict[s] = "pending"
    /\ stack' = <<NewFrame(Body[s])>>
    /\ verdict' = [verdict EXCEPT ![s] = "running"]
    /\ cleanups' = <<>>
    /\ named' = FALSE
    /\ deployed' = FALSE
    /\ erred' = FALSE
    /\ UNCHANGED <<cluster, mishap>>

\* Ginkgo recovers the panic that reaches it.
EndSpec(s) ==
    /\ Finished
    /\ Depth = 1
    /\ verdict[s] = "running"
    /\ stack' = <<>>
    /\ verdict' = [verdict EXCEPT ![s] = IF Top.panicking THEN "failed" ELSE "passed"]
    /\ UNCHANGED <<context, cluster, history>>

\* Mutant: the end of a function forgets the panic it was unwinding.
CallerSwallowingPanic == SubSeq(stack, 1, Depth - 1)

\* The caller goes on, or unwinds if its callee was unwinding.
Caller ==
    LET frames == SubSeq(stack, 1, Depth - 1)
    IN IF Top.panicking THEN Unwound(frames) ELSE frames

Return ==
    /\ Finished
    /\ Depth > 1
    /\ stack' = Caller
    /\ UNCHANGED <<context, cluster, verdict, history>>

\* Returning or unwinding, a function runs its deferred calls first.
RunDeferred ==
    /\ stack # <<>>
    /\ Top.rest = <<>>
    /\ Top.defers # <<>>
    /\ stack' = Append([stack EXCEPT ![Depth].defers = Tail(@)],
                       NewFrame(Body[Head(Top.defers)]))
    /\ UNCHANGED <<context, cluster, verdict, history>>

Call ==
    /\ At("call")
    /\ Enter(Body[Arg])
    /\ UNCHANGED <<context, cluster, verdict, history>>

Defer ==
    /\ At("defer")
    /\ stack' = [Advanced EXCEPT ![Depth].defers = <<Arg>> \o @]
    /\ UNCHANGED <<context, cluster, verdict, history>>

----------------------------------------------------------------------------
(* The TestContext. *)

NewContext ==
    /\ At("newContext")
    /\ Advance
    /\ cleanups' = <<>>
    /\ named' = FALSE
    /\ deployed' = FALSE
    /\ UNCHANGED <<cluster, verdict, history>>

\* ctx.RegistryName = name
Name ==
    /\ At("name")
    /\ Advance
    /\ named' = TRUE
    /\ UNCHANGED <<cleanups, deployed, cluster, verdict, history>>

\* strimziDeployed = true
Installed ==
    /\ At("installed")
    /\ Advance
    /\ deployed' = TRUE
    /\ UNCHANGED <<cleanups, named, cluster, verdict, history>>

\* Mutant: a function variable is registered that nobody has set.
RegisterNil ==
    /\ \/ At("register")
       \/ At("registerIfDeployed") /\ deployed
    /\ Advance
    /\ cleanups' = Append(cleanups, "nil")
    /\ UNCHANGED <<named, deployed, cluster, verdict, history>>

RegisterCleanup ==
    /\ \/ At("register")
       \/ At("registerIfDeployed") /\ deployed
    /\ Advance
    /\ cleanups' = Append(cleanups, Arg)
    /\ UNCHANGED <<named, deployed, cluster, verdict, history>>

SkipRegister ==
    /\ At("registerIfDeployed")
    /\ ~deployed
    /\ Advance
    /\ UNCHANGED <<context, cluster, verdict, history>>

\* Mutant: the cleanups run first to last.
CleanupCallsInOrder ==
    [i \in 1 .. Len(cleanups) |-> [op |-> "call", arg |-> cleanups[i]]]

\* The loop of ExecuteCleanups: last registered, first run; a panic of one
\* ends the loop.
CleanupCalls ==
    [i \in 1 .. Len(cleanups) |->
        [op |-> "call", arg |-> cleanups[Len(cleanups) + 1 - i]]]

ExecuteCleanups ==
    /\ At("cleanups")
    /\ Enter(CleanupCalls)
    /\ UNCHANGED <<context, cluster, verdict, history>>

----------------------------------------------------------------------------
(* Calls to the API server, through the typed clients or kubectl. *)

\* Assertions that pass: of the harness ("check"), on the logs it saves, or of the
\* test itself.
Pass ==
    /\ At("check") \/ At("saveLogs") \/ At("test")
    /\ Advance
    /\ UNCHANGED <<context, cluster, verdict, history>>

Born(o) == IF o \in Passive THEN "ready" ELSE "pending"

\* The API server makes nothing in a namespace that is missing or on its way out.
Accepting(o) == Home[o] # None => cluster[Home[o]] \in Live

CreateObject ==
    /\ \/ At("create") /\ cluster[Arg] = "absent"
       \/ At("apply") \/ At("attempt")
    /\ Accepting(Arg)
    /\ Advance
    /\ cluster' = [cluster EXCEPT ![Arg] = IF @ = "absent" THEN Born(Arg) ELSE @]
    /\ UNCHANGED <<context, verdict, history>>

DeleteObject ==
    /\ \/ At("delete") /\ cluster[Arg] # "absent"
       \/ At("deleteRegistry") /\ cluster[Arg] # "absent" /\ named
       \/ At("deleteIfFound") \/ At("deleteQuietly")
    /\ Advance
    /\ cluster' = [cluster EXCEPT ![Arg] = IF @ = "absent" THEN @ ELSE "terminating"]
    /\ UNCHANGED <<context, verdict, history>>

\* os.Remove of a local file, whose error is ignored.
EraseFile ==
    /\ At("erase")
    /\ Advance
    /\ cluster' = [cluster EXCEPT ![Arg] = "absent"]
    /\ UNCHANGED <<context, verdict, history>>

ReadFile ==
    /\ At("read")
    /\ cluster[Arg] = "ready"
    /\ Advance
    /\ UNCHANGED <<context, cluster, verdict, history>>

\* `return false` at the head of deployStrimziOperator.
ReturnIfInstalled ==
    /\ At("returnIfInstalled")
    /\ IF cluster[Arg] = "absent" THEN Advance ELSE stack' = [stack EXCEPT ![Depth].rest = <<>>]
    /\ deployed' = FALSE
    /\ UNCHANGED <<cleanups, named, cluster, verdict, history>>

\* A poll whose condition has come true.  "finalize" is kubectl delete, which
\* returns when the object is gone.
Observed ==
    \/ At("await") /\ cluster[Arg] = "ready"
    \/ /\ At("awaitGone") \/ At("awaitGoneQuietly") \/ At("finalize")
       /\ cluster[Arg] = "absent"

PollDone ==
    /\ Observed
    /\ Advance
    /\ UNCHANGED <<context, cluster, verdict, history>>

\* wait.Poll gives up at its timeout and the assertion on its error fails.
Deadline ==
    /\ At("await") \/ At("awaitGone")
    /\ Head(Top.rest).op \in Flaky
    /\ ~Observed
    /\ Panic
    /\ mishap' = TRUE
    /\ UNCHANGED <<context, cluster, verdict>>

\* The one wait whose error nobody checks (registry.go:197).
GiveUpQuietly ==
    /\ At("awaitGoneQuietly")
    /\ cluster[Arg] # "absent"
    /\ Advance
    /\ UNCHANGED <<context, cluster, verdict, history>>

\* What the state of the cluster makes fail: AlreadyExists, NotFound, no such
\* file.  An object on its way out may vanish between a Get and the Delete.
Refusal ==
    \/ At("create") /\ cluster[Arg] # "absent"
    \/ (At("create") \/ At("apply")) /\ ~Accepting(Arg)
    \/ At("delete") /\ cluster[Arg] = "absent"
    \/ At("deleteRegistry") /\ (cluster[Arg] \notin Live \/ ~named)
    \/ At("deleteIfFound") /\ cluster[Arg] = "terminating"
    \/ At("read") /\ cluster[Arg] # "ready"

Refused ==
    /\ Refusal
    /\ Panic
    /\ UNCHANGED <<context, cluster, verdict, mishap>>

\* A call that fails without effect: an API error, a command that exits
\* non-zero, a failed assertion.
Misfortune ==
    /\ \E op \in Flaky \ {"attempt"} : At(op)
    /\ Panic
    /\ mishap' = (mishap \/ ~At("test"))
    /\ UNCHANGED <<context, cluster, verdict>>

\* A command whose failure does not reach the exit code of its script.
SilentFailure ==
    /\ At("attempt")
    /\ "attempt" \in Flaky \/ ~Accepting(Arg)
    /\ Advance
    /\ mishap' = TRUE
    /\ UNCHANGED <<context, cluster, verdict, erred>>

----------------------------------------------------------------------------
(* The cluster. *)

\* Controllers: a registry's Deployment, a Kafka cluster's pods.
ControllerCreates(o) ==
    /\ Maker[o] # None
    /\ cluster[o] = "absent"
    /\ cluster[Maker[o]] \in Live
    /\ Accepting(o)
    /\ cluster' = [cluster EXCEPT ![o] = "pending"]
    /\ UNCHANGED <<stack, context, verdict, history>>

BecomesReady(o) ==
    /\ cluster[o] = "pending"
    /\ \A p \in Needs[o] : cluster[p] = "ready"
    /\ cluster' = [cluster EXCEPT ![o] = "ready"]
    /\ UNCHANGED <<stack, context, verdict, history>>

\* An object goes with its owner, or when its namespace does.
Collected(o) ==
    /\ \/ Owner[o] # None /\ cluster[Owner[o]] = "absent"
       \/ ~Accepting(o)
    /\ cluster[o] \in Live
    /\ cluster' = [cluster EXCEPT ![o] = "terminating"]
    /\ UNCHANGED <<stack, context, verdict, history>>

\* A namespace goes last.
Vanishes(o) ==
    /\ cluster[o] = "terminating"
    /\ \A p \in Objects : Home[p] = o => cluster[p] = "absent"
    /\ cluster' = [cluster EXCEPT ![o] = "absent"]
    /\ UNCHANGED <<stack, context, verdict, history>>

----------------------------------------------------------------------------

Ginkgo == \E s \in Specs : StartSpec(s) \/ EndSpec(s)

GoStep == Return \/ RunDeferred \/ Call \/ Defer

ContextStep == \/ NewContext \/ Name \/ Installed \/ RegisterCleanup \/ SkipRegister
               \/ ExecuteCleanups

ApiStep == \/ Pass \/ CreateObject \/ DeleteObject \/ EraseFile \/ ReadFile
           \/ ReturnIfInstalled \/ PollDone \/ Deadline \/ GiveUpQuietly
           \/ Refused \/ Misfortune \/ SilentFailure

HarnessStep == Ginkgo \/ GoStep \/ ContextStep \/ ApiStep

ClusterStep == \E o \in Objects : \/ ControllerCreates(o) \/ BecomesReady(o)
                                  \/ Collected(o) \/ Vanishes(o)

AllDone == stack = <<>> /\ \A s \in Specs : verdict[s] \notin {"pending", "running"}

\* Ginkgo has run every spec: nothing is left to do.
Terminated == AllDone /\ UNCHANGED vars

Next == HarnessStep \/ ClusterStep \/ Terminated

Spec == Init /\ [][Next]_vars

\* What the goroutine does of itself.  A wait that reaches its deadline counts, a
\* call that fails does not: nothing makes it fail.
Progress ==
    Ginkgo \/ GoStep \/ ContextStep
      \/ Pass \/ CreateObject \/ DeleteObject \/ EraseFile \/ ReadFile
      \/ ReturnIfInstalled \/ PollDone \/ Deadline \/ GiveUpQuietly \/ Refused

\* A deletion ends as long as what the object works with is at work: a Kafka
\* resource is only sure to go while its operator runs.
Finalised(o) == Vanishes(o) /\ \A p \in Needs[o] : cluster[p] = "ready"

\* The goroutine is scheduled, and so are the deletions that nothing holds up
\* (`kubectl delete` waits for them without a timeout).
FairSpec == /\ Spec
            /\ WF_vars(Progress)
            /\ \A o \in Objects : WF_vars(Finalised(o))

=============================================================================
