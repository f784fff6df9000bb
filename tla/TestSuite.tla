----------------------------- MODULE TestSuite -----------------------------
(***************************************************************************)
(* The suites on their cluster: module Harness running the scripts of      *)
(* module SuiteScripts, and what the suites must get right.                *)
(***************************************************************************)
EXTENDS Harness

CONSTANTS
    Registries, \* the ApicurioRegistry resources
    Unawaited,  \* objects that no cleanup waits for, or that are no cluster objects
    Rewritten   \* objects that `apply` makes anew

\* Every spec provisions what it uses and deprovisions it: between two specs
\* nothing is left that works, unless an operation of the harness has failed.
\* Failed assertions of the tests are no excuse.
Clean == \A o \in Objects \ Unawaited : cluster[o] \notin Live

CleanSlate == stack = <<>> /\ ~mishap => Clean

\* A report without failures means that nothing is left behind, whatever
\* happened in between: no leak goes unreported.
GreenSuiteIsClean ==
    stack = <<>> /\ (\A s \in Specs : verdict[s] # "failed") => Clean

\* An object of an earlier spec stands where the step at hand makes one: a
\* Kafka cluster that `kubectl apply` takes over, a secret that stays as it was.
Inherited ==
    /\ At("apply") \/ At("attempt")
    /\ Arg \notin Rewritten
    /\ cluster[Arg] # "absent"

\* No spec fails, or runs on another's remains, because of what the specs
\* before it left behind, as long as no operation of the harness fails.
NothingInTheWay == ~mishap => ~Refusal /\ ~Inherited

\* The step at hand takes its object away.
Removing ==
    /\ At("delete") \/ At("deleteQuietly") \/ At("deleteIfFound") \/ At("deleteRegistry")
    /\ cluster[Arg] \in Live

\* p cannot work without o.
DependsOn(p, o) == o \in Needs[p] \/ \E q \in Needs[p] : Owner[q] = o

\* The harness never takes away what something it made still works with: in the
\* middle of a spec, or in the cleanups of one that failed anywhere.
DependentsGoFirst ==
    ~mishap /\ Removing =>
        \A p \in Objects : Maker[p] = None /\ DependsOn(p, Arg) => cluster[p] \notin Live

\* A registry never loses its storage to the harness, not even when waits
\* time out and cleanups fail on the way.
StorageOutlivesRegistry ==
    Removing => \A r \in Registries : DependsOn(r, Arg) => cluster[r] \notin Live

\* What the suites promise to the reader of their report (module SuiteContract).
Contract == INSTANCE SuiteContract
               WITH Specs <- Specs, verdict <- verdict, erred <- erred
ImplementsContract == Contract!Spec

\* Every spec gets a verdict: no wait is endless, no panic stops the suite.
EverySpecEnds == <>AllDone

\* README.md:32: deprovisioning is done for each testcase.
EverySpecDeprovisions == stack = <<>> => Clean
=============================================================================
