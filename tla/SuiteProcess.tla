---------------------------- MODULE SuiteProcess ----------------------------
(***************************************************************************)
(* One process of a suite, with the goroutines beside the one that ginkgo  *)
(* runs everything in: the manager of InitSuite, alive as long as the      *)
(* process, and the reader of the converters spec.  The goroutine of       *)
(* ginkgo goes through InitSuite, the set-up of a namespace (SetPullSecret)*)
(* and the end of the converters spec; the first failure ends it.          *)
(***************************************************************************)
EXTENDS Naturals

CONSTANTS Others, Own, Changes, Produced, Minimum

ASSUME ProcessAssumption ==
    /\ Own \notin Others
    /\ Changes \in Nat /\ Produced \in Nat /\ Minimum \in Nat

VARIABLES
    main, manager, err, detected, cache, process, read, wrong,  \* SuiteInit
    binding, account, version, secrets, copy, granted,          \* PullSecret
    test, inserted, reader, records, result                     \* KafkaRecords

Setup == INSTANCE SuiteInit
Account == INSTANCE PullSecret
Converters == INSTANCE KafkaRecords

initVars == <<main, manager, err, detected, cache, process, read, wrong>>
bindVars == <<binding, account, version, secrets, copy, granted>>
recordVars == <<test, inserted, reader, records, result>>
vars == <<initVars, bindVars, recordVars>>

\* The state of each part is well formed.
TypeOK == Setup!TypeOK /\ Account!TypeOK /\ Converters!TypeOK

Init == Setup!Init /\ Account!Init /\ Converters!Init

Running == process = "running"

----------------------------------------------------------------------------
(* The goroutine of ginkgo. *)

InitSuite == Setup!InitSuite /\ UNCHANGED <<bindVars, recordVars>>

\* CreateNamespace, in BeforeSuite or in a spec.
CreateNamespace ==
    /\ main = "ready"
    /\ Account!SetPullSecret \/ Account!GiveUp
    /\ UNCHANGED <<initVars, recordVars>>

\* What a spec first reads through K8sClient, as WaitForRegistryReady its CR: what
\* it has created until then has gone past the cache.
SpecReads ==
    /\ binding = "bound"
    /\ test = "idle"
    /\ ~read
    /\ \/ (Setup!ReadCache \/ Setup!ReadBlocks) /\ UNCHANGED recordVars
       \/ /\ Setup!ReadRefused
          /\ test' = "failed"
          /\ UNCHANGED <<inserted, reader, records, result>>
    /\ UNCHANGED bindVars

ConvertersTestCase == read /\ Converters!Test /\ UNCHANGED <<initVars, bindVars>>

Ended == main = "failed" \/ binding = "failed" \/ test \in {"passed", "failed"}

\* AfterSuite; the process does not wait for its goroutines.
Exit ==
    /\ Ended
    /\ process' = "exited"
    /\ UNCHANGED <<main, manager, err, detected, cache, read, wrong, bindVars, recordVars>>

GinkgoStep == InitSuite \/ CreateNamespace \/ SpecReads \/ ConvertersTestCase \/ Exit

----------------------------------------------------------------------------

ManagerStep == Setup!Manager /\ UNCHANGED <<bindVars, recordVars>>
ReaderStep == Converters!Reader /\ UNCHANGED <<initVars, bindVars>>
ClusterStep == Account!Controllers /\ UNCHANGED <<initVars, recordVars>>

Terminated == ~Running /\ UNCHANGED vars

Next == \/ Running /\ (GinkgoStep \/ ManagerStep \/ ReaderStep \/ ClusterStep)
        \/ Terminated

Spec == Init /\ [][Next]_vars

\* The goroutine of ginkgo and the reader are scheduled; their waits expire.
FairSpec == /\ Spec
            /\ WF_vars(Running /\ GinkgoStep)
            /\ WF_vars(Running /\ ReaderStep)

----------------------------------------------------------------------------

\* A suite is green only if InitSuite and the start of the manager were free of
\* errors, whichever goroutine has seen or overwritten which (suite.go:117, :127).
StartFailureIsReported == process = "exited" /\ test = "passed" => ~wrong

\* No pull secret is lost (see PullSecret).
NoSecretLost == Account!NoSecretLost

\* No record is looked at that is not there (see KafkaRecords).
RecordsAreThere == Converters!RecordsAreThere

\* The process ends: the test that waits on the channel is always answered, and a
\* goroutine that nobody waits for does not hold anything up.
ProcessEnds == <>~Running
=============================================================================
