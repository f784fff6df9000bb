------------------------ MODULE SuiteProcess_proofs -------------------------
(***************************************************************************)
(* Theorems about SuiteProcess, for any number of rows and of expected     *)
(* records, and whatever controllers do to the service account.  Each part *)
(* has its own invariant; only StartFailureIsReported needs the parts      *)
(* together: a spec that has come as far as the test has read through a    *)
(* cache that runs, after an InitSuite that went through.                  *)
(***************************************************************************)
EXTENDS SuiteProcess, TLAPS

\* Between Get and Update the copy has what the account had, and its own secret.
CopyIsCurrent ==
    binding = "changed" =>
        /\ copy.version <= version
        /\ copy.version = version => copy.secrets = secrets \cup {Own}

\* What the reader sends is decided when it stops polling.
ResultIsTrue ==
    /\ test = "idle" => reader = "none"
    /\ result # "none" <=> reader \in {"sending", "received", "closed"}
    /\ result = "records" => records >= 1 /\ records >= Minimum
    /\ test \in {"inspect", "passed"} => result = "records"

\* An error leads InitSuite to fail, or leaves the cache without a manager.
WrongShows ==
    /\ main \in {"environment", "scheme", "manager", "spawn"} => manager = "none"
    /\ wrong => \/ main = "failed"
                \/ main = "expect" /\ detected = "error" /\ err = "error"
                \/ manager \in {"returned", "done"} /\ cache # "on"

\* The test is under way only after a read through a cache that was on.
ReadFirst ==
    /\ test \in {"insert", "receive", "inspect", "passed"} => read
    /\ read => main = "ready" /\ ~wrong
    /\ binding # "waiting" => main = "ready"

IInv ==
    TypeOK /\ CopyIsCurrent /\ NoSecretLost /\ ResultIsTrue /\ WrongShows /\ ReadFirst

USE DEF vars, initVars, bindVars, recordVars, Setup!initVars, Account!bindVars,
        Converters!recordVars

LEMMA InitInvariant == Init => IInv
<1> SUFFICES ASSUME Init PROVE IInv
    OBVIOUS
<1>1. Setup!TypeOK /\ WrongShows
    BY DEF Init, Setup!Init, Setup!TypeOK, Setup!Errors, WrongShows
<1>2. Account!TypeOK
    BY ProcessAssumption DEF Init, Account!Init, Account!TypeOK, Account!All
<1>3. CopyIsCurrent /\ NoSecretLost
    BY DEF Init, Account!Init, CopyIsCurrent, NoSecretLost, Account!NoSecretLost
<1>4. Converters!TypeOK /\ ResultIsTrue
    BY ProcessAssumption DEF Init, Converters!Init, Converters!TypeOK, ResultIsTrue
<1>5. ReadFirst
    BY DEF Init, Setup!Init, Account!Init, Converters!Init, ReadFirst
<1> QED BY <1>1, <1>2, <1>3, <1>4, <1>5 DEF IInv, TypeOK

----------------------------------------------------------------------------
(* The steps of each part, and what they keep. *)

LEMMA InitSuiteStep ==
    ASSUME Setup!TypeOK, WrongShows, Setup!InitSuite \/ Setup!Manager, ~read
    PROVE  Setup!TypeOK' /\ WrongShows' /\ ~read'
<1> USE DEF Setup!TypeOK, Setup!Errors, WrongShows
<1>1. CASE Setup!Prepare BY <1>1 DEF Setup!Prepare, Setup!After
<1>2. CASE Setup!Spawn BY <1>2 DEF Setup!Spawn
<1>3. CASE Setup!DetectOpenshift BY <1>3 DEF Setup!DetectOpenshift
<1>4. CASE Setup!ExpectDetected BY <1>4 DEF Setup!ExpectDetected
<1>5. CASE Setup!CacheStarts BY <1>5 DEF Setup!CacheStarts
<1>6. CASE Setup!StartFails BY <1>6 DEF Setup!StartFails
<1>7. CASE Setup!ExpectStarted BY <1>7 DEF Setup!ExpectStarted
<1> QED
    BY <1>1, <1>2, <1>3, <1>4, <1>5, <1>6, <1>7 DEF Setup!InitSuite, Setup!Manager

\* Once a spec has read, the manager's failures no longer count as those of a start.
LEMMA ManagerAfterRead ==
    ASSUME Setup!TypeOK, WrongShows, Setup!Manager, read, main = "ready", ~wrong
    PROVE  Setup!TypeOK' /\ WrongShows' /\ read' /\ main' = "ready" /\ ~wrong'
<1> USE DEF Setup!TypeOK, Setup!Errors, WrongShows
<1>1. CASE Setup!CacheStarts BY <1>1 DEF Setup!CacheStarts
<1>2. CASE Setup!StartFails BY <1>2 DEF Setup!StartFails
<1>3. CASE Setup!ExpectStarted BY <1>3 DEF Setup!ExpectStarted
<1> QED BY <1>1, <1>2, <1>3 DEF Setup!Manager

LEMMA AccountStep ==
    ASSUME Account!TypeOK, CopyIsCurrent, NoSecretLost,
           Account!SetPullSecret \/ Account!GiveUp \/ Account!Controllers
    PROVE  Account!TypeOK' /\ CopyIsCurrent' /\ NoSecretLost'
<1> USE ProcessAssumption DEF Account!TypeOK, Account!All, CopyIsCurrent, NoSecretLost,
        Account!NoSecretLost
<1>1. CASE Account!AccountFound BY <1>1 DEF Account!AccountFound
<1>2. CASE Account!GetAccount BY <1>2 DEF Account!GetAccount
<1>3. CASE Account!UpdateAccount BY <1>3 DEF Account!UpdateAccount
<1>4. CASE Account!GiveUp BY <1>4 DEF Account!GiveUp
<1>5. CASE Account!CreateAccount BY <1>5 DEF Account!CreateAccount
<1>6. CASE Account!ChangeAccount BY <1>6 DEF Account!ChangeAccount
<1>7. ASSUME NEW s \in Others, Account!BindOther(s)
      PROVE  Account!TypeOK' /\ CopyIsCurrent' /\ NoSecretLost'
    BY <1>7 DEF Account!BindOther
<1> QED
    BY <1>1, <1>2, <1>3, <1>4, <1>5, <1>6, <1>7 DEF Account!SetPullSecret, Account!Controllers

LEMMA RecordsStep ==
    ASSUME Converters!TypeOK, ResultIsTrue, Converters!Test \/ Converters!Reader
    PROVE  Converters!TypeOK' /\ ResultIsTrue'
<1> USE ProcessAssumption DEF Converters!TypeOK, ResultIsTrue
<1>1. CASE Converters!StartReader BY <1>1 DEF Converters!StartReader
<1>2. CASE Converters!Insert BY <1>2 DEF Converters!Insert
<1>3. CASE Converters!InsertFails BY <1>3 DEF Converters!InsertFails
<1>4. CASE Converters!Inserted BY <1>4 DEF Converters!Inserted
<1>5. CASE Converters!Receive BY <1>5 DEF Converters!Receive
<1>6. CASE Converters!Inspect BY <1>6 DEF Converters!Inspect
<1>7. CASE Converters!ReadMessage
    <2>1. /\ records' = records + 1 /\ records' \in 0 .. inserted' /\ inserted' = inserted
          /\ test' = test
        BY <1>7 DEF Converters!ReadMessage
    <2>2. test \notin {"idle", "inspect", "passed"}
        BY <1>7 DEF Converters!ReadMessage, Converters!Polling
    <2>3. CASE records' >= Minimum
        <3>1. reader' = "sending" /\ result' = "records"
            BY <1>7, <2>3 DEF Converters!ReadMessage
        <3>2. records' >= 1
            BY <2>1
        <3> QED BY <2>1, <2>2, <2>3, <3>1, <3>2
    <2>4. CASE ~(records' >= Minimum) /\ reader = "late"
        BY <1>7, <2>1, <2>2, <2>4 DEF Converters!ReadMessage
    <2>5. CASE ~(records' >= Minimum) /\ reader # "late"
        BY <1>7, <2>1, <2>2, <2>5 DEF Converters!ReadMessage
    <2> QED BY <2>3, <2>4, <2>5
<1>8. CASE Converters!PollExpires BY <1>8 DEF Converters!PollExpires
<1>9. CASE Converters!LateReadFails BY <1>9 DEF Converters!LateReadFails
<1>10. CASE Converters!Close BY <1>10 DEF Converters!Close
<1> QED
    BY <1>1, <1>2, <1>3, <1>4, <1>5, <1>6, <1>7, <1>8, <1>9, <1>10
    DEF Converters!Test, Converters!Reader

----------------------------------------------------------------------------

LEMMA NextInvariant == IInv /\ [Next]_vars => IInv'
<1> SUFFICES ASSUME IInv, [Next]_vars PROVE IInv'
    OBVIOUS
<1>0. Setup!TypeOK /\ Account!TypeOK /\ Converters!TypeOK
    BY DEF IInv, TypeOK
<1> USE <1>0
<1>1. CASE InitSuite
    <2>1. Setup!InitSuite /\ main # "ready" /\ ~read
        BY <1>1 DEF InitSuite, IInv, ReadFirst, Setup!InitSuite, Setup!Prepare, Setup!After,
           Setup!Spawn, Setup!DetectOpenshift, Setup!ExpectDetected
    <2>2. Setup!TypeOK' /\ WrongShows' /\ ~read'
        BY <2>1, InitSuiteStep DEF IInv
    <2>3. UNCHANGED <<bindVars, recordVars>>
        BY <1>1 DEF InitSuite
    <2>4. Account!TypeOK' /\ Converters!TypeOK' /\ CopyIsCurrent' /\ NoSecretLost' /\ ResultIsTrue'
        BY <2>3 DEF IInv, Account!TypeOK, Converters!TypeOK, CopyIsCurrent, NoSecretLost,
           Account!NoSecretLost, ResultIsTrue
    <2>5. ReadFirst'
        BY <2>1, <2>2, <2>3 DEF IInv, ReadFirst
    <2> QED BY <2>2, <2>4, <2>5 DEF IInv, TypeOK
<1>2. CASE ManagerStep
    <2>1. Setup!TypeOK' /\ WrongShows' /\ main' = main /\ read' = read /\ (read => ~wrong')
        <3>1. main' = main /\ read' = read
            BY <1>2 DEF ManagerStep, Setup!Manager, Setup!CacheStarts, Setup!StartFails,
               Setup!ExpectStarted
        <3>2. CASE read
            BY <1>2, <3>1, <3>2, ManagerAfterRead DEF ManagerStep, IInv, ReadFirst
        <3>3. CASE ~read
            BY <1>2, <3>1, <3>3, InitSuiteStep DEF ManagerStep, IInv
        <3> QED BY <3>1, <3>2, <3>3
    <2>2. UNCHANGED <<bindVars, recordVars>>
        BY <1>2 DEF ManagerStep
    <2>3. Account!TypeOK' /\ Converters!TypeOK' /\ CopyIsCurrent' /\ NoSecretLost' /\ ResultIsTrue'
        BY <2>2 DEF IInv, Account!TypeOK, Converters!TypeOK, CopyIsCurrent, NoSecretLost,
           Account!NoSecretLost, ResultIsTrue
    <2>4. ReadFirst'
        BY <2>1, <2>2 DEF IInv, ReadFirst
    <2> QED BY <2>1, <2>3, <2>4 DEF IInv, TypeOK
<1>3. CASE CreateNamespace \/ ClusterStep
    <2>1. Account!TypeOK' /\ CopyIsCurrent' /\ NoSecretLost'
        BY <1>3, AccountStep DEF CreateNamespace, ClusterStep, IInv
    <2>2. UNCHANGED <<initVars, recordVars>>
        BY <1>3 DEF CreateNamespace, ClusterStep
    <2>3. Setup!TypeOK' /\ Converters!TypeOK' /\ ResultIsTrue' /\ WrongShows'
        BY <2>2 DEF IInv, Setup!TypeOK, Converters!TypeOK, ResultIsTrue, WrongShows
    <2>4. main = "ready" \/ binding' = binding
        BY <1>3 DEF CreateNamespace, ClusterStep, Account!Controllers, Account!CreateAccount,
           Account!ChangeAccount, Account!BindOther
    <2>5. ReadFirst'
        BY <2>2, <2>4 DEF IInv, ReadFirst
    <2> QED BY <2>1, <2>3, <2>5 DEF IInv, TypeOK
<1>4. CASE SpecReads
    <2>1. binding = "bound" /\ main = "ready"
        BY <1>4 DEF SpecReads, IInv, ReadFirst
    <2>2. UNCHANGED bindVars
        BY <1>4 DEF SpecReads
    <2>3. Account!TypeOK' /\ CopyIsCurrent' /\ NoSecretLost'
        BY <2>2 DEF IInv, Account!TypeOK, CopyIsCurrent, NoSecretLost, Account!NoSecretLost
    <2>4. Setup!TypeOK' /\ WrongShows'
        <3> USE DEF Setup!TypeOK, Setup!Errors, WrongShows
        <3>1. CASE Setup!ReadCache BY <2>1, <3>1 DEF IInv, Setup!ReadCache
        <3>2. CASE Setup!ReadBlocks BY <2>1, <3>2 DEF IInv, Setup!ReadBlocks
        <3>3. CASE Setup!ReadRefused BY <2>1, <3>3 DEF IInv, Setup!ReadRefused
        <3> QED BY <1>4, <3>1, <3>2, <3>3 DEF SpecReads
    <2>5. Converters!TypeOK' /\ ResultIsTrue'
        BY <1>4 DEF SpecReads, IInv, Converters!TypeOK, ResultIsTrue
    <2>6. ReadFirst'
        BY <1>4, <2>1 DEF SpecReads, IInv, ReadFirst, WrongShows, Setup!ReadCache,
           Setup!ReadBlocks, Setup!ReadRefused
    <2> QED BY <2>3, <2>4, <2>5, <2>6 DEF IInv, TypeOK
<1>5. CASE ConvertersTestCase \/ ReaderStep
    <2>1. Converters!TypeOK' /\ ResultIsTrue'
        BY <1>5, RecordsStep DEF ConvertersTestCase, ReaderStep, IInv
    <2>2. UNCHANGED <<initVars, bindVars>>
        BY <1>5 DEF ConvertersTestCase, ReaderStep
    <2>3. /\ Setup!TypeOK' /\ Account!TypeOK' /\ CopyIsCurrent' /\ NoSecretLost' /\ WrongShows'
        BY <2>2 DEF IInv, Setup!TypeOK, Account!TypeOK, CopyIsCurrent, NoSecretLost,
           Account!NoSecretLost, WrongShows
    <2>4. read \/ test' = test
        BY <1>5 DEF ConvertersTestCase, ReaderStep, Converters!Reader, Converters!ReadMessage,
           Converters!PollExpires, Converters!LateReadFails, Converters!Close
    <2>5. ReadFirst'
        BY <2>2, <2>4 DEF IInv, ReadFirst
    <2> QED BY <2>1, <2>3, <2>5 DEF IInv, TypeOK
<1>6. CASE Exit
    BY <1>6 DEF Exit, IInv, TypeOK, Setup!TypeOK, Account!TypeOK, Converters!TypeOK,
       CopyIsCurrent, NoSecretLost, Account!NoSecretLost, ResultIsTrue, WrongShows, ReadFirst
<1>7. CASE UNCHANGED vars
    BY <1>7 DEF IInv, TypeOK, Setup!TypeOK, Account!TypeOK, Converters!TypeOK,
       CopyIsCurrent, NoSecretLost, Account!NoSecretLost, ResultIsTrue, WrongShows, ReadFirst
<1> QED
    BY <1>1, <1>2, <1>3, <1>4, <1>5, <1>6, <1>7 DEF Next, GinkgoStep, Terminated

LEMMA Invariance == Spec => []IInv
BY InitInvariant, NextInvariant, PTL DEF Spec

\* The state of every part stays well formed: no more records than rows, whatever
\* the numbers.
THEOREM TypeCorrectness == Spec => []TypeOK
BY Invariance, PTL DEF IInv

\* SetPullSecret and the controllers never undo each other's bindings, however
\* often the account changes between Get and Update.
THEOREM SecretsStay == Spec => []NoSecretLost
BY Invariance, PTL DEF IInv

\* The test never looks at a record that is not there, even if it expects none.
THEOREM RecordsExist == Spec => []RecordsAreThere
<1>1. IInv => RecordsAreThere
    BY DEF IInv, ResultIsTrue, RecordsAreThere, Converters!RecordsAreThere
<1> QED BY <1>1, Invariance, PTL

\* A green suite had an InitSuite and a manager without errors, whatever the race
\* for err made each of them see.
THEOREM StartIsReported == Spec => []StartFailureIsReported
<1>1. IInv => StartFailureIsReported
    BY DEF IInv, ReadFirst, StartFailureIsReported
<1> QED BY <1>1, Invariance, PTL
=============================================================================
