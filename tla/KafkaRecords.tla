---------------------------- MODULE KafkaRecords ----------------------------
(***************************************************************************)
(* The end of ConvertersTestCase (converters.go:132): a goroutine reads    *)
(* from Kafka what Debezium captures of the rows the test inserts, and     *)
(* sends its result on an unbuffered channel.                              *)
(***************************************************************************)
EXTENDS Naturals

CONSTANTS
    Produced,   \* producedRecords
    Minimum     \* minimumExpectedRecords

VARIABLES
    test,       \* idle, insert, receive, inspect, passed, failed
    inserted,   \* the rows inserted
    reader,     \* none, polling, late (one last attempt), sending, received, closed
    records,    \* how many messages the reader has read
    result      \* what it sends: nothing yet, an error or the records

recordVars == <<test, inserted, reader, records, result>>

TypeOK ==
    /\ test \in {"idle", "insert", "receive", "inspect", "passed", "failed"}
    /\ inserted \in 0 .. Produced
    /\ reader \in {"none", "polling", "late", "sending", "received", "closed"}
    /\ records \in 0 .. inserted
    /\ result \in {"none", "error", "records"}

Init ==
    /\ test = "idle"
    /\ inserted = 0
    /\ reader = "none"
    /\ records = 0
    /\ result = "none"

----------------------------------------------------------------------------
(* The test. *)

StartReader ==
    /\ test = "idle"
    /\ test' = "insert"
    /\ reader' = "polling"
    /\ UNCHANGED <<inserted, records, result>>

Insert ==
    /\ test = "insert"
    /\ inserted < Produced
    /\ inserted' = inserted + 1
    /\ UNCHANGED <<test, reader, records, result>>

\* executeSQL panics: the goroutine goes on without a receiver.
InsertFails ==
    /\ test = "insert"
    /\ test' = "failed"
    /\ UNCHANGED <<inserted, reader, records, result>>

\* The last query, and the test waits on the channel.
Inserted ==
    /\ test = "insert"
    /\ inserted = Produced
    /\ test' = "receive"
    /\ UNCHANGED <<inserted, reader, records, result>>

\* The rendezvous.
Receive ==
    /\ test = "receive"
    /\ reader = "sending"
    /\ reader' = "received"
    /\ test' = IF result = "error" THEN "failed" ELSE "inspect"
    /\ UNCHANGED <<inserted, records, result>>

\* The number of the records, records[0], and the artifacts of the registry.
Inspect ==
    /\ test = "inspect"
    /\ \/ test' = "failed"
       \/ records >= Minimum /\ test' = "passed"
    /\ UNCHANGED <<inserted, reader, records, result>>

----------------------------------------------------------------------------
(* readKafkaMessages *)

Polling == reader \in {"polling", "late"}

\* Mutant: an empty message is counted when ReadMessage has failed.
ReadCountsErrors ==
    /\ Polling
    /\ records' = records + 1
    /\ IF records' >= Minimum
       THEN reader' = "sending" /\ result' = "records"
       ELSE UNCHANGED <<reader, result>>
    /\ UNCHANGED <<test, inserted>>

\* ReadMessage returns a message: not all of them may have come through Debezium yet.
ReadMessage ==
    /\ Polling
    /\ records < inserted
    /\ records' = records + 1
    /\ IF records' >= Minimum
       THEN reader' = "sending" /\ result' = "records"
       ELSE IF reader = "late"
            THEN reader' = "sending" /\ result' = "error"
            ELSE UNCHANGED <<reader, result>>
    /\ UNCHANGED <<test, inserted>>

\* The minute is over: wait.Poll tries once more.
PollExpires ==
    /\ reader = "polling"
    /\ reader' = "late"
    /\ UNCHANGED <<test, inserted, records, result>>

\* Mutant: the time-out of the poll is not looked at.
LateReadIgnoresError ==
    /\ reader = "late"
    /\ reader' = "sending"
    /\ result' = "records"
    /\ UNCHANGED <<test, inserted, records>>

\* Mutant: a reader that has timed out returns and sends nothing.
LateReadReturns ==
    /\ reader = "late"
    /\ reader' = "closed"
    /\ UNCHANGED <<test, inserted, records, result>>

\* The last ReadMessage runs into its own ten seconds.
LateReadFails ==
    /\ reader = "late"
    /\ reader' = "sending"
    /\ result' = "error"
    /\ UNCHANGED <<test, inserted, records>>

Close ==
    /\ reader = "received"
    /\ reader' = "closed"
    /\ UNCHANGED <<test, inserted, records, result>>

Test == StartReader \/ Insert \/ InsertFails \/ Inserted \/ Receive \/ Inspect
Reader == ReadMessage \/ PollExpires \/ LateReadFails \/ Close

----------------------------------------------------------------------------

\* The test gets to the assertion of converters.go:152 only with as many records as
\* it asked for, and so never indexes records[0] of none: it is the reader that
\* reports a lack of them, whenever the rows come through.
RecordsAreThere == test \in {"inspect", "passed"} => records >= 1 /\ records >= Minimum
=============================================================================
