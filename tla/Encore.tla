------------------------------- MODULE Encore -------------------------------
(***************************************************************************)
(* devops/encore: replays the documents of a collection into a queue.  A   *)
(* producer goroutine reads the rows of a query, oldest timestamp first,   *)
(* and hands them over a bounded channel to main, which publishes them.    *)
(*                                                                         *)
(* Nothing is retried: whatever fails panics.  A panic of the producer     *)
(* runs its deferred functions before it ends the process, and the last of *)
(* them closes the channel main ranges over.  Main publishes without       *)
(* confirms, so it hears of a broken connection late, and of a deleted     *)
(* queue never.                                                            *)
(*                                                                         *)
(* A row is its place in the result.                                       *)
(***************************************************************************)
EXTENDS Naturals, Sequences

CONSTANTS
    Rows,       \* number of documents the query returns
    bufferSize  \* capacity of msgs, batchSize*2

ASSUME RowAssumption == Rows \in Nat
ASSUME BufferAssumption == bufferSize \in Nat \ {0}

VARIABLES
    producer,    \* what the producer goroutine does next
    cur,         \* rows the MongoDB cursor has returned
    failed,      \* the producer is panicking
    msgs, closed,\* the channel
    main,        \* what the main goroutine does next
    m,           \* the row main has received last
    count,       \* rows published
    gaveUp,      \* main is panicking
    connection,  \* to the broker: it breaks before main hears of it
    wire,        \* rows written to the connection that the broker has not read
    queue,       \* the queue at the broker
    deleted,     \* history: the queue was deleted since main declared it
    arrived,     \* history: rows the queue got, in order
    exit         \* how the process ended

producerVars == <<producer, cur, failed>>
mainVars     == <<main, m, count, gaveUp>>
brokerVars   == <<connection, wire, queue, deleted, arrived>>
replayVars == <<producerVars, msgs, closed, mainVars, brokerVars, exit>>

ProducerSteps == {"connect", "find", "next", "send", "disconnect", "close", "dying", "ended"}
MainSteps     == {"dial", "declare", "range", "publish", "close", "ended"}

FlagsOK == failed \in BOOLEAN /\ closed \in BOOLEAN /\ gaveUp \in BOOLEAN /\ deleted \in BOOLEAN

\* Type invariant.
ReplayTypeOK ==
    /\ FlagsOK
    /\ producer \in ProducerSteps
    /\ cur \in 0 .. Rows
    /\ msgs \in Seq(1 .. Rows) /\ Len(msgs) <= bufferSize
    /\ main \in MainSteps
    /\ m \in 0 .. Rows
    /\ count \in Nat
    /\ connection \in {"none", "open", "broken", "closed"}
    /\ wire \in Seq(1 .. Rows)
    /\ queue \in {"absent", "declared"}
    /\ arrived \in Seq(1 .. Rows)
    /\ exit \in {"running", "success", "panic"}

ReplayInit ==
    /\ producer = "connect" /\ cur = 0 /\ failed = FALSE
    /\ msgs = <<>> /\ closed = FALSE
    /\ main = "dial" /\ m = 0 /\ count = 0 /\ gaveUp = FALSE
    /\ connection = "none" /\ wire = <<>> /\ arrived = <<>>
    /\ queue \in {"absent", "declared"} /\ deleted = FALSE
    /\ exit = "running"

Running == exit = "running"

-----------------------------------------------------------------------------
(***************************************************************************)
(* The producer.                                                           *)
(***************************************************************************)
ProducerGoto(step) ==
    /\ Running
    /\ producer' = step
    /\ UNCHANGED <<mainVars, brokerVars, exit>>

\* failOnError: on to the deferred functions that are registered so far.
Panic(deferred) ==
    /\ ProducerGoto(deferred)
    /\ failed' = TRUE
    /\ UNCHANGED <<cur, msgs, closed>>

Connect ==
    /\ producer = "connect"
    /\ \/ ProducerGoto("find") /\ UNCHANGED <<cur, failed, msgs, closed>>
       \/ Panic("close")

\* The query is parsed and run.
Find ==
    /\ producer = "find"
    /\ \/ ProducerGoto("next") /\ UNCHANGED <<cur, failed, msgs, closed>>
       \/ Panic("disconnect")

\* MUTANT: the query has no sort.
NextRow_Unsorted ==
    /\ producer = "next"
    /\ cur < Rows
    /\ cur' \in (1 .. Rows) \ {cur}
    /\ ProducerGoto("send")
    /\ UNCHANGED <<failed, msgs, closed>>

\* The next row decodes, and its collection has a URN.
NextRow ==
    /\ producer = "next"
    /\ cur < Rows
    /\ cur' = cur + 1
    /\ ProducerGoto("send")
    /\ UNCHANGED <<failed, msgs, closed>>

\* It does not: an _id of its own does not decode into D.
BadRow ==
    /\ producer = "next"
    /\ cur < Rows
    /\ Panic("disconnect")

\* cur.Next is false: the rows are exhausted, or cur.Err() tells why not.
EndOfRows ==
    /\ producer = "next"
    /\ cur = Rows
    /\ ProducerGoto("disconnect")
    /\ UNCHANGED <<cur, failed, msgs, closed>>

CursorFails ==
    /\ producer = "next"
    /\ Panic("disconnect")

Send ==
    /\ producer = "send"
    /\ Len(msgs) < bufferSize
    /\ msgs' = Append(msgs, cur)
    /\ ProducerGoto("next")
    /\ UNCHANGED <<cur, failed, closed>>

\* The deferred Disconnect, which may panic in its turn.
Disconnect ==
    /\ producer = "disconnect"
    /\ ProducerGoto("close")
    /\ failed' \in {failed, TRUE}
    /\ UNCHANGED <<cur, msgs, closed>>

\* MUTANT: the channel is left open.
CloseMsgs_Omitted ==
    /\ producer = "close"
    /\ ProducerGoto(IF failed THEN "dying" ELSE "ended")
    /\ UNCHANGED <<cur, failed, msgs, closed>>

\* The deferred close(msgs).
CloseMsgs ==
    /\ producer = "close"
    /\ closed' = TRUE
    /\ ProducerGoto(IF failed THEN "dying" ELSE "ended")
    /\ UNCHANGED <<cur, failed, msgs>>

\* The panic has no function left to run and ends the process.
Die ==
    /\ Running
    /\ producer = "dying"
    /\ producer' = "ended"
    /\ exit' = "panic"
    /\ UNCHANGED <<cur, failed, msgs, closed, mainVars, brokerVars>>

Producer ==
    \/ Connect \/ Find \/ NextRow \/ BadRow \/ EndOfRows \/ CursorFails \/ Send
    \/ Disconnect \/ CloseMsgs \/ Die

-----------------------------------------------------------------------------
(***************************************************************************)
(* Main.                                                                   *)
(***************************************************************************)
MainGoto(step) ==
    /\ Running
    /\ main' = step
    /\ UNCHANGED <<producerVars, exit>>

GiveUp ==
    /\ MainGoto("close")
    /\ gaveUp' = TRUE
    /\ UNCHANGED <<msgs, closed, m, count, brokerVars>>

Dial ==
    /\ main = "dial"
    /\ \/ /\ MainGoto("declare")
          /\ connection' = "open"
          /\ UNCHANGED <<msgs, closed, m, count, gaveUp, wire, queue, deleted, arrived>>
       \/ GiveUp

\* The channel is opened, and the queue is made if it is not there, or no
\* longer.
QueueDeclare ==
    /\ main = "declare"
    /\ \/ /\ connection = "open"
          /\ MainGoto("range")
          /\ queue' = "declared" /\ deleted' = FALSE
          /\ UNCHANGED <<msgs, closed, m, count, gaveUp, connection, wire, arrived>>
       \/ GiveUp

\* for m := range msgs
Receive ==
    /\ main = "range"
    /\ msgs # <<>>
    /\ MainGoto("publish")
    /\ m' = Head(msgs)
    /\ msgs' = Tail(msgs)
    /\ UNCHANGED <<closed, count, gaveUp, brokerVars>>

\* MUTANT: what is still in the channel when it is closed is dropped.
JobDone_Early ==
    /\ main = "range"
    /\ closed
    /\ MainGoto("close")
    /\ UNCHANGED <<msgs, closed, m, count, gaveUp, brokerVars>>

\* The channel is closed and empty: "Job done!"
JobDone ==
    /\ main = "range"
    /\ closed /\ msgs = <<>>
    /\ MainGoto("close")
    /\ UNCHANGED <<msgs, closed, m, count, gaveUp, brokerVars>>

\* PublishWithContext: a connection that is broken takes the row as well,
\* until main is told.
Publish ==
    /\ main = "publish"
    /\ connection # "closed"
    /\ wire' = IF connection = "open" THEN Append(wire, m) ELSE wire
    /\ count' = count + 1
    /\ MainGoto("range")
    /\ UNCHANGED <<msgs, closed, m, gaveUp, connection, queue, deleted, arrived>>

PublishFails ==
    /\ main = "publish"
    /\ connection = "closed"
    /\ GiveUp

\* The deferred ch.Close and con.Close, whose errors are dropped: over an
\* open connection they wait for the broker to have read all of it.
Close ==
    /\ Running
    /\ main = "close"
    /\ connection = "open" => wire = <<>>
    /\ main' = "ended"
    /\ exit' = IF gaveUp THEN "panic" ELSE "success"
    /\ UNCHANGED <<producerVars, msgs, closed, m, count, gaveUp, brokerVars>>

Main ==
    Dial \/ QueueDeclare \/ Receive \/ JobDone \/ Publish \/ PublishFails \/ Close

-----------------------------------------------------------------------------
(***************************************************************************)
(* The connection and the broker.                                          *)
(***************************************************************************)
\* The broker reads a row and routes it to the queue, if there is one: the
\* default exchange drops it otherwise, for mandatory is not set.
Route ==
    /\ wire # <<>>
    /\ wire' = Tail(wire)
    /\ arrived' = IF queue = "declared" THEN Append(arrived, Head(wire)) ELSE arrived
    /\ UNCHANGED <<producerVars, msgs, closed, mainVars, connection, queue, deleted, exit>>

Break ==
    /\ connection = "open"
    /\ connection' = "broken"
    /\ wire' = <<>>
    /\ UNCHANGED <<producerVars, msgs, closed, mainVars, queue, deleted, arrived, exit>>

Noticed ==
    /\ connection = "broken"
    /\ connection' = "closed"
    /\ UNCHANGED <<producerVars, msgs, closed, mainVars, wire, queue, deleted, arrived, exit>>

\* Somebody deletes the queue, and its consumer declares it when it starts.
DeleteQueue ==
    /\ queue = "declared"
    /\ queue' = "absent" /\ deleted' = TRUE
    /\ UNCHANGED <<producerVars, msgs, closed, mainVars, connection, wire, arrived, exit>>

ConsumerDeclares ==
    /\ queue = "absent"
    /\ queue' = "declared"
    /\ UNCHANGED <<producerVars, msgs, closed, mainVars, connection, wire, deleted, arrived, exit>>

Broker == Route \/ Break \/ Noticed \/ DeleteQueue \/ ConsumerDeclares

ReplayNext == Producer \/ Main \/ Broker

ReplaySpec == ReplayInit /\ [][ReplayNext]_replayVars

-----------------------------------------------------------------------------
(***************************************************************************)
(* Properties                                                              *)
(***************************************************************************)
Undisturbed == connection \in {"none", "open"} /\ ~deleted

\* What "Job done!" and a status of 0 are worth: as long as connection and
\* queue stayed, the queue got as many rows as were counted, and these are
\* all rows, unless the producer panicked and main was faster than its panic.
DoneMeansPushed ==
    exit = "success" /\ Undisturbed =>
        Len(arrived) = count /\ (count = Rows \/ failed)

\* However the replay ends, the queue got its rows in order and each once, and
\* what the log calls pushed is not less than that.  They are an initial part
\* of the rows, unless the queue was gone for a while.
PushedInOrder ==
    /\ \A j, k \in 1 .. Len(arrived) : j < k => arrived[j] < arrived[k]
    /\ Len(arrived) <= count
    /\ ~deleted => \A k \in 1 .. Len(arrived) : arrived[k] = k
=============================================================================
