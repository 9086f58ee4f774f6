------------------------------ MODULE Consumer ------------------------------
(***************************************************************************)
(* A RabbitMQ queue and the service that consumes it, as raw-writer        *)
(* (main.go:68-91) and router (main.go:46-70) set it up: one goroutine per *)
(* delivery, which acks or nacks its message when it is done.              *)
(*                                                                         *)
(* The broker is modelled by what the services configure: a nacked message *)
(* goes to the dead letter queue (WithDeadLetter, WithNoRequeueOnNack), a  *)
(* message whose consumer went away is queued again, and the answer to a   *)
(* delivery the broker has taken back has no effect.                       *)
(***************************************************************************)
CONSTANTS
    Msgs,         \* messages that may be put on the queue
    Handlers,     \* handler goroutines that can be alive at the same time
    NoMsg         \* "no message"

ASSUME NoMsgAssumption == NoMsg \notin Msgs

VARIABLES
    where,        \* the broker's view of each message
    redelivered,  \* messages the broker has queued a second time
    cur,          \* the message each handler works on
    owns          \* the handlers whose delivery the broker still waits for

queueVars == <<where, redelivered, cur, owns>>

Places == {"absent", "queued", "unacked", "acked", "dead"}

QueueTypeOK ==
    /\ where \in [Msgs -> Places]
    /\ redelivered \subseteq Msgs
    /\ cur \in [Handlers -> Msgs \cup {NoMsg}]
    /\ owns \subseteq Handlers

\* The queue starts with the messages in S.
QueueInit(S) ==
    /\ where = [m \in Msgs |-> IF m \in S THEN "queued" ELSE "absent"]
    /\ redelivered = {}
    /\ cur = [h \in Handlers |-> NoMsg]
    /\ owns = {}

\* The broker hands m to the service, which starts a goroutine for it.
Deliver(h, m) ==
    /\ cur[h] = NoMsg
    /\ where[m] = "queued"
    /\ where' = [where EXCEPT ![m] = "unacked"]
    /\ cur' = [cur EXCEPT ![h] = m]
    /\ owns' = owns \cup {h}
    /\ UNCHANGED redelivered

\* The goroutine answers the broker and ends.
Settle(h, place) ==
    /\ where' = IF h \in owns THEN [where EXCEPT ![cur[h]] = place] ELSE where
    /\ cur' = [cur EXCEPT ![h] = NoMsg]
    /\ owns' = owns \ {h}
    /\ UNCHANGED redelivered

\* MUTANT: the queue is declared without WithNoRequeueOnNack.
msg_Nack_Requeues(h) == Settle(h, "queued")

msg_Ack(h)  == Settle(h, "acked")
msg_Nack(h) == Settle(h, "dead")

\* The broker takes every delivery back that it waits for.
Unacked == {m \in Msgs : where[m] = "unacked"}

Requeue ==
    /\ where' = [m \in Msgs |-> IF m \in Unacked THEN "queued" ELSE where[m]]
    /\ redelivered' = redelivered \cup Unacked
    /\ owns' = {}

\* The process ends: all goroutines are gone, the connection is closed.
Disconnected ==
    /\ Requeue
    /\ cur' = [h \in Handlers |-> NoMsg]

\* consumer_timeout: the connection is closed, the goroutines carry on.
TimedOut ==
    /\ owns # {}
    /\ Requeue
    /\ UNCHANGED cur

-----------------------------------------------------------------------------
\* The broker waits for exactly one handler per unacknowledged message.
OneOwnerPerDelivery ==
    \A m \in Msgs : where[m] = "unacked" <=>
        \E h \in owns : cur[h] = m /\ \A g \in owns : cur[g] = m => g = h

\* The first verdict on a message is final: a goroutine that still works on
\* a delivery the broker has taken back can neither revive the message nor
\* move it between acked and dead-lettered.
SettledIsFinal ==
    [][\A m \in Msgs : where[m] \in {"acked", "dead"} => where'[m] = where[m]]_queueVars
=============================================================================
