------------------------------- MODULE Router -------------------------------
(***************************************************************************)
(* infrastructure/router: consumes the ready queue and publishes every     *)
(* announcement, unchanged, on the routed topic exchange under a routing   *)
(* key made from its URN.  The broker copies it to every queue bound to    *)
(* the key, or to the unroutable exchange when there is none.              *)
(*                                                                         *)
(* Bindings are made and removed at run time by transformers and by        *)
(* devops/rabbitmq_dev_route.py.  One queue per transformer, so bound says *)
(* for each routing key which transformers get a copy.                     *)
(***************************************************************************)
EXTENDS Consumer, Naturals

CONSTANTS
    Class,        \* what handleMqMsg makes of each message, see Classes
    Keys,         \* routing keys: URN namespaces without the document id
    KeyOf,        \* the routing key of each message
    Queues,       \* queues of the transformers
    Permanent,    \* queues whose bindings nobody changes
    Unroutable,   \* the queue behind the alternate exchange
    MaxFaults     \* bound: crashes and consumer timeouts together

(***************************************************************************)
(* valid       a JSON object with a URN                                    *)
(* malformed   not JSON, no URN or not a URN: handleMqMsg returns an error *)
(* unreadable  "urn" is null: reflect.TypeOf(nil).Kind() panics (main.go:  *)
(*             76)                                                         *)
(***************************************************************************)
Classes == {"valid", "malformed", "unreadable"}

Sinks == Queues \cup {Unroutable}

ASSUME ClassAssumption == Class \in [Msgs -> Classes]
ASSUME KeyAssumption == KeyOf \in [Msgs -> Keys]
ASSUME QueueAssumption == Unroutable \notin Queues /\ Permanent \subseteq Queues
ASSUME BoundAssumption == MaxFaults \in Nat

VARIABLES
    pc,         \* what each handler goroutine does next
    bound,      \* bound[k]: the queues with a binding that matches key k
    routed,     \* <<m, s>>: sink s has a copy of message m
    resent,     \* <<m, s>>: sink s got more than one copy
    confirmLost,\* history: messages whose Publish failed after the broker
                \* had taken them
    faults

routeVars == <<routed, resent, confirmLost>>
vars == <<queueVars, pc, bound, routeVars, faults>>

Steps == {"idle", "received", "publish", "ack", "nack"}

\* Type invariant.
TypeOK ==
    /\ QueueTypeOK
    /\ pc \in [Handlers -> Steps]
    /\ bound \in [Keys -> SUBSET Queues]
    /\ routed \subseteq Msgs \X Sinks
    /\ resent \subseteq Msgs \X Sinks
    /\ confirmLost \subseteq Msgs
    /\ faults \in 0 .. MaxFaults

\* The queue starts with the messages in S.
InitWith(S) ==
    /\ QueueInit(S)
    /\ pc = [h \in Handlers |-> "idle"]
    /\ bound \in [Keys -> SUBSET Queues]
    /\ routed = {}
    /\ resent = {}
    /\ confirmLost = {}
    /\ faults = 0

Init == InitWith(Msgs)

-----------------------------------------------------------------------------
Receive(h, m) ==
    /\ Deliver(h, m)
    /\ pc' = [pc EXCEPT ![h] = "received"]
    /\ UNCHANGED <<bound, routeVars, faults>>

Goto(h, step) ==
    /\ pc' = [pc EXCEPT ![h] = step]
    /\ UNCHANGED <<queueVars, bound, faults>>

\* The payload parses and has a routing key, or one of the error returns.
generateRoutingKey(h) ==
    /\ pc[h] = "received"
    /\ \/ Class[cur[h]] = "valid"     /\ Goto(h, "publish")
       \/ Class[cur[h]] = "malformed" /\ Goto(h, "nack")
    /\ UNCHANGED routeVars

\* MUTANT: the exchange has no alternate exchange.
Route_NoAlternate(m) ==
    LET copies == {m} \X bound[KeyOf[m]]
    IN  /\ routed' = routed \cup copies
        /\ resent' = resent \cup (copies \cap routed)

\* MUTANT: the transformers consume one queue instead of one each.
Route_OneQueue(m) ==
    \E s \in IF bound[KeyOf[m]] = {} THEN {Unroutable} ELSE bound[KeyOf[m]] :
        /\ routed' = routed \cup {<<m, s>>}
        /\ resent' = resent \cup ({<<m, s>>} \cap routed)

\* What the routed exchange does with message m.
Route(m) ==
    LET sinks  == IF bound[KeyOf[m]] = {} THEN {Unroutable} ELSE bound[KeyOf[m]]
        copies == {m} \X sinks
    IN  /\ routed' = routed \cup copies
        /\ resent' = resent \cup (copies \cap routed)

\* MUTANT: the branches of handleMq are swapped.
Publish_Nacks(h) ==
    /\ pc[h] = "publish"
    /\ Route(cur[h])
    /\ Goto(h, "nack")
    /\ UNCHANGED confirmLost

Publish(h) ==
    /\ pc[h] = "publish"
    /\ Route(cur[h])
    /\ Goto(h, "ack")
    /\ UNCHANGED confirmLost

\* MUTANT: the error of Publish is not checked.
PublishFails_Unchecked(h) ==
    /\ pc[h] = "publish"
    /\ Goto(h, "ack")
    /\ UNCHANGED routeVars

PublishFails(h) ==
    /\ pc[h] = "publish"
    /\ Goto(h, "nack")
    /\ UNCHANGED routeVars

\* MUTANT: a failed Publish is tried again.
PublishConfirmLost_Retried(h) ==
    /\ pc[h] = "publish"
    /\ Route(cur[h])
    /\ confirmLost' = confirmLost \cup {cur[h]}
    /\ Goto(h, "publish")

\* The broker routed the message, the router sees an error.
PublishConfirmLost(h) ==
    /\ pc[h] = "publish"
    /\ Route(cur[h])
    /\ confirmLost' = confirmLost \cup {cur[h]}
    /\ Goto(h, "nack")

Return(h) ==
    /\ pc' = [pc EXCEPT ![h] = "idle"]
    /\ UNCHANGED <<bound, routeVars, faults>>

Ack(h)  == pc[h] = "ack"  /\ msg_Ack(h)  /\ Return(h)
Nack(h) == pc[h] = "nack" /\ msg_Nack(h) /\ Return(h)

Restart ==
    /\ Disconnected
    /\ pc' = [h \in Handlers |-> "idle"]
    /\ UNCHANGED <<bound, routeVars>>

Panic(h) ==
    /\ pc[h] = "received"
    /\ Class[cur[h]] = "unreadable"
    /\ Restart
    /\ UNCHANGED faults

Crash ==
    /\ faults < MaxFaults
    /\ \E h \in Handlers : pc[h] # "idle"
    /\ faults' = faults + 1
    /\ Restart

ConsumerTimeout ==
    /\ faults < MaxFaults
    /\ faults' = faults + 1
    /\ TimedOut
    /\ UNCHANGED <<pc, bound, routeVars>>

\* A transformer's queue is bound to a key, or unbound or deleted.
Rebind(k, q) ==
    /\ \/ bound' = [bound EXCEPT ![k] = @ \cup {q}]
       \/ bound' = [bound EXCEPT ![k] = @ \ {q}]
    /\ UNCHANGED <<queueVars, pc, routeVars, faults>>

-----------------------------------------------------------------------------
Handle(h) ==
    \/ generateRoutingKey(h) \/ Panic(h)
    \/ Publish(h) \/ PublishFails(h) \/ PublishConfirmLost(h)
    \/ Ack(h) \/ Nack(h)

Next ==
    \/ \E h \in Handlers, m \in Msgs : Receive(h, m)
    \/ \E h \in Handlers : Handle(h)
    \/ \E k \in Keys, q \in Queues \ Permanent : Rebind(k, q)
    \/ Crash
    \/ ConsumerTimeout

Spec == Init /\ [][Next]_vars

-----------------------------------------------------------------------------
(***************************************************************************)
(* Properties                                                              *)
(***************************************************************************)
SinksOf(m) == {s \in Sinks : <<m, s>> \in routed}

\* No loss.  What the router acked is in some transformer's queue or in the
\* unroutable queue, also when the bindings change while it is handled.
AckedIsRouted ==
    \A m \in Msgs : where[m] = "acked" => SinksOf(m) # {}

\* A transformer that stays bound misses nothing the router acked, however
\* often the announcement was delivered again and whatever happens to the
\* bindings of the others.
BoundQueueMissesNothing ==
    \A m \in Msgs, q \in Permanent :
        where[m] = "acked" /\ q \in bound[KeyOf[m]] => <<m, q>> \in routed

\* A sink sees a message twice only if the broker redelivered it to the
\* router.
DuplicateOnlyAfterRedelivery ==
    \A m \in Msgs, s \in Sinks : <<m, s>> \in resent => m \in redelivered

\* A message is both dead-lettered and routed only if it was redelivered or
\* its confirm was lost; otherwise replaying the dead letters is safe.
DeadIsUnrouted ==
    \A m \in Msgs \ redelivered :
        where[m] = "dead" => SinksOf(m) = {} \/ m \in confirmLost

=============================================================================
