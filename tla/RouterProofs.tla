---------------------------- MODULE RouterProofs ----------------------------
(***************************************************************************)
(* The safety properties of Router hold for every set of messages, queues  *)
(* and handlers, however often bindings change, deliveries time out and    *)
(* the process dies.                                                       *)
(*                                                                         *)
(* A goroutine publishes before it answers, so what has to be carried      *)
(* along is what each goroutine knows of the copies of its message: none   *)
(* before Publish, unless another delivery made them, and at least one     *)
(* before Ack.                                                             *)
(***************************************************************************)
EXTENDS Router, ConsumerProofs

\* A goroutine at work has a message.
PcInv == \A h \in Handlers : pc[h] = "idle" <=> cur[h] = NoMsg

\* A message that is not in the queue yet was never taken back.
AbsentInv == \A m \in Msgs : where[m] = "absent" => m \notin redelivered

\* The only delivery of a message has made no copy before it publishes.
UnroutedInv ==
    /\ \A m \in Msgs \ redelivered :
          where[m] \in {"absent", "queued"} => SinksOf(m) = {}
    /\ \A h \in Handlers : pc[h] \in {"received", "publish"} /\ cur[h] \notin redelivered =>
          SinksOf(cur[h]) = {}

\* The permanent queues that get what m announces.
BoundTo(m) == bound[KeyOf[m]] \cap Permanent

\* What a goroutine knows when it answers.
AnswerInv ==
    /\ \A h \in Handlers : pc[h] = "ack" =>
          SinksOf(cur[h]) # {} /\ BoundTo(cur[h]) \subseteq SinksOf(cur[h])
    /\ \A h \in Handlers : pc[h] = "nack" /\ cur[h] \notin redelivered =>
          SinksOf(cur[h]) = {} \/ cur[h] \in confirmLost

\* The inductive invariant.
IInv ==
    /\ TypeOK
    /\ QueueInv
    /\ PcInv
    /\ AbsentInv
    /\ UnroutedInv
    /\ AnswerInv
    /\ AckedIsRouted
    /\ BoundQueueMissesNothing
    /\ DuplicateOnlyAfterRedelivery
    /\ DeadIsUnrouted

-----------------------------------------------------------------------------
\* The queue may start with any of the messages in it, or none.
LEMMA InitIInv ==
  ASSUME NEW S, InitWith(S)
  PROVE  IInv
<1>1. QueueInv
  BY QueueInitInv DEF InitWith
<1> QED
  BY <1>1, NoMsgAssumption, BoundAssumption
  DEF InitWith, QueueInit, IInv, QueueInv, TypeOK, PcInv, AbsentInv, UnroutedInv,
      AnswerInv, BoundTo, AckedIsRouted, BoundQueueMissesNothing,
      DuplicateOnlyAfterRedelivery, DeadIsUnrouted, SinksOf, Steps

\* Somebody puts the messages in S on the queue.
LEMMA EnqueueStep ==
  ASSUME IInv, NEW S, \A m \in S \cap Msgs : where[m] = "absent",
         where' = [m \in Msgs |-> IF m \in S THEN "queued" ELSE where[m]],
         UNCHANGED <<redelivered, cur, owns, pc, bound, routeVars, faults>>
  PROVE  IInv'
<1>1. QueueInv'
  <2>1. QueueTypeOK'
    BY DEF IInv, QueueInv, QueueTypeOK, Places
  <2>2. \A h \in owns : cur[h] \in Msgs /\ cur[h] \notin S
    BY DEF IInv, QueueInv, QueueTypeOK
  <2> QED
    BY <2>1, <2>2 DEF IInv, QueueInv, QueueTypeOK
<1>2. TypeOK'
  BY <1>1 DEF IInv, QueueInv, TypeOK, routeVars
<1>3. PcInv' /\ AbsentInv'
  BY DEF IInv, PcInv, AbsentInv
<1>4. UnroutedInv'
  BY DEF IInv, UnroutedInv, SinksOf, routeVars
<1>5. AnswerInv'
  BY DEF IInv, AnswerInv, BoundTo, SinksOf, routeVars
<1>6. /\ AckedIsRouted' /\ BoundQueueMissesNothing'
      /\ DuplicateOnlyAfterRedelivery' /\ DeadIsUnrouted'
  BY DEF IInv, AckedIsRouted, BoundQueueMissesNothing, DuplicateOnlyAfterRedelivery,
     DeadIsUnrouted, SinksOf, routeVars
<1> QED
  BY <1>1, <1>2, <1>3, <1>4, <1>5, <1>6 DEF IInv

LEMMA ReceiveStep ==
  ASSUME IInv, NEW h \in Handlers, NEW m \in Msgs, Receive(h, m)
  PROVE  IInv'
<1>1. QueueInv'
  BY DeliverInv DEF IInv, Receive
<1>2. TypeOK'
  BY <1>1 DEF IInv, QueueInv, TypeOK, Steps, Receive, routeVars
<1>3. PcInv'
  BY NoMsgAssumption DEF IInv, PcInv, TypeOK, QueueTypeOK, Receive, Deliver
<1>4. AbsentInv'
  BY DEF IInv, AbsentInv, QueueInv, QueueTypeOK, Receive, Deliver
<1>5. UnroutedInv'
  BY DEF IInv, UnroutedInv, TypeOK, QueueTypeOK, Receive, Deliver, SinksOf, routeVars
<1>6. AnswerInv'
  BY DEF IInv, AnswerInv, BoundTo, PcInv, TypeOK, QueueTypeOK, Receive, Deliver, SinksOf,
     routeVars
<1>7. /\ AckedIsRouted' /\ BoundQueueMissesNothing'
      /\ DuplicateOnlyAfterRedelivery' /\ DeadIsUnrouted'
  BY DEF IInv, AckedIsRouted, BoundQueueMissesNothing, DuplicateOnlyAfterRedelivery,
     DeadIsUnrouted, QueueInv, QueueTypeOK, Receive, Deliver, SinksOf, routeVars
<1> QED
  BY <1>1, <1>2, <1>3, <1>4, <1>5, <1>6, <1>7 DEF IInv

LEMMA generateRoutingKeyStep ==
  ASSUME IInv, NEW h \in Handlers, generateRoutingKey(h)
  PROVE  IInv'
<1>1. QueueInv'
  BY UnchangedInv DEF IInv, generateRoutingKey, Goto
<1>2. TypeOK'
  BY <1>1 DEF IInv, QueueInv, TypeOK, Steps, generateRoutingKey, Goto, routeVars
<1>3. PcInv' /\ AbsentInv'
  BY NoMsgAssumption DEF IInv, PcInv, AbsentInv, TypeOK, generateRoutingKey, Goto, queueVars
<1>4. UnroutedInv'
  BY DEF IInv, UnroutedInv, TypeOK, generateRoutingKey, Goto, queueVars, SinksOf, routeVars
<1>5. AnswerInv'
  BY DEF IInv, AnswerInv, BoundTo, UnroutedInv, TypeOK, generateRoutingKey, Goto, queueVars,
     SinksOf, routeVars
<1>6. /\ AckedIsRouted' /\ BoundQueueMissesNothing'
      /\ DuplicateOnlyAfterRedelivery' /\ DeadIsUnrouted'
  BY DEF IInv, AckedIsRouted, BoundQueueMissesNothing, DuplicateOnlyAfterRedelivery,
     DeadIsUnrouted, generateRoutingKey, Goto, queueVars, SinksOf, routeVars
<1> QED
  BY <1>1, <1>2, <1>3, <1>4, <1>5, <1>6 DEF IInv

\* What the exchange does: m has a copy afterwards, and nobody else gets one.
LEMMA RouteCopies ==
  ASSUME IInv, NEW m \in Msgs, Route(m)
  PROVE  /\ routed' \subseteq Msgs \X Sinks /\ resent' \subseteq Msgs \X Sinks
         /\ SinksOf(m)' # {} /\ BoundTo(m) \subseteq SinksOf(m)'
         /\ \A n \in Msgs : SinksOf(n) \subseteq SinksOf(n)'
         /\ \A n \in Msgs : n # m => SinksOf(n)' = SinksOf(n)
         /\ \A n \in Msgs, s \in Sinks :
               <<n, s>> \in resent' => \/ <<n, s>> \in resent
                                       \/ n = m /\ SinksOf(m) # {}
<1> DEFINE sinks  == IF bound[KeyOf[m]] = {} THEN {Unroutable} ELSE bound[KeyOf[m]]
           copies == {m} \X sinks
<1>1. sinks \subseteq Sinks /\ sinks # {}
  BY KeyAssumption DEF IInv, TypeOK, Sinks
<1>2. routed' = routed \cup copies /\ resent' = resent \cup (copies \cap routed)
  BY DEF Route
<1>3. copies \subseteq Msgs \X Sinks
  BY <1>1
<1>4. routed' \subseteq Msgs \X Sinks /\ resent' \subseteq Msgs \X Sinks
  BY <1>2, <1>3 DEF IInv, TypeOK
<1> HIDE DEF sinks
<1>5. SinksOf(m)' # {} /\ sinks \subseteq SinksOf(m)'
  BY <1>1, <1>2 DEF SinksOf
<1>6. \A n \in Msgs : SinksOf(n) \subseteq SinksOf(n)'
  BY <1>2 DEF SinksOf
<1>7. \A n \in Msgs : n # m => SinksOf(n)' = SinksOf(n)
  BY <1>2 DEF SinksOf
<1>8. ASSUME NEW n \in Msgs, NEW s \in Sinks, <<n, s>> \in resent', <<n, s>> \notin resent
      PROVE  n = m /\ SinksOf(m) # {}
  BY <1>2, <1>8 DEF SinksOf
<1>9. BoundTo(m) \subseteq sinks
  BY DEF BoundTo, sinks
<1> QED
  BY <1>4, <1>5, <1>6, <1>7, <1>8, <1>9

\* Both outcomes of a Publish that reached the broker.
LEMMA PublishStep ==
  ASSUME IInv, NEW h \in Handlers, Publish(h) \/ PublishConfirmLost(h)
  PROVE  IInv'
<1>1. cur[h] \in Msgs /\ pc[h] = "publish"
  BY DEF IInv, PcInv, QueueInv, QueueTypeOK, Publish, PublishConfirmLost
<1>2. /\ routed' \subseteq Msgs \X Sinks /\ resent' \subseteq Msgs \X Sinks
      /\ SinksOf(cur[h])' # {} /\ BoundTo(cur[h]) \subseteq SinksOf(cur[h])'
      /\ \A n \in Msgs : SinksOf(n) \subseteq SinksOf(n)'
      /\ \A n \in Msgs : n # cur[h] => SinksOf(n)' = SinksOf(n)
      /\ \A n \in Msgs, s \in Sinks :
            <<n, s>> \in resent' => \/ <<n, s>> \in resent
                                    \/ n = cur[h] /\ SinksOf(cur[h]) # {}
  <2>1. Route(cur[h]) /\ UNCHANGED cur
    BY DEF Publish, PublishConfirmLost, Goto, queueVars
  <2>2. ASSUME NEW m \in Msgs, Route(m), cur[h] = m, UNCHANGED cur
        PROVE  SinksOf(cur[h])' = SinksOf(m)'
    BY <2>2 DEF SinksOf
  <2> QED
    BY <1>1, <2>1, <2>2, RouteCopies
<1>3. /\ UNCHANGED <<where, redelivered, cur, owns, bound, faults>>
      /\ \/ pc' = [pc EXCEPT ![h] = "ack"] /\ confirmLost' = confirmLost
         \/ pc' = [pc EXCEPT ![h] = "nack"] /\ confirmLost' = confirmLost \cup {cur[h]}
  BY DEF Publish, PublishConfirmLost, Goto, queueVars
<1>4. QueueInv'
  BY <1>3, UnchangedInv DEF IInv, queueVars
<1>5. TypeOK'
  BY <1>1, <1>2, <1>3, <1>4 DEF IInv, QueueInv, TypeOK, Steps
<1>6. PcInv' /\ AbsentInv'
  BY <1>1, <1>3, NoMsgAssumption DEF IInv, PcInv, AbsentInv, TypeOK
\* The delivery of a message that was not redelivered is the only one.
<1>7. ASSUME NEW m \in Msgs, m \notin redelivered, m = cur[h]
      PROVE  /\ where[m] = "unacked" /\ SinksOf(m) = {}
             /\ \A g \in Handlers : cur[g] = m => g = h
  BY <1>1, <1>7, NoMsgAssumption DEF IInv, QueueInv, QueueTypeOK, UnroutedInv
<1>8. UnroutedInv'
  <2>1. ASSUME NEW m \in Msgs, m \notin redelivered, where[m] \in {"absent", "queued"}
        PROVE  SinksOf(m)' = {}
    BY <1>2, <1>7, <2>1 DEF IInv, UnroutedInv
  <2>2. ASSUME NEW g \in Handlers, pc'[g] \in {"received", "publish"},
               cur[g] \notin redelivered
        PROVE  SinksOf(cur[g])' = {}
    <3>1. g # h /\ pc[g] = pc'[g] /\ cur[g] \in Msgs
      BY <1>3, <2>2 DEF IInv, PcInv, TypeOK, QueueTypeOK
    <3>2. cur[g] # cur[h] /\ SinksOf(cur[g]) = {}
      BY <1>7, <2>2, <3>1 DEF IInv, UnroutedInv
    <3>3. cur'[g] = cur[g]
      BY <1>3
    <3> QED
      BY <1>2, <3>1, <3>2, <3>3 DEF SinksOf
  <2> QED
    BY <1>3, <2>1, <2>2 DEF UnroutedInv
<1>9. AnswerInv'
  <2>1. ASSUME NEW g \in Handlers, pc'[g] = "ack"
        PROVE  SinksOf(cur[g])' # {} /\ BoundTo(cur[g])' \subseteq SinksOf(cur[g])'
    <3>1. BoundTo(cur[g])' = BoundTo(cur[g]) /\ cur'[g] = cur[g]
      BY <1>3 DEF BoundTo
    <3>2. CASE g = h
      BY <1>2, <3>1, <3>2
    <3>3. CASE g # h
      <4>1. pc[g] = "ack" /\ cur[g] \in Msgs
        BY <1>3, <2>1, <3>3 DEF IInv, PcInv, TypeOK, QueueTypeOK
      <4>2. SinksOf(cur[g]) # {} /\ BoundTo(cur[g]) \subseteq SinksOf(cur[g])
        BY <4>1 DEF IInv, AnswerInv
      <4>3. SinksOf(cur[g]) \subseteq SinksOf(cur[g])'
        <5>1. ASSUME NEW n \in Msgs, n = cur[g], SinksOf(n) \subseteq SinksOf(n)'
              PROVE  SinksOf(cur[g]) \subseteq SinksOf(cur[g])'
          BY <3>1, <5>1 DEF SinksOf
        <5> QED
          BY <1>2, <4>1, <5>1
      <4> QED
        BY <3>1, <4>2, <4>3
    <3> QED
      BY <3>2, <3>3
  <2>2. ASSUME NEW g \in Handlers, pc'[g] = "nack", cur[g] \notin redelivered
        PROVE  SinksOf(cur[g])' = {} \/ cur[g] \in confirmLost'
    <3>1. CASE g = h
      BY <1>1, <1>3, <2>2, <3>1 DEF IInv, TypeOK
    <3>2. CASE g # h
      <4>1. pc[g] = "nack" /\ cur[g] \in Msgs /\ cur[g] # cur[h] /\ cur'[g] = cur[g]
        BY <1>3, <1>7, <2>2, <3>2 DEF IInv, PcInv, TypeOK, QueueTypeOK
      <4>2. SinksOf(cur[g]) = {} \/ cur[g] \in confirmLost
        BY <4>1, <2>2 DEF IInv, AnswerInv, BoundTo
      <4> QED
        BY <1>2, <1>3, <4>1, <4>2 DEF SinksOf
    <3> QED
      BY <3>1, <3>2
  <2> QED
    BY <1>3, <2>1, <2>2 DEF AnswerInv
<1>10. AckedIsRouted' /\ BoundQueueMissesNothing'
  <2>1. AckedIsRouted'
    BY <1>2, <1>3 DEF IInv, AckedIsRouted
  <2>2. \A m \in Msgs, q \in Permanent : <<m, q>> \in routed => <<m, q>> \in routed'
    BY DEF Publish, PublishConfirmLost, Route
  <2> QED
    BY <1>3, <2>1, <2>2 DEF IInv, BoundQueueMissesNothing
<1>11. DuplicateOnlyAfterRedelivery'
  BY <1>2, <1>3, <1>7 DEF IInv, DuplicateOnlyAfterRedelivery
<1>12. DeadIsUnrouted'
  BY <1>2, <1>3, <1>7 DEF IInv, DeadIsUnrouted
<1> QED
  BY <1>4, <1>5, <1>6, <1>8, <1>9, <1>10, <1>11, <1>12 DEF IInv

LEMMA PublishFailsStep ==
  ASSUME IInv, NEW h \in Handlers, PublishFails(h)
  PROVE  IInv'
<1>1. QueueInv'
  BY UnchangedInv DEF IInv, PublishFails, Goto
<1>2. TypeOK'
  BY <1>1 DEF IInv, QueueInv, TypeOK, Steps, PublishFails, Goto, routeVars
<1>3. PcInv' /\ AbsentInv'
  BY DEF IInv, PcInv, AbsentInv, TypeOK, PublishFails, Goto, queueVars
<1>4. UnroutedInv'
  BY DEF IInv, UnroutedInv, TypeOK, PublishFails, Goto, queueVars, SinksOf, routeVars
<1>5. AnswerInv'
  BY DEF IInv, AnswerInv, BoundTo, UnroutedInv, TypeOK, PublishFails, Goto, queueVars, SinksOf,
     routeVars
<1>6. /\ AckedIsRouted' /\ BoundQueueMissesNothing'
      /\ DuplicateOnlyAfterRedelivery' /\ DeadIsUnrouted'
  BY DEF IInv, AckedIsRouted, BoundQueueMissesNothing, DuplicateOnlyAfterRedelivery,
     DeadIsUnrouted, PublishFails, Goto, queueVars, SinksOf, routeVars
<1> QED
  BY <1>1, <1>2, <1>3, <1>4, <1>5, <1>6 DEF IInv

LEMMA AnswerStep ==
  ASSUME IInv, NEW h \in Handlers, Ack(h) \/ Nack(h)
  PROVE  IInv'
<1>1. PICK place \in {"acked", "dead"} :
        /\ Settle(h, place) /\ Return(h)
        /\ place = "acked" => pc[h] = "ack"
        /\ place = "dead" => pc[h] = "nack"
  BY DEF Ack, Nack, msg_Ack, msg_Nack
<1>2. QueueInv'
  BY <1>1, SettleInv DEF IInv
<1>3. TypeOK'
  BY <1>1, <1>2 DEF IInv, QueueInv, TypeOK, Steps, Return, routeVars
<1>4. PcInv'
  BY <1>1, NoMsgAssumption DEF IInv, PcInv, TypeOK, QueueTypeOK, Return, Settle
<1>5. AbsentInv'
  BY <1>1 DEF IInv, AbsentInv, QueueInv, QueueTypeOK, Settle
<1>6. UnroutedInv'
  BY <1>1 DEF IInv, UnroutedInv, TypeOK, QueueTypeOK, Return, Settle, SinksOf, routeVars
<1>7. AnswerInv'
  BY <1>1 DEF IInv, AnswerInv, BoundTo, TypeOK, QueueTypeOK, Return, Settle, SinksOf, routeVars
<1>8. AckedIsRouted' /\ DuplicateOnlyAfterRedelivery' /\ DeadIsUnrouted'
  BY <1>1 DEF IInv, AckedIsRouted, DuplicateOnlyAfterRedelivery, DeadIsUnrouted, AnswerInv,
     TypeOK, QueueTypeOK, Return, Settle, SinksOf, routeVars
<1>9. BoundQueueMissesNothing'
  <2>1. ASSUME NEW m \in Msgs, where'[m] = "acked", where[m] # "acked"
        PROVE  BoundTo(m) \subseteq SinksOf(m)
    BY <1>1, <2>1 DEF IInv, AnswerInv, QueueInv, QueueTypeOK, Settle
  <2>2. UNCHANGED <<bound, routed>>
    BY <1>1 DEF Return, routeVars
  <2> QED
    BY <2>1, <2>2 DEF IInv, BoundQueueMissesNothing, BoundTo, SinksOf
<1> QED
  BY <1>2, <1>3, <1>4, <1>5, <1>6, <1>7, <1>8, <1>9 DEF IInv

\* Panic, Crash and ConsumerTimeout: the broker takes its deliveries back.
LEMMA RequeueStep ==
  ASSUME IInv,
         \/ \E h \in Handlers : Panic(h)
         \/ Crash \/ ConsumerTimeout
  PROVE  IInv'
<1>1. /\ Disconnected \/ TimedOut
      /\ Requeue
      /\ \/ pc' = pc /\ cur' = cur
         \/ pc' = [h \in Handlers |-> "idle"] /\ cur' = [h \in Handlers |-> NoMsg]
      /\ UNCHANGED <<bound, routed, resent, confirmLost>>
  BY DEF Panic, Crash, ConsumerTimeout, Restart, Disconnected, TimedOut, routeVars
<1>2. faults' \in 0 .. MaxFaults
  BY BoundAssumption DEF IInv, TypeOK, Panic, Crash, ConsumerTimeout
<1>3. QueueInv'
  BY <1>1, RequeueInv DEF IInv
<1>4. TypeOK'
  BY <1>1, <1>2, <1>3 DEF IInv, QueueInv, TypeOK, Steps
<1>5. PcInv'
  BY <1>1 DEF IInv, PcInv
<1>6. AbsentInv'
  BY <1>1 DEF IInv, AbsentInv, TypeOK, QueueTypeOK, Requeue, Unacked
<1>7. UnroutedInv'
  BY <1>1 DEF IInv, UnroutedInv, TypeOK, QueueTypeOK, Requeue, Unacked, SinksOf
<1>8. AnswerInv'
  BY <1>1 DEF IInv, AnswerInv, BoundTo, Requeue, Unacked, SinksOf
<1>9. /\ AckedIsRouted' /\ BoundQueueMissesNothing'
      /\ DuplicateOnlyAfterRedelivery' /\ DeadIsUnrouted'
  BY <1>1 DEF IInv, AckedIsRouted, BoundQueueMissesNothing,
     DuplicateOnlyAfterRedelivery, DeadIsUnrouted, TypeOK, QueueTypeOK, Requeue,
     Unacked, SinksOf
<1> QED
  BY <1>3, <1>4, <1>5, <1>6, <1>7, <1>8, <1>9 DEF IInv

\* Bindings come and go, and a step of somebody else.
LEMMA QuietStep ==
  ASSUME IInv, UNCHANGED <<queueVars, pc, routeVars, faults>>,
         bound' \in [Keys -> SUBSET Queues],
         \A k \in Keys : bound'[k] \cap Permanent = bound[k] \cap Permanent
  PROVE  IInv'
<1>1. QueueInv'
  BY UnchangedInv DEF IInv
<1>2. TypeOK'
  BY <1>1 DEF IInv, QueueInv, TypeOK, routeVars
<1>3. \A m \in Msgs : KeyOf[m] \in Keys /\ bound'[KeyOf[m]] \cap Permanent = BoundTo(m)
  BY KeyAssumption DEF BoundTo
<1>4. UNCHANGED <<where, redelivered, cur, owns, pc, routed, resent, confirmLost>>
  BY DEF queueVars, routeVars
<1>5. PcInv' /\ AbsentInv'
  BY <1>4 DEF IInv, PcInv, AbsentInv
<1>6. UnroutedInv'
  BY <1>4 DEF IInv, UnroutedInv, SinksOf
<1>7. AnswerInv'
  <2>1. ASSUME NEW h \in Handlers, pc[h] = "ack"
        PROVE  BoundTo(cur[h])' \subseteq SinksOf(cur[h])
    <3>1. cur[h] \in Msgs
      BY <2>1 DEF IInv, PcInv, TypeOK, QueueTypeOK
    <3>2. BoundTo(cur[h])' = BoundTo(cur[h])
      BY <1>3, <1>4, <3>1 DEF BoundTo
    <3> QED
      BY <2>1, <3>2 DEF IInv, AnswerInv
  <2> QED
    BY <1>4, <2>1 DEF IInv, AnswerInv, SinksOf
<1>8. BoundQueueMissesNothing'
  BY <1>3, <1>4 DEF IInv, BoundQueueMissesNothing, BoundTo
<1>9. AckedIsRouted' /\ DuplicateOnlyAfterRedelivery' /\ DeadIsUnrouted'
  BY <1>4 DEF IInv, AckedIsRouted, DuplicateOnlyAfterRedelivery, DeadIsUnrouted, SinksOf
<1> QED
  BY <1>1, <1>2, <1>5, <1>6, <1>7, <1>8, <1>9 DEF IInv

LEMMA NextIInv ==
  ASSUME IInv, [Next]_vars
  PROVE  IInv'
<1>1. ASSUME NEW k \in Keys, NEW q \in Queues \ Permanent, Rebind(k, q) PROVE IInv'
  <2>1. bound' \in [Keys -> SUBSET Queues]
    BY <1>1 DEF IInv, TypeOK, Rebind
  <2>2. \A l \in Keys : bound'[l] \cap Permanent = bound[l] \cap Permanent
    BY <1>1 DEF IInv, TypeOK, Rebind
  <2> QED
    BY <1>1, <2>1, <2>2, QuietStep DEF Rebind
<1>2. ASSUME UNCHANGED vars PROVE IInv'
  BY <1>2, QuietStep DEF IInv, TypeOK, vars
<1>3. ASSUME NEW h \in Handlers, Handle(h) PROVE IInv'
  BY <1>3, generateRoutingKeyStep, PublishStep, PublishFailsStep, AnswerStep, RequeueStep
  DEF Handle
<1> QED
  BY <1>1, <1>2, <1>3, ReceiveStep, RequeueStep DEF Next

\* What the router does makes no message absent, and no absent one present.
LEMMA AbsentStays ==
  ASSUME IInv, [Next]_vars, NEW m \in Msgs
  PROVE  where'[m] = "absent" <=> where[m] = "absent"
<1>1. ASSUME NEW h \in Handlers, NEW n \in Msgs, Receive(h, n)
      PROVE  where'[m] = "absent" <=> where[m] = "absent"
  BY <1>1 DEF IInv, QueueInv, QueueTypeOK, Receive, Deliver
<1>2. ASSUME NEW h \in Handlers, Ack(h) \/ Nack(h)
      PROVE  where'[m] = "absent" <=> where[m] = "absent"
  BY <1>2 DEF IInv, QueueInv, QueueTypeOK, Ack, Nack, msg_Ack, msg_Nack, Settle
<1>3. ASSUME Requeue PROVE where'[m] = "absent" <=> where[m] = "absent"
  BY <1>3 DEF Requeue, Unacked
<1>4. ASSUME UNCHANGED where PROVE where'[m] = "absent" <=> where[m] = "absent"
  BY <1>4
<1>5. ASSUME NEW h \in Handlers, Handle(h)
      PROVE  where'[m] = "absent" <=> where[m] = "absent"
  BY <1>2, <1>3, <1>4, <1>5
  DEF Handle, generateRoutingKey, Panic, Restart, Disconnected, Publish, PublishFails,
      PublishConfirmLost, Goto, queueVars
<1> QED
  BY <1>1, <1>3, <1>4, <1>5
  DEF Next, Rebind, Crash, ConsumerTimeout, Restart, Disconnected, TimedOut, queueVars, vars

-----------------------------------------------------------------------------
\* The strengthened invariant holds in every reachable state.
THEOREM Invariance == Spec => []IInv
<1>1. Init => IInv
  BY InitIInv DEF Init
<1>2. IInv /\ [Next]_vars => IInv'
  BY NextIInv
<1> QED
  BY <1>1, <1>2, PTL DEF Spec

\* Type correctness of the router.
THEOREM TypeCorrect == Spec => []TypeOK
<1>1. IInv => TypeOK
  BY DEF IInv
<1> QED
  BY <1>1, Invariance, PTL

\* main.go:87-107: the router acks only what Publish has confirmed, and the
\* exchange has an alternate one, so an acked announcement is in a
\* transformer's queue or in the unroutable one, whatever the bindings do.
THEOREM NothingIsDropped == Spec => []AckedIsRouted
<1>1. IInv => AckedIsRouted
  BY DEF IInv
<1> QED
  BY <1>1, Invariance, PTL

\* A transformer that keeps its binding gets a copy of every announcement the
\* router acked, for any number of transformers that come and go beside it.
THEOREM BoundQueuesGetAll == Spec => []BoundQueueMissesNothing
<1>1. IInv => BoundQueueMissesNothing
  BY DEF IInv
<1> QED
  BY <1>1, Invariance, PTL

\* A message is published once per delivery: without redelivery no sink gets
\* a second copy, even when the confirm of the first one is lost.
THEOREM NoSecondCopy == Spec => []DuplicateOnlyAfterRedelivery
<1>1. IInv => DuplicateOnlyAfterRedelivery
  BY DEF IInv
<1> QED
  BY <1>1, Invariance, PTL

\* The router's dead letters can be replayed without making second copies,
\* short of redelivery and lost confirms.
THEOREM DeadLettersAreUnrouted == Spec => []DeadIsUnrouted
<1>1. IInv => DeadIsUnrouted
  BY DEF IInv
<1> QED
  BY <1>1, Invariance, PTL
=============================================================================
