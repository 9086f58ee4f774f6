--------------------------- MODULE ConsumerProofs ---------------------------
(***************************************************************************)
(* What every service built on Consumer may rely on: its invariant is kept *)
(* by each operation of the queue, and a verdict is final.                 *)
(***************************************************************************)
EXTENDS Consumer, TLAPS

\* The broker waits for one goroutine per unacknowledged message, and for
\* every goroutine whose message it has not queued a second time.
QueueInv ==
    /\ QueueTypeOK
    /\ \A h \in owns : cur[h] # NoMsg /\ where[cur[h]] = "unacked"
    /\ \A g, h \in owns : cur[g] = cur[h] => g = h
    /\ \A m \in Msgs : where[m] = "unacked" => \E h \in owns : cur[h] = m
    /\ \A h \in Handlers : cur[h] # NoMsg /\ cur[h] \notin redelivered => h \in owns

LEMMA QueueInitInv ==
  ASSUME NEW S, QueueInit(S)
  PROVE  QueueInv
  BY DEF QueueInit, QueueInv, QueueTypeOK, Places

LEMMA DeliverInv ==
  ASSUME QueueInv, NEW h \in Handlers, NEW m \in Msgs, Deliver(h, m)
  PROVE  QueueInv'
  BY NoMsgAssumption DEF Deliver, QueueInv, QueueTypeOK, Places

LEMMA SettleInv ==
  ASSUME QueueInv, NEW h \in Handlers, NEW place \in {"acked", "dead"}, Settle(h, place)
  PROVE  QueueInv'
  BY NoMsgAssumption DEF Settle, QueueInv, QueueTypeOK, Places

LEMMA RequeueInv ==
  ASSUME QueueInv, Disconnected \/ TimedOut
  PROVE  QueueInv'
  BY NoMsgAssumption
  DEF Disconnected, TimedOut, Requeue, Unacked, QueueInv, QueueTypeOK, Places

LEMMA UnchangedInv ==
  ASSUME QueueInv, UNCHANGED queueVars
  PROVE  QueueInv'
  BY DEF queueVars, QueueInv, QueueTypeOK

LEMMA QueueInvOneOwner == QueueInv => OneOwnerPerDelivery
<1> SUFFICES ASSUME QueueInv, NEW m \in Msgs
             PROVE  where[m] = "unacked" <=>
                      \E h \in owns : cur[h] = m /\ \A g \in owns : cur[g] = m => g = h
  BY DEF OneOwnerPerDelivery
<1>1. ASSUME where[m] = "unacked"
      PROVE  \E h \in owns : cur[h] = m /\ \A g \in owns : cur[g] = m => g = h
  BY <1>1 DEF QueueInv
<1>2. ASSUME NEW h \in owns, cur[h] = m PROVE where[m] = "unacked"
  BY <1>2 DEF QueueInv
<1> QED
  BY <1>1, <1>2

\* No operation of the queue moves a settled message.
LEMMA VerdictStays ==
  ASSUME QueueInv, NEW m \in Msgs, where[m] \in {"acked", "dead"},
         \/ \E h \in Handlers, n \in Msgs : Deliver(h, n)
         \/ \E h \in Handlers : msg_Ack(h) \/ msg_Nack(h)
         \/ Disconnected \/ TimedOut
         \/ UNCHANGED queueVars
  PROVE  where'[m] = where[m]
<1>1. ASSUME NEW h \in Handlers, NEW n \in Msgs, Deliver(h, n) PROVE where'[m] = where[m]
  BY <1>1 DEF Deliver, QueueInv, QueueTypeOK
<1>2. ASSUME NEW h \in Handlers, msg_Ack(h) \/ msg_Nack(h) PROVE where'[m] = where[m]
  BY <1>2 DEF msg_Ack, msg_Nack, Settle, QueueInv, QueueTypeOK
<1>3. ASSUME Requeue PROVE where'[m] = where[m]
  BY <1>3 DEF Requeue, Unacked
<1> QED
  BY <1>1, <1>2, <1>3 DEF Disconnected, TimedOut, queueVars
=============================================================================
