--------------------------- MODULE PipelineProofs ---------------------------
(***************************************************************************)
(* First the writer alone: the safety properties of RawWriter hold for     *)
(* every set of messages, handlers and ObjectIDs and every number of       *)
(* crashes and timeouts.                                                   *)
(*                                                                         *)
(* None of them is inductive.  What makes them so is who may still touch a *)
(* document: a handler holds the document it stored until it announces it  *)
(* or takes it back, no two handlers hold the same one, and a document     *)
(* announced with a confirm (cause "none") is never the target of a        *)
(* rollback.                                                               *)
(*                                                                         *)
(* Then what the writer and the router guarantee together, from what each  *)
(* of them guarantees alone.  All that is added is the hand-over: the      *)
(* router has heard of exactly the documents the writer announced.         *)
(***************************************************************************)
EXTENDS Pipeline, ConsumerProofs

\* A goroutine at work has a message.
PcInv == \A h \in Handlers : pc[h] = "idle" <=> cur[h] = NoMsg

\* Who holds which document.
HoldingInv ==
    /\ \A h \in Handlers : doc[h] # NoDoc <=> pc[h] \in {"convert", "publish", "rollback", "ack"}
    /\ \A h \in Handlers : doc[h] # NoDoc => doc[h] \in lake /\ origin[doc[h]] = cur[h]
    /\ \A g, h \in Handlers : doc[g] = doc[h] /\ doc[g] # NoDoc => g = h
    /\ \A h \in Handlers : pc[h] = "convert" => doc[h] \in Msgs
    /\ \A h \in Handlers : pc[h] \in {"publish", "rollback"} => doc[h] \in Oids

\* Identifiers are used once.
MintInv ==
    /\ \A d \in lake \cup ready : origin[d] # NoMsg
    /\ \A d \in Docs : origin[d] = NoMsg => cause[d] = "none"
    /\ \A m \in Msgs : origin[m] # NoMsg => m \in lake

\* What the handler knows of the document it holds.
AtomInv ==
    /\ \A h \in Handlers : pc[h] \in {"convert", "publish"} =>
          doc[h] \notin ready /\ cause[doc[h]] = "none"
    /\ \A h \in Handlers : pc[h] = "ack" => doc[h] \in ready /\ cause[doc[h]] = "none"
    /\ \A h \in Handlers : pc[h] = "rollback" /\ doc[h] \in ready =>
          cause[doc[h]] = "confirmLost"

\* AckedIsStoredAndAnnounced, with a document no rollback will ever remove.
AckedIsSafe ==
    \A m \in Msgs : where[m] = "acked" =>
        \E d \in lake \cap ready : origin[d] = m /\ cause[d] = "none"

\* Before the insert, a message that was not redelivered has no document.
OnceInv ==
    /\ \A m \in Msgs : m \notin redelivered /\ where[m] = "queued" =>
          \A d \in Docs : origin[d] # m
    /\ \A h \in Handlers : pc[h] \in {"received", "insert"} /\ cur[h] \notin redelivered =>
          \A d \in Docs : origin[d] # cur[h]
    /\ \A m \in Msgs : m \notin redelivered =>
          \A d1, d2 \in Docs : origin[d1] = m /\ origin[d2] = m => d1 = d2

\* On its way to a nack, a handler has announced nothing it knows of.
DeadInv ==
    /\ \A h \in Handlers : pc[h] \in {"rollback", "nack"} /\ cur[h] \notin redelivered =>
          \A d \in ready : origin[d] = cur[h] => cause[d] = "confirmLost"
    /\ \A m \in Msgs : m \notin redelivered /\ where[m] = "dead" =>
          \A d \in ready : origin[d] = m => cause[d] = "confirmLost"

\* The inductive invariant.
IInv ==
    /\ TypeOK
    /\ QueueInv
    /\ PcInv
    /\ HoldingInv
    /\ MintInv
    /\ AtomInv
    /\ AckedIsSafe
    /\ DanglingOnlyAfterLostConfirm
    /\ OrphanHasCause
    /\ OnceInv
    /\ DeadInv

-----------------------------------------------------------------------------
LEMMA InitIInv == Init => IInv
<1> SUFFICES ASSUME Init PROVE IInv
  OBVIOUS
<1>1. QueueInv
  BY QueueInitInv DEF Init
<1> QED
  BY <1>1, NoMsgAssumption, BoundAssumption DEF Init, QueueInit, IInv, QueueInv, TypeOK,
     PcInv, HoldingInv, MintInv, AtomInv, AckedIsSafe, DanglingOnlyAfterLostConfirm,
   OrphanHasCause, OnceInv, DeadInv, Steps, Causes, Docs

\* An identifier InsertOne may use has never identified a document.
LEMMA FreshIdIsUnused ==
  ASSUME IInv, NEW m \in Msgs, NEW d \in FreshId(m)
  PROVE  /\ d \in Docs /\ origin[d] = NoMsg /\ cause[d] = "none"
         /\ d \notin lake /\ d \notin ready
         /\ Class[m] = "ownId" => d \in Msgs
         /\ Class[m] # "ownId" => d \in Oids
  BY DEF IInv, MintInv, FreshId, Docs

LEMMA ReceiveStep ==
  ASSUME IInv, NEW h \in Handlers, NEW m \in Msgs, Receive(h, m)
  PROVE  IInv'
<1>1. QueueInv'
  BY DeliverInv DEF IInv, Receive
<1>2. TypeOK'
  BY <1>1 DEF IInv, QueueInv, TypeOK, Steps, Receive, storeVars, faultVars
<1>3. PcInv'
  BY NoMsgAssumption DEF IInv, PcInv, TypeOK, QueueTypeOK, Receive, Deliver
<1>4. HoldingInv'
  BY DEF IInv, HoldingInv, MintInv, Receive, Deliver, storeVars
<1>5. MintInv'
  BY DEF IInv, MintInv, Receive, storeVars
<1>6. AtomInv'
  BY DEF IInv, AtomInv, Receive, storeVars
<1>7. AckedIsSafe'
  BY DEF IInv, AckedIsSafe, Receive, Deliver, storeVars
<1>8. DanglingOnlyAfterLostConfirm'
  BY DEF IInv, DanglingOnlyAfterLostConfirm, Receive, storeVars
<1>9. OrphanHasCause'
  BY DEF IInv, OrphanHasCause, Held, Receive, storeVars
<1>10. OnceInv'
  BY DEF IInv, OnceInv, QueueInv, QueueTypeOK, Receive, Deliver, storeVars
<1>11. DeadInv'
  BY DEF IInv, DeadInv, PcInv, Receive, Deliver, storeVars
<1> QED
  BY <1>1, <1>2, <1>3, <1>4, <1>5, <1>6, <1>7, <1>8, <1>9, <1>10, <1>11 DEF IInv

LEMMA ValidateStep ==
  ASSUME IInv, NEW h \in Handlers, Validate(h)
  PROVE  IInv'
<1>1. QueueInv'
  BY UnchangedInv DEF IInv, Validate, Goto
<1>2. TypeOK'
  BY <1>1 DEF IInv, QueueInv, TypeOK, Steps, Validate, Goto, storeVars, faultVars
<1>3. PcInv'
  BY DEF IInv, PcInv, Validate, Goto, queueVars
<1>4. HoldingInv'
  BY DEF IInv, HoldingInv, Validate, Goto, queueVars, storeVars
<1>5. MintInv'
  BY DEF IInv, MintInv, Validate, storeVars
<1>6. AtomInv'
  BY DEF IInv, AtomInv, Validate, Goto, storeVars
<1>7. AckedIsSafe'
  BY DEF IInv, AckedIsSafe, Validate, Goto, queueVars, storeVars
<1>8. DanglingOnlyAfterLostConfirm'
  BY DEF IInv, DanglingOnlyAfterLostConfirm, Validate, storeVars
<1>9. OrphanHasCause'
  BY DEF IInv, OrphanHasCause, Held, Validate, storeVars
<1>10. OnceInv'
  BY DEF IInv, OnceInv, Validate, Goto, queueVars, storeVars
<1>11. DeadInv'
  BY DEF IInv, DeadInv, Validate, Goto, queueVars, storeVars
<1> QED
  BY <1>1, <1>2, <1>3, <1>4, <1>5, <1>6, <1>7, <1>8, <1>9, <1>10, <1>11 DEF IInv

LEMMA RejectStep ==
  ASSUME IInv, NEW h \in Handlers, Reject(h)
  PROVE  IInv'
<1>1. QueueInv'
  BY UnchangedInv DEF IInv, Reject, Goto
<1>2. TypeOK'
  BY <1>1 DEF IInv, QueueInv, TypeOK, Steps, Reject, Goto, storeVars, faultVars
<1>3. PcInv'
  BY DEF IInv, PcInv, Reject, Goto, queueVars
<1>4. HoldingInv'
  BY DEF IInv, HoldingInv, Reject, Goto, queueVars, storeVars
<1>5. MintInv'
  BY DEF IInv, MintInv, Reject, storeVars
<1>6. AtomInv'
  BY DEF IInv, AtomInv, Reject, Goto, storeVars
<1>7. AckedIsSafe'
  BY DEF IInv, AckedIsSafe, Reject, Goto, queueVars, storeVars
<1>8. DanglingOnlyAfterLostConfirm'
  BY DEF IInv, DanglingOnlyAfterLostConfirm, Reject, storeVars
<1>9. OrphanHasCause'
  BY DEF IInv, OrphanHasCause, Held, Reject, storeVars
<1>10. OnceInv'
  BY DEF IInv, OnceInv, Reject, Goto, queueVars, storeVars
<1>11. DeadInv'
  BY DEF IInv, DeadInv, OnceInv, TypeOK, Reject, Goto, queueVars, storeVars
<1> QED
  BY <1>1, <1>2, <1>3, <1>4, <1>5, <1>6, <1>7, <1>8, <1>9, <1>10, <1>11 DEF IInv

LEMMA mongoWriteStep ==
  ASSUME IInv, NEW h \in Handlers, mongoWrite(h)
  PROVE  IInv'
<1>1. cur[h] \in Msgs
  BY DEF IInv, PcInv, QueueInv, QueueTypeOK, mongoWrite
<1>2. PICK d \in FreshId(cur[h]) :
           /\ lake' = lake \cup {d}
           /\ origin' = [origin EXCEPT ![d] = cur[h]]
           /\ doc' = [doc EXCEPT ![h] = d]
  BY DEF mongoWrite
<1>3. /\ d \in Docs /\ origin[d] = NoMsg /\ cause[d] = "none"
      /\ d \notin lake /\ d \notin ready
      /\ Class[cur[h]] = "ownId" => d \in Msgs
      /\ Class[cur[h]] # "ownId" => d \in Oids
  BY <1>1, FreshIdIsUnused
<1>4. QueueInv'
  BY UnchangedInv DEF IInv, mongoWrite, Goto
<1>5. TypeOK'
  BY <1>4, <1>1, <1>2, <1>3 DEF IInv, QueueInv, TypeOK, Steps, mongoWrite, Goto,
     queueVars, faultVars
<1>6. PcInv'
  BY <1>1, <1>2, <1>3 DEF IInv, PcInv, mongoWrite, Goto, queueVars
<1>7. HoldingInv'
  BY <1>1, <1>2, <1>3, IdentityAssumption DEF IInv, HoldingInv, TypeOK, mongoWrite,
     Goto, queueVars
<1>8. MintInv'
  BY <1>1, <1>2, <1>3, NoMsgAssumption DEF IInv, MintInv, TypeOK, mongoWrite
<1>9. AtomInv'
  BY <1>1, <1>2, <1>3 DEF IInv, AtomInv, TypeOK, mongoWrite, Goto
<1>10. AckedIsSafe'
  BY <1>1, <1>2, <1>3 DEF IInv, AckedIsSafe, mongoWrite, Goto, queueVars
<1>11. DanglingOnlyAfterLostConfirm'
  BY <1>1, <1>2, <1>3 DEF IInv, DanglingOnlyAfterLostConfirm, mongoWrite
<1>12. OrphanHasCause'
  BY <1>1, <1>2, <1>3, IdentityAssumption DEF IInv, OrphanHasCause, HoldingInv, Held,
     TypeOK, mongoWrite
<1>13. OnceInv'
  BY <1>1, <1>2, <1>3 DEF IInv, OnceInv, QueueInv, TypeOK, mongoWrite, Goto, queueVars
<1>14. DeadInv'
  BY <1>1, <1>2, <1>3 DEF IInv, DeadInv, mongoWrite, Goto, queueVars
<1> QED
  BY <1>4, <1>5, <1>6, <1>7, <1>8, <1>9, <1>10, <1>11, <1>12, <1>13, <1>14 DEF IInv

LEMMA mongoWriteFailsStep ==
  ASSUME IInv, NEW h \in Handlers, mongoWriteFails(h)
  PROVE  IInv'
<1>1. QueueInv'
  BY UnchangedInv DEF IInv, mongoWriteFails, Goto
<1>2. TypeOK'
  BY <1>1 DEF IInv, QueueInv, TypeOK, Steps, mongoWriteFails, Goto, storeVars, faultVars
<1>3. PcInv'
  BY DEF IInv, PcInv, mongoWriteFails, Goto, queueVars
<1>4. HoldingInv'
  BY DEF IInv, HoldingInv, mongoWriteFails, Goto, queueVars, storeVars
<1>5. MintInv'
  BY DEF IInv, MintInv, mongoWriteFails, storeVars
<1>6. AtomInv'
  BY DEF IInv, AtomInv, mongoWriteFails, Goto, storeVars
<1>7. AckedIsSafe'
  BY DEF IInv, AckedIsSafe, mongoWriteFails, Goto, queueVars, storeVars
<1>8. DanglingOnlyAfterLostConfirm'
  BY DEF IInv, DanglingOnlyAfterLostConfirm, mongoWriteFails, storeVars
<1>9. OrphanHasCause'
  BY DEF IInv, OrphanHasCause, Held, mongoWriteFails, storeVars
<1>10. OnceInv'
  BY DEF IInv, OnceInv, mongoWriteFails, Goto, queueVars, storeVars
<1>11. DeadInv'
  BY DEF IInv, DeadInv, OnceInv, TypeOK, mongoWriteFails, Goto, queueVars, storeVars
<1> QED
  BY <1>1, <1>2, <1>3, <1>4, <1>5, <1>6, <1>7, <1>8, <1>9, <1>10, <1>11 DEF IInv

LEMMA mongoWriteReplyLostStep ==
  ASSUME IInv, NEW h \in Handlers, mongoWriteReplyLost(h)
  PROVE  IInv'
<1>1. cur[h] \in Msgs
  BY DEF IInv, PcInv, QueueInv, QueueTypeOK, mongoWriteReplyLost
<1>2. PICK d \in FreshId(cur[h]) :
           /\ lake' = lake \cup {d}
           /\ origin' = [origin EXCEPT ![d] = cur[h]]
           /\ cause' = [cause EXCEPT ![d] = "insertReplyLost"]
  BY DEF mongoWriteReplyLost
<1>3. /\ d \in Docs /\ origin[d] = NoMsg /\ cause[d] = "none"
      /\ d \notin lake /\ d \notin ready
      /\ Class[cur[h]] = "ownId" => d \in Msgs
      /\ Class[cur[h]] # "ownId" => d \in Oids
  BY <1>1, FreshIdIsUnused
<1>4. QueueInv'
  BY UnchangedInv DEF IInv, mongoWriteReplyLost, Goto
<1>5. TypeOK'
  BY <1>4, <1>1, <1>2, <1>3 DEF IInv, QueueInv, TypeOK, Steps, Causes,
     mongoWriteReplyLost, Goto, queueVars, faultVars
<1>6. PcInv'
  BY <1>1, <1>2, <1>3 DEF IInv, PcInv, mongoWriteReplyLost, Goto, queueVars
<1>7. HoldingInv'
  BY <1>1, <1>2, <1>3 DEF IInv, HoldingInv, mongoWriteReplyLost, Goto, queueVars
<1>8. MintInv'
  BY <1>1, <1>2, <1>3, NoMsgAssumption DEF IInv, MintInv, TypeOK, mongoWriteReplyLost
<1>9. AtomInv'
  BY <1>1, <1>2, <1>3 DEF IInv, AtomInv, HoldingInv, mongoWriteReplyLost, Goto
<1>10. AckedIsSafe'
  BY <1>1, <1>2, <1>3 DEF IInv, AckedIsSafe, mongoWriteReplyLost, Goto, queueVars
<1>11. DanglingOnlyAfterLostConfirm'
  BY <1>1, <1>2, <1>3 DEF IInv, DanglingOnlyAfterLostConfirm, mongoWriteReplyLost
<1>12. OrphanHasCause'
  BY <1>1, <1>2, <1>3 DEF IInv, OrphanHasCause, Held, TypeOK, mongoWriteReplyLost
<1>13. OnceInv'
  BY <1>1, <1>2, <1>3 DEF IInv, OnceInv, QueueInv, TypeOK, mongoWriteReplyLost, Goto,
     queueVars
<1>14. DeadInv'
  BY <1>1, <1>2, <1>3 DEF IInv, DeadInv, OnceInv, TypeOK, mongoWriteReplyLost, Goto,
     queueVars
<1> QED
  BY <1>4, <1>5, <1>6, <1>7, <1>8, <1>9, <1>10, <1>11, <1>12, <1>13, <1>14 DEF IInv

LEMMA PublishStep ==
  ASSUME IInv, NEW h \in Handlers, Publish(h)
  PROVE  IInv'
<1>1. QueueInv'
  BY UnchangedInv DEF IInv, Publish, Goto
<1>2. TypeOK'
  BY <1>1 DEF IInv, QueueInv, TypeOK, Steps, Publish, Goto, queueVars, faultVars,
     HoldingInv
<1>3. PcInv'
  BY DEF IInv, PcInv, Publish, Goto, queueVars
<1>4. HoldingInv'
  BY DEF IInv, HoldingInv, Publish, Goto, queueVars
<1>5. MintInv'
  BY DEF IInv, MintInv, HoldingInv, Publish
<1>6. AtomInv'
  BY DEF IInv, AtomInv, HoldingInv, TypeOK, Publish, Goto
<1>7. AckedIsSafe'
  BY DEF IInv, AckedIsSafe, Publish, Goto, queueVars
<1>8. DanglingOnlyAfterLostConfirm'
  BY DEF IInv, DanglingOnlyAfterLostConfirm, HoldingInv, Publish
<1>9. OrphanHasCause'
  BY DEF IInv, OrphanHasCause, Held, Publish
<1>10. OnceInv'
  BY DEF IInv, OnceInv, Publish, Goto, queueVars
<1>11. DeadInv'
  BY DEF IInv, DeadInv, QueueInv, PcInv, HoldingInv, Publish, Goto, queueVars
<1> QED
  BY <1>1, <1>2, <1>3, <1>4, <1>5, <1>6, <1>7, <1>8, <1>9, <1>10, <1>11 DEF IInv

LEMMA PublishFailsStep ==
  ASSUME IInv, NEW h \in Handlers, PublishFails(h)
  PROVE  IInv'
<1>1. QueueInv'
  BY UnchangedInv DEF IInv, PublishFails, Goto
<1>2. TypeOK'
  BY <1>1 DEF IInv, QueueInv, TypeOK, Steps, PublishFails, Goto, storeVars, faultVars
<1>3. PcInv'
  BY DEF IInv, PcInv, PublishFails, Goto, queueVars
<1>4. HoldingInv'
  BY DEF IInv, HoldingInv, PublishFails, Goto, queueVars, storeVars
<1>5. MintInv'
  BY DEF IInv, MintInv, PublishFails, storeVars
<1>6. AtomInv'
  BY DEF IInv, AtomInv, PublishFails, Goto, storeVars
<1>7. AckedIsSafe'
  BY DEF IInv, AckedIsSafe, PublishFails, Goto, queueVars, storeVars
<1>8. DanglingOnlyAfterLostConfirm'
  BY DEF IInv, DanglingOnlyAfterLostConfirm, PublishFails, storeVars
<1>9. OrphanHasCause'
  BY DEF IInv, OrphanHasCause, Held, PublishFails, storeVars
<1>10. OnceInv'
  BY DEF IInv, OnceInv, PublishFails, Goto, queueVars, storeVars
<1>11. DeadInv'
  BY DEF IInv, DeadInv, PcInv, AtomInv, HoldingInv, OnceInv, TypeOK, PublishFails, Goto,
     queueVars, storeVars
<1> QED
  BY <1>1, <1>2, <1>3, <1>4, <1>5, <1>6, <1>7, <1>8, <1>9, <1>10, <1>11 DEF IInv

LEMMA PublishConfirmLostStep ==
  ASSUME IInv, NEW h \in Handlers, PublishConfirmLost(h)
  PROVE  IInv'
<1>1. QueueInv'
  BY UnchangedInv DEF IInv, PublishConfirmLost, Goto
<1>2. TypeOK'
  BY <1>1 DEF IInv, QueueInv, TypeOK, Steps, Causes, PublishConfirmLost, Goto,
     queueVars, faultVars, HoldingInv
<1>3. PcInv'
  BY DEF IInv, PcInv, PublishConfirmLost, Goto, queueVars
<1>4. HoldingInv'
  BY DEF IInv, HoldingInv, PublishConfirmLost, Goto, queueVars
<1>5. MintInv'
  BY DEF IInv, MintInv, HoldingInv, PublishConfirmLost
<1>6. AtomInv'
  BY DEF IInv, AtomInv, HoldingInv, TypeOK, PublishConfirmLost, Goto
<1>7. AckedIsSafe'
  BY DEF IInv, AckedIsSafe, AtomInv, PublishConfirmLost, Goto, queueVars
<1>8. DanglingOnlyAfterLostConfirm'
  BY DEF IInv, DanglingOnlyAfterLostConfirm, HoldingInv, PublishConfirmLost
<1>9. OrphanHasCause'
  BY DEF IInv, OrphanHasCause, Held, PublishConfirmLost
<1>10. OnceInv'
  BY DEF IInv, OnceInv, PublishConfirmLost, Goto, queueVars
<1>11. DeadInv'
  BY DEF IInv, DeadInv, PcInv, HoldingInv, OnceInv, TypeOK, PublishConfirmLost, Goto,
     queueVars
<1> QED
  BY <1>1, <1>2, <1>3, <1>4, <1>5, <1>6, <1>7, <1>8, <1>9, <1>10, <1>11 DEF IInv

LEMMA mongoDeleteStep ==
  ASSUME IInv, NEW h \in Handlers, mongoDelete(h)
  PROVE  IInv'
<1>1. QueueInv'
  BY UnchangedInv DEF IInv, mongoDelete, Goto
<1>2. TypeOK'
  BY <1>1 DEF IInv, QueueInv, TypeOK, Steps, mongoDelete, Goto, faultVars
<1>3. PcInv'
  BY DEF IInv, PcInv, mongoDelete, Goto, queueVars
<1>4. HoldingInv'
  BY DEF IInv, HoldingInv, TypeOK, mongoDelete, Goto, queueVars
<1>5. MintInv'
  BY IdentityAssumption DEF IInv, MintInv, HoldingInv, mongoDelete
<1>6. AtomInv'
  BY DEF IInv, AtomInv, TypeOK, mongoDelete, Goto
<1>7. AckedIsSafe'
  BY DEF IInv, AckedIsSafe, AtomInv, mongoDelete, Goto, queueVars
<1>8. DanglingOnlyAfterLostConfirm'
  BY DEF IInv, DanglingOnlyAfterLostConfirm, AtomInv, mongoDelete
<1>9. OrphanHasCause'
  BY DEF IInv, OrphanHasCause, Held, mongoDelete
<1>10. OnceInv'
  BY DEF IInv, OnceInv, mongoDelete, Goto, queueVars
<1>11. DeadInv'
  BY DEF IInv, DeadInv, mongoDelete, Goto, queueVars
<1> QED
  BY <1>1, <1>2, <1>3, <1>4, <1>5, <1>6, <1>7, <1>8, <1>9, <1>10, <1>11 DEF IInv

LEMMA mongoDeleteFailsStep ==
  ASSUME IInv, NEW h \in Handlers, mongoDeleteFails(h)
  PROVE  IInv'
<1>1. QueueInv'
  BY UnchangedInv DEF IInv, mongoDeleteFails, Goto
<1>2. TypeOK'
  BY <1>1 DEF IInv, QueueInv, TypeOK, Steps, Causes, mongoDeleteFails, Goto, faultVars
<1>3. PcInv'
  BY DEF IInv, PcInv, mongoDeleteFails, Goto, queueVars
<1>4. HoldingInv'
  BY DEF IInv, HoldingInv, TypeOK, mongoDeleteFails, Goto, queueVars
<1>5. MintInv'
  BY DEF IInv, MintInv, HoldingInv, mongoDeleteFails
<1>6. AtomInv'
  BY DEF IInv, AtomInv, HoldingInv, TypeOK, mongoDeleteFails, Goto
<1>7. AckedIsSafe'
  BY DEF IInv, AckedIsSafe, mongoDeleteFails, Goto, queueVars
<1>8. DanglingOnlyAfterLostConfirm'
  BY DEF IInv, DanglingOnlyAfterLostConfirm, mongoDeleteFails
<1>9. OrphanHasCause'
  BY DEF IInv, OrphanHasCause, Held, TypeOK, mongoDeleteFails
<1>10. OnceInv'
  BY DEF IInv, OnceInv, mongoDeleteFails, Goto, queueVars
<1>11. DeadInv'
  BY DEF IInv, DeadInv, mongoDeleteFails, Goto, queueVars
<1> QED
  BY <1>1, <1>2, <1>3, <1>4, <1>5, <1>6, <1>7, <1>8, <1>9, <1>10, <1>11 DEF IInv

LEMMA AckStep ==
  ASSUME IInv, NEW h \in Handlers, Ack(h)
  PROVE  IInv'
<1>1. QueueInv'
  BY SettleInv DEF IInv, Ack, msg_Ack
<1>2. TypeOK'
  BY <1>1 DEF IInv, QueueInv, TypeOK, Steps, Ack, Return, storeVars, faultVars
<1>3. PcInv'
  BY DEF IInv, PcInv, TypeOK, QueueTypeOK, Ack, Return, msg_Ack, Settle
<1>4. HoldingInv'
  BY DEF IInv, HoldingInv, TypeOK, Ack, Return, msg_Ack, Settle, storeVars
<1>5. MintInv'
  BY DEF IInv, MintInv, Ack, Return, storeVars
<1>6. AtomInv'
  BY DEF IInv, AtomInv, TypeOK, Ack, Return, storeVars
<1>7. AckedIsSafe'
  BY DEF IInv, AckedIsSafe, AtomInv, HoldingInv, Ack, Return, msg_Ack, Settle, storeVars
<1>8. DanglingOnlyAfterLostConfirm'
  BY DEF IInv, DanglingOnlyAfterLostConfirm, Ack, Return, storeVars
<1>9. OrphanHasCause'
  BY DEF IInv, OrphanHasCause, Held, AtomInv, Ack, Return, storeVars
<1>10. OnceInv'
  BY DEF IInv, OnceInv, Ack, Return, msg_Ack, Settle, storeVars
<1>11. DeadInv'
  BY DEF IInv, DeadInv, Ack, Return, msg_Ack, Settle, storeVars
<1> QED
  BY <1>1, <1>2, <1>3, <1>4, <1>5, <1>6, <1>7, <1>8, <1>9, <1>10, <1>11 DEF IInv

LEMMA NackStep ==
  ASSUME IInv, NEW h \in Handlers, Nack(h)
  PROVE  IInv'
<1>1. QueueInv'
  BY SettleInv DEF IInv, Nack, msg_Nack
<1>2. TypeOK'
  BY <1>1 DEF IInv, QueueInv, TypeOK, Steps, Nack, Return, storeVars, faultVars
<1>3. PcInv'
  BY DEF IInv, PcInv, TypeOK, QueueTypeOK, Nack, Return, msg_Nack, Settle
<1>4. HoldingInv'
  BY DEF IInv, HoldingInv, Nack, Return, msg_Nack, Settle, storeVars
<1>5. MintInv'
  BY DEF IInv, MintInv, Nack, Return, storeVars
<1>6. AtomInv'
  BY DEF IInv, AtomInv, Nack, Return, storeVars
<1>7. AckedIsSafe'
  BY DEF IInv, AckedIsSafe, Nack, Return, msg_Nack, Settle, storeVars
<1>8. DanglingOnlyAfterLostConfirm'
  BY DEF IInv, DanglingOnlyAfterLostConfirm, Nack, Return, storeVars
<1>9. OrphanHasCause'
  BY DEF IInv, OrphanHasCause, HoldingInv, Held, Nack, Return, storeVars
<1>10. OnceInv'
  BY DEF IInv, OnceInv, Nack, Return, msg_Nack, Settle, storeVars
<1>11. DeadInv'
  BY DEF IInv, DeadInv, MintInv, Nack, Return, msg_Nack, Settle, storeVars
<1> QED
  BY <1>1, <1>2, <1>3, <1>4, <1>5, <1>6, <1>7, <1>8, <1>9, <1>10, <1>11 DEF IInv

LEMMA RestartStep ==
  ASSUME IInv, crashes' \in 0 .. MaxCrashes, timeouts' = timeouts, Restart
  PROVE  IInv'
<1>1. QueueInv'
  BY RequeueInv DEF IInv, Restart
<1>2. TypeOK'
  BY <1>1 DEF IInv, QueueInv, TypeOK, Steps, Causes, Restart
<1>3. PcInv'
  BY DEF PcInv, Restart, Disconnected
<1>4. HoldingInv'
  BY DEF HoldingInv, Restart
<1>5. MintInv'
  BY IdentityAssumption DEF IInv, MintInv, HoldingInv, Restart
<1>6. AtomInv'
  BY DEF AtomInv, Restart
<1>7. AckedIsSafe'
  <2> SUFFICES ASSUME NEW m \in Msgs, where'[m] = "acked"
               PROVE  \E d \in lake' \cap ready' : origin'[d] = m /\ cause'[d] = "none"
    BY DEF AckedIsSafe
  <2>1. where[m] = "acked"
    BY DEF Restart, Disconnected, Requeue
  <2>2. PICK d \in lake \cap ready : origin[d] = m /\ cause[d] = "none"
    BY <2>1 DEF IInv, AckedIsSafe
  <2>3. d \in Docs /\ cause'[d] = "none"
    BY <2>2 DEF IInv, TypeOK, Restart
  <2> QED
    BY <2>2, <2>3 DEF Restart
<1>8. DanglingOnlyAfterLostConfirm'
  BY DEF IInv, DanglingOnlyAfterLostConfirm, TypeOK, Restart
<1>9. OrphanHasCause'
  BY DEF IInv, OrphanHasCause, Held, TypeOK, Restart
<1>10. OnceInv'
  BY DEF IInv, OnceInv, Restart, Disconnected, Requeue
<1>11. DeadInv'
  BY DEF IInv, DeadInv, TypeOK, Restart, Disconnected, Requeue
<1> QED
  BY <1>1, <1>2, <1>3, <1>4, <1>5, <1>6, <1>7, <1>8, <1>9, <1>10, <1>11 DEF IInv

LEMMA ConsumerTimeoutStep ==
  ASSUME IInv, ConsumerTimeout
  PROVE  IInv'
<1>1. QueueInv'
  BY RequeueInv DEF IInv, ConsumerTimeout
<1>2. TypeOK'
  BY <1>1, BoundAssumption DEF IInv, QueueInv, TypeOK, ConsumerTimeout, storeVars
<1>3. PcInv'
  BY DEF IInv, PcInv, ConsumerTimeout, TimedOut
<1>4. HoldingInv'
  BY DEF IInv, HoldingInv, ConsumerTimeout, TimedOut, storeVars
<1>5. MintInv'
  BY DEF IInv, MintInv, ConsumerTimeout, storeVars
<1>6. AtomInv'
  BY DEF IInv, AtomInv, ConsumerTimeout, storeVars
<1>7. AckedIsSafe'
  BY DEF IInv, AckedIsSafe, ConsumerTimeout, TimedOut, Requeue, storeVars
<1>8. DanglingOnlyAfterLostConfirm'
  BY DEF IInv, DanglingOnlyAfterLostConfirm, ConsumerTimeout, storeVars
<1>9. OrphanHasCause'
  BY DEF IInv, OrphanHasCause, Held, ConsumerTimeout, storeVars
<1>10. OnceInv'
  BY DEF IInv, OnceInv, ConsumerTimeout, TimedOut, Requeue, storeVars
<1>11. DeadInv'
  BY DEF IInv, DeadInv, ConsumerTimeout, TimedOut, Requeue, storeVars
<1> QED
  BY <1>1, <1>2, <1>3, <1>4, <1>5, <1>6, <1>7, <1>8, <1>9, <1>10, <1>11 DEF IInv

-----------------------------------------------------------------------------
LEMMA NextIInv == IInv /\ [Next]_vars => IInv'
<1> SUFFICES ASSUME IInv, [Next]_vars PROVE IInv'
  OBVIOUS
<1>1. ASSUME NEW h \in Handlers, NEW m \in Msgs, Receive(h, m) PROVE IInv'
  BY <1>1, ReceiveStep
<1>2. ASSUME NEW h \in Handlers, Handle(h) PROVE IInv'
  <2>1. CASE Panic(h)
    <3>1. crashes' \in 0 .. MaxCrashes /\ timeouts' = timeouts /\ Restart
      BY <2>1 DEF Panic, faultVars, IInv, TypeOK
    <3> QED
      BY <3>1, RestartStep
  <2> QED
    BY <1>2, <2>1, ValidateStep, RejectStep, mongoWriteStep, mongoWriteFailsStep,
       mongoWriteReplyLostStep, PublishStep, PublishFailsStep, PublishConfirmLostStep,
   mongoDeleteStep, mongoDeleteFailsStep, AckStep, NackStep DEF Handle
<1>3. CASE Crash
  <2>1. crashes' \in 0 .. MaxCrashes /\ timeouts' = timeouts /\ Restart
    BY <1>3, BoundAssumption DEF Crash, IInv, TypeOK
  <2> QED
    BY <2>1, RestartStep
<1>4. CASE ConsumerTimeout
  BY <1>4, ConsumerTimeoutStep
<1>5. CASE UNCHANGED vars
  BY <1>5, UnchangedInv DEF vars, queueVars, storeVars, faultVars, IInv, TypeOK,
     QueueTypeOK, PcInv, HoldingInv, MintInv, AtomInv, AckedIsSafe,
   DanglingOnlyAfterLostConfirm, OrphanHasCause, Held, OnceInv, DeadInv
<1> QED
  BY <1>1, <1>2, <1>3, <1>4, <1>5 DEF Next

THEOREM Invariance == Spec => []IInv
  BY InitIInv, NextIInv, PTL DEF Spec

\* Every variable keeps its type.
THEOREM TypeCorrect == Spec => []TypeOK
<1>1. IInv => TypeOK
  BY DEF IInv
<1> QED
  BY <1>1, Invariance, PTL

\* No loss: what the writer acked is stored and announced, for good.
THEOREM NoLoss == Spec => []AckedIsStoredAndAnnounced
<1>1. IInv => AckedIsStoredAndAnnounced
  BY DEF IInv, AckedIsSafe, AckedIsStoredAndAnnounced
<1> QED
  BY <1>1, Invariance, PTL

\* Announcements resolve, but for the one race of a lost confirm.
THEOREM AnnouncementsResolve == Spec => []DanglingOnlyAfterLostConfirm
<1>1. IInv => DanglingOnlyAfterLostConfirm
  BY DEF IInv
<1> QED
  BY <1>1, Invariance, PTL

\* The Atom is atomic, but for the three faults that escape its rollback.
THEOREM AtomIsAtomic == Spec => []OrphanHasCause
<1>1. IInv => OrphanHasCause
  BY DEF IInv
<1> QED
  BY <1>1, Invariance, PTL

\* One delivery stores one document.
THEOREM StoredOnce == Spec => []StoredOnceUnlessRedelivered
<1>1. IInv => StoredOnceUnlessRedelivered
  BY DEF IInv, OnceInv, StoredOnceUnlessRedelivered, DocsOf
<1> QED
  BY <1>1, Invariance, PTL

\* Replaying the dead letter queue makes no duplicate of a message that was
\* delivered once and whose confirm was not lost.
THEOREM DeadLettersAreUnannounced == Spec => []DeadIsUnannounced
<1>1. IInv => DeadIsUnannounced
  BY DEF IInv, DeadInv, DeadIsUnannounced, DocsOf
<1> QED
  BY <1>1, Invariance, PTL

\* The broker waits for one handler per unacknowledged message.
THEOREM OneOwner == Spec => []OneOwnerPerDelivery
<1>1. IInv => OneOwnerPerDelivery
  BY QueueInvOneOwner DEF IInv
<1> QED
  BY <1>1, Invariance, PTL

\* The first verdict on a message is the last.
THEOREM VerdictIsFinal == Spec => SettledIsFinal
<1>1. IInv /\ [Next]_vars =>
        [\A m \in Msgs : where[m] \in {"acked", "dead"} => where'[m] = where[m]]_queueVars
  <2> SUFFICES ASSUME IInv, [Next]_vars, NEW m \in Msgs, where[m] \in {"acked", "dead"}
               PROVE  where'[m] = where[m]
    OBVIOUS
  <2>1. QueueInv
    BY DEF IInv
  <2>2. CASE \E h \in Handlers, n \in Msgs : Receive(h, n)
    BY <2>1, <2>2, VerdictStays DEF Receive
  <2>3. ASSUME NEW h \in Handlers, Ack(h) \/ Nack(h) PROVE where'[m] = where[m]
    BY <2>1, <2>3, VerdictStays DEF Ack, Nack
  <2>4. CASE Restart \/ ConsumerTimeout
    BY <2>1, <2>4, VerdictStays DEF Restart, ConsumerTimeout
  <2>5. ASSUME UNCHANGED queueVars PROVE where'[m] = where[m]
    BY <2>1, <2>5, VerdictStays
  <2> QED
    BY <2>2, <2>3, <2>4, <2>5 DEF Next, Handle, Crash, Panic, Validate, Reject,
       mongoWrite, mongoWriteFails, mongoWriteReplyLost, Publish, PublishFails,
   PublishConfirmLost, mongoDelete, mongoDeleteFails, Goto, vars
<1> QED
  BY <1>1, Invariance, PTL DEF Spec, SettledIsFinal

-----------------------------------------------------------------------------
(***************************************************************************)
(* RawWriter implements IngestContract: every step of the writer maps to a *)
(* step of the contract or leaves its variables alone.                     *)
(***************************************************************************)
\* Storing a document that was never announced announces nothing.
LEMMA InsertAnnouncesNothing ==
  ASSUME IInv, NEW m \in Msgs, NEW d \in FreshId(m),
         lake' = lake \cup {d}, ready' = ready, origin' = [origin EXCEPT ![d] = m]
  PROVE  Announced' = Announced
<1>1. d \in Docs /\ d \notin ready
  BY FreshIdIsUnused DEF IInv, MintInv
<1>2. lake' \cap ready' = lake \cap ready
  BY <1>1
<1>3. \A e \in lake \cap ready : origin'[e] = origin[e]
  BY <1>1 DEF IInv, TypeOK
<1> QED
  BY <1>2, <1>3 DEF Announced

\* Announcing a stored document adds its message and no other.
LEMMA AnnouncementAddsMessage ==
  ASSUME IInv, NEW h \in Handlers, pc[h] = "publish",
         lake' = lake, ready' = ready \cup {doc[h]}, origin' = origin
  PROVE  cur[h] \in Msgs /\ Announced' = Announced \cup {cur[h]}
<1>1. doc[h] \in lake /\ origin[doc[h]] = cur[h]
  BY DEF IInv, HoldingInv
<1>2. cur[h] \in Msgs
  BY DEF IInv, TypeOK, QueueTypeOK, PcInv
<1> QED
  BY <1>1, <1>2 DEF Announced

\* A rollback takes back at most the message of its handler, and never one
\* that was acked.
LEMMA RollbackWithdraws ==
  ASSUME IInv, IInv', NEW h \in Handlers, pc[h] = "rollback", where' = where,
         lake' = lake \ {doc[h]}, ready' = ready, origin' = origin
  PROVE  /\ cur[h] \in Msgs
         /\ \/ Announced' = Announced
            \/ Announced' = Announced \ {cur[h]} /\ where[cur[h]] # "acked"
<1>1. origin[doc[h]] = cur[h]
  BY DEF IInv, HoldingInv
<1>2. cur[h] \in Msgs
  BY DEF IInv, TypeOK, QueueTypeOK, PcInv
<1>3. \A m \in Msgs : m # cur[h] => (m \in Announced' <=> m \in Announced)
  BY <1>1 DEF Announced
<1>4. cur[h] \in Announced' => cur[h] \in Announced
  BY DEF Announced
<1>5. where[cur[h]] = "acked" => cur[h] \in Announced'
  BY <1>2 DEF IInv, AckedIsSafe, Announced
<1>6. Announced \subseteq Msgs /\ Announced' \subseteq Msgs
  BY DEF Announced
<1>7. CASE cur[h] \in Announced'
  BY <1>2, <1>3, <1>4, <1>6, <1>7
<1>8. CASE cur[h] \notin Announced'
  <2>1. Announced' = Announced \ {cur[h]}
    BY <1>3, <1>6, <1>8
  <2> QED
    BY <1>2, <1>5, <1>8, <2>1
<1> QED
  BY <1>7, <1>8

\* Queueing unacknowledged messages again is no verdict.
LEMMA RequeueIsNoVerdict == Requeue => Verdict' = Verdict
  BY DEF Requeue, Unacked, Verdict

LEMMA InitRefines == Init => Contract!Init
<1> SUFFICES ASSUME Init PROVE Contract!Init
  OBVIOUS
<1>1. Announced = {}
  BY DEF Init, Announced
<1>2. Verdict = [m \in Msgs |-> "pending"]
  BY DEF Init, QueueInit, Verdict
<1> QED
  BY <1>1, <1>2 DEF Contract!Init

LEMMA StepRefines == IInv /\ IInv' /\ [Next]_vars => [Contract!Next]_(Contract!vars)
<1> SUFFICES ASSUME IInv, IInv', [Next]_vars
             PROVE  Contract!Next \/ UNCHANGED <<Announced, Verdict>>
  BY DEF Contract!vars
<1> USE DEF storeVars, queueVars
<1>1. ASSUME UNCHANGED <<where, lake, origin, ready>>
      PROVE  UNCHANGED <<Announced, Verdict>>
  BY <1>1 DEF Announced, Verdict
<1>2. ASSUME NEW h \in Handlers, NEW m \in Msgs, Receive(h, m)
      PROVE  UNCHANGED <<Announced, Verdict>>
  <2>1. Verdict' = Verdict
    BY <1>2 DEF Receive, Deliver, Verdict, IInv, TypeOK, QueueTypeOK
  <2> QED
    BY <1>2, <2>1 DEF Receive, Announced
<1>3. ASSUME NEW h \in Handlers,
             \/ Validate(h) \/ Reject(h) \/ mongoWriteFails(h) \/ PublishFails(h)
             \/ mongoDeleteFails(h)
      PROVE  UNCHANGED <<Announced, Verdict>>
  BY <1>1, <1>3
  DEF Validate, Reject, mongoWriteFails, PublishFails, mongoDeleteFails, Goto
<1>4. ASSUME NEW h \in Handlers, mongoWrite(h) \/ mongoWriteReplyLost(h)
      PROVE  UNCHANGED <<Announced, Verdict>>
  <2>1. cur[h] \in Msgs
    BY <1>4 DEF mongoWrite, mongoWriteReplyLost, IInv, TypeOK, QueueTypeOK, PcInv
  <2>2. PICK d \in FreshId(cur[h]) : /\ lake' = lake \cup {d}
                                     /\ origin' = [origin EXCEPT ![d] = cur[h]]
    BY <1>4 DEF mongoWrite, mongoWriteReplyLost
  <2>3. ready' = ready /\ where' = where
    BY <1>4 DEF mongoWrite, mongoWriteReplyLost, Goto
  <2> QED
    BY <2>1, <2>2, <2>3, InsertAnnouncesNothing DEF Verdict
<1>5. ASSUME NEW h \in Handlers, Publish(h) \/ PublishConfirmLost(h)
      PROVE  Contract!Next
  <2>1. /\ pc[h] = "publish"
        /\ lake' = lake /\ ready' = ready \cup {doc[h]} /\ origin' = origin
        /\ where' = where
    BY <1>5 DEF Publish, PublishConfirmLost, Goto
  <2>2. cur[h] \in Msgs /\ Announced' = Announced \cup {cur[h]}
    BY <2>1, AnnouncementAddsMessage
  <2>3. Verdict' = Verdict
    BY <2>1 DEF Verdict
  <2> QED
    BY <2>2, <2>3 DEF Contract!Next, Contract!Announce
<1>6. ASSUME NEW h \in Handlers, mongoDelete(h)
      PROVE  Contract!Next \/ UNCHANGED <<Announced, Verdict>>
  <2>1. /\ pc[h] = "rollback" /\ where' = where
        /\ lake' = lake \ {doc[h]} /\ ready' = ready /\ origin' = origin
    BY <1>6 DEF mongoDelete, Goto
  <2>2. /\ cur[h] \in Msgs
        /\ \/ Announced' = Announced
           \/ Announced' = Announced \ {cur[h]} /\ where[cur[h]] # "acked"
    BY <2>1, RollbackWithdraws
  <2>3. Verdict' = Verdict
    BY <2>1 DEF Verdict
  <2>4. CASE Announced' = Announced \ {cur[h]} /\ where[cur[h]] # "acked"
    <3>1. Verdict[cur[h]] # "accepted"
      BY <2>2, <2>4 DEF Verdict
    <3> QED
      BY <2>2, <2>3, <2>4, <3>1 DEF Contract!Next, Contract!Withdraw
  <2> QED
    BY <2>2, <2>3, <2>4
<1>7. ASSUME NEW h \in Handlers, Ack(h)
      PROVE  Contract!Next \/ UNCHANGED <<Announced, Verdict>>
  <2>1. Announced' = Announced
    BY <1>7 DEF Ack, Return, Announced
  <2>2. CASE h \notin owns
    BY <1>1, <1>7, <2>2 DEF Ack, Return, msg_Ack, Settle
  <2>3. CASE h \in owns
    <3>1. cur[h] \in Msgs /\ where[cur[h]] = "unacked"
      BY <2>3 DEF IInv, QueueInv, QueueTypeOK
    <3>2. cur[h] \in Announced
      BY <1>7, <3>1 DEF Ack, IInv, HoldingInv, AtomInv, Announced
    <3>3. where' = [where EXCEPT ![cur[h]] = "acked"]
      BY <1>7, <2>3 DEF Ack, msg_Ack, Settle
    <3>4. /\ Verdict[cur[h]] = "pending"
          /\ Verdict' = [Verdict EXCEPT ![cur[h]] = "accepted"]
      BY <3>1, <3>3 DEF Verdict, IInv, TypeOK, QueueTypeOK
    <3> QED
      BY <2>1, <3>1, <3>2, <3>4 DEF Contract!Next, Contract!Accept
  <2> QED
    BY <2>2, <2>3
<1>8. ASSUME NEW h \in Handlers, Nack(h)
      PROVE  Contract!Next \/ UNCHANGED <<Announced, Verdict>>
  <2>1. Announced' = Announced
    BY <1>8 DEF Nack, Return, Announced
  <2>2. CASE h \notin owns
    BY <1>1, <1>8, <2>2 DEF Nack, Return, msg_Nack, Settle
  <2>3. CASE h \in owns
    <3>1. cur[h] \in Msgs /\ where[cur[h]] = "unacked"
      BY <2>3 DEF IInv, QueueInv, QueueTypeOK
    <3>2. where' = [where EXCEPT ![cur[h]] = "dead"]
      BY <1>8, <2>3 DEF Nack, msg_Nack, Settle
    <3>3. /\ Verdict[cur[h]] = "pending"
          /\ Verdict' = [m \in Msgs |-> IF m \in {cur[h]} THEN "refused" ELSE Verdict[m]]
      BY <3>1, <3>2 DEF Verdict, IInv, TypeOK, QueueTypeOK
    <3>4. Contract!Refuse({cur[h]})
      BY <2>1, <3>3 DEF Contract!Refuse
    <3>5. {cur[h]} \in SUBSET Msgs
      BY <3>1
    <3> QED
      BY <3>4, <3>5 DEF Contract!Next
  <2> QED
    BY <2>2, <2>3
<1>9. ASSUME Restart \/ ConsumerTimeout
      PROVE  UNCHANGED <<Announced, Verdict>>
  <2>1. Announced' = Announced
    BY <1>9 DEF Restart, ConsumerTimeout, Announced
  <2> QED
    BY <1>9, <2>1, RequeueIsNoVerdict DEF Restart, Disconnected, ConsumerTimeout, TimedOut
<1>10. CASE UNCHANGED vars
  BY <1>1, <1>10 DEF vars
<1>11. ASSUME NEW h \in Handlers, Handle(h)
       PROVE  Contract!Next \/ UNCHANGED <<Announced, Verdict>>
  BY <1>3, <1>4, <1>5, <1>6, <1>7, <1>8, <1>9, <1>11 DEF Handle, Panic
<1> QED
  BY <1>2, <1>9, <1>10, <1>11 DEF Next, Crash

\* Refinement.  Whatever fails inside, what a collector and a transformer can
\* see of the writer is what the contract allows: accepted means announced for
\* good, and only what was not accepted is ever taken back.
THEOREM RefinesContract == Spec => ImplementsContract
<1>1. Init => Contract!Init
  BY InitRefines
<1>2. IInv /\ IInv' /\ [Next]_vars => [Contract!Next]_(Contract!vars)
  BY StepRefines
<1> QED
  BY <1>1, <1>2, Invariance, PTL DEF Spec, ImplementsContract, Contract!Spec

-----------------------------------------------------------------------------
(***************************************************************************)
(* The writer and the router.                                              *)
(***************************************************************************)
RP == INSTANCE RouterProofs WITH
    Msgs        <- Docs,
    Handlers    <- RouterHandlers,
    NoMsg       <- NoDoc,
    Class       <- [d \in Docs |-> "valid"],
    MaxFaults   <- MaxRouterFaults,
    where       <- rwhere,
    redelivered <- rredelivered,
    cur         <- rcur,
    owns        <- rowns,
    pc          <- rpc,
    confirmLost <- rconfirmLost,
    faults      <- rfaults

\* The ready queue has held exactly what the writer announced.
HandOver == \A d \in Docs : rwhere[d] = "absent" <=> d \notin ready

\* The inductive invariant.
PipelineInv == IInv /\ RP!IInv /\ HandOver

\* The proofs are about the very same router.
LEMMA SameInit == R!InitWith({}) => RP!InitWith({})
  BY
  DEF R!InitWith, RP!InitWith, R!QueueInit, RP!QueueInit

LEMMA SameNext == R!Next => RP!Next
  BY
  DEF R!Next, RP!Next, R!Receive, RP!Receive, R!Handle, RP!Handle,
      R!generateRoutingKey, RP!generateRoutingKey, R!Panic, RP!Panic, R!Publish,
      RP!Publish, R!PublishFails, RP!PublishFails, R!PublishConfirmLost,
      RP!PublishConfirmLost, R!Ack, RP!Ack, R!Nack, RP!Nack, R!Rebind, RP!Rebind,
      R!Crash, RP!Crash, R!ConsumerTimeout, RP!ConsumerTimeout, R!Restart,
      RP!Restart, R!Return, RP!Return, R!Goto, RP!Goto, R!Route, RP!Route,
      R!Deliver, RP!Deliver, R!msg_Ack, RP!msg_Ack, R!msg_Nack, RP!msg_Nack,
      R!Settle, RP!Settle, R!Disconnected, RP!Disconnected, R!TimedOut, RP!TimedOut,
      R!Requeue, RP!Requeue, R!Unacked, RP!Unacked, R!routeVars, RP!routeVars,
      R!queueVars, RP!queueVars

LEMMA RouterConstants ==
    /\ NoDoc \notin Docs
    /\ [d \in Docs |-> "valid"] \in [Docs -> RP!Classes]
  BY IdentityAssumption DEF RP!Classes

LEMMA PipelineInitInv == PipelineInit => PipelineInv
<1> SUFFICES ASSUME PipelineInit PROVE PipelineInv
  OBVIOUS
<1>1. IInv
  BY InitIInv DEF PipelineInit
<1>2. RP!IInv
  BY RP!InitIInv, SameInit, RouterConstants, RouterAssumption DEF PipelineInit
<1>3. HandOver
  BY DEF PipelineInit, Init, R!InitWith, R!QueueInit, HandOver
<1> QED
  BY <1>1, <1>2, <1>3 DEF PipelineInv

\* An announcement is never taken back from the exchange.
LEMMA ReadyGrows ==
  ASSUME IInv, [Next]_vars
  PROVE  ready \subseteq ready' /\ ready' \subseteq Docs
<1>1. IInv'
  BY NextIInv
<1>2. ready' \subseteq Docs
  BY <1>1 DEF IInv, TypeOK
<1>3. ASSUME NEW h \in Handlers, Handle(h) PROVE ready \subseteq ready'
  BY <1>3
  DEF Handle, Validate, Reject, Panic, Restart, mongoWrite, mongoWriteFails,
      mongoWriteReplyLost, Publish, PublishFails, PublishConfirmLost, mongoDelete,
      mongoDeleteFails, Ack, Nack, Return, Goto, storeVars
<1>4. ASSUME NEW h \in Handlers, NEW m \in Msgs, Receive(h, m) PROVE ready \subseteq ready'
  BY <1>4 DEF Receive, storeVars
<1> QED
  BY <1>2, <1>3, <1>4 DEF Next, Crash, Restart, ConsumerTimeout, vars, storeVars

LEMMA WriterStepInv ==
  ASSUME PipelineInv, WriterStep
  PROVE  PipelineInv'
<1>1. IInv'
  BY NextIInv DEF PipelineInv, WriterStep
<1>2. ready \subseteq ready' /\ ready' \subseteq Docs
  BY ReadyGrows DEF PipelineInv, WriterStep
<1>3. HandOver'
  BY <1>2 DEF PipelineInv, HandOver, WriterStep
<1>4. RP!IInv'
  <2> DEFINE S == ready' \ ready
  <2>1. \A d \in S \cap Docs : rwhere[d] = "absent"
    BY DEF PipelineInv, HandOver
  <2>2. rwhere' = [d \in Docs |-> IF d \in S THEN "queued" ELSE rwhere[d]]
    BY DEF WriterStep
  <2>3. UNCHANGED <<rredelivered, rcur, rowns, rpc, bound, RP!routeVars, rfaults>>
    BY DEF WriterStep, RP!routeVars
  <2> HIDE DEF S
  <2> QED
    BY <2>1, <2>2, <2>3, RP!EnqueueStep, RouterConstants, RouterAssumption DEF PipelineInv
<1> QED
  BY <1>1, <1>3, <1>4 DEF PipelineInv

LEMMA RouterStepInv ==
  ASSUME PipelineInv, RouterStep
  PROVE  PipelineInv'
<1>1. IInv'
  BY NextIInv DEF PipelineInv, RouterStep
<1>2. RP!Next
  BY SameNext DEF RouterStep
<1>3. RP!IInv'
  BY <1>2, RP!NextIInv, RouterConstants, RouterAssumption DEF PipelineInv
<1>4. \A d \in Docs : rwhere'[d] = "absent" <=> rwhere[d] = "absent"
  BY <1>2, RP!AbsentStays, RouterConstants, RouterAssumption DEF PipelineInv
<1>5. HandOver'
  BY <1>4 DEF PipelineInv, HandOver, RouterStep, vars, storeVars
<1> QED
  BY <1>1, <1>3, <1>5 DEF PipelineInv

LEMMA StutterInv ==
  ASSUME PipelineInv, UNCHANGED pipelineVars
  PROVE  PipelineInv'
<1>1. IInv'
  BY NextIInv DEF PipelineInv, pipelineVars
<1>2. UNCHANGED RP!vars
  BY DEF pipelineVars, R!vars, RP!vars, R!queueVars, RP!queueVars, R!routeVars, RP!routeVars
<1>3. RP!IInv'
  BY <1>2, RP!NextIInv, RouterConstants, RouterAssumption DEF PipelineInv
<1>4. HandOver'
  BY DEF PipelineInv, HandOver, pipelineVars, vars, storeVars, R!vars, R!queueVars
<1> QED
  BY <1>1, <1>3, <1>4 DEF PipelineInv

-----------------------------------------------------------------------------
\* Both services keep their own invariants, and the ready queue has held
\* exactly what the writer announced.
THEOREM PipelineInvariance == PipelineSpec => []PipelineInv
<1>1. PipelineInit => PipelineInv
  BY PipelineInitInv
<1>2. PipelineInv /\ [PipelineNext]_pipelineVars => PipelineInv'
  BY WriterStepInv, RouterStepInv, StutterInv DEF PipelineNext
<1> QED
  BY <1>1, <1>2, PTL DEF PipelineSpec

\* End to end: a message the writer acked (raw-writer/main.go:78-88) has a
\* stored document that the router still has to handle, has dead-lettered, or
\* has brought to a sink.
THEOREM NoLossEndToEnd == PipelineSpec => []NothingIsLost
<1>1. ASSUME PipelineInv PROVE NothingIsLost
  <2> SUFFICES ASSUME NEW m \in Msgs, where[m] = "acked"
               PROVE  \E d \in lake : /\ origin[d] = m
                                      /\ \/ rwhere[d] \in {"queued", "unacked", "dead"}
                                         \/ R!SinksOf(d) # {}
    BY DEF NothingIsLost
  <2>1. PICK d \in lake \cap ready : origin[d] = m
    BY <1>1 DEF PipelineInv, IInv, AckedIsSafe
  <2>2. d \in Docs /\ rwhere[d] # "absent"
    BY <1>1 DEF PipelineInv, IInv, TypeOK, HandOver
  <2>3. rwhere[d] \in RP!Places
    BY <1>1, <2>2 DEF PipelineInv, RP!IInv, RP!TypeOK, RP!QueueTypeOK
  <2>4. rwhere[d] = "acked" => R!SinksOf(d) # {}
    BY <1>1, <2>2 DEF PipelineInv, RP!IInv, RP!AckedIsRouted, RP!SinksOf, R!SinksOf,
       RP!Sinks, R!Sinks
  <2> QED
    BY <2>1, <2>2, <2>3, <2>4 DEF RP!Places
<1> QED
  BY <1>1, PipelineInvariance, PTL

\* What reaches a transformer was announced by the writer, so it can be read
\* unless it met a lost confirm (raw-writer/atomically.go).
THEOREM TransformersFindIt == PipelineSpec => []RoutedResolves
<1>1. ASSUME PipelineInv PROVE RoutedResolves
  <2> SUFFICES ASSUME NEW d \in Docs, R!SinksOf(d) # {}
               PROVE  d \in lake \/ cause[d] = "confirmLost"
    BY DEF RoutedResolves
  <2>1. RP!SinksOf(d) # {}
    BY DEF RP!SinksOf, R!SinksOf, RP!Sinks, R!Sinks
  <2>2. rwhere[d] # "absent"
    BY <1>1, <2>1 DEF PipelineInv, RP!IInv, RP!AbsentInv, RP!UnroutedInv
  <2>3. d \in ready
    BY <1>1, <2>2 DEF PipelineInv, HandOver
  <2> QED
    BY <1>1, <2>3 DEF PipelineInv, IInv, DanglingOnlyAfterLostConfirm
<1> QED
  BY <1>1, PipelineInvariance, PTL
=============================================================================
