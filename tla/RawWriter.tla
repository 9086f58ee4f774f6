----------------------------- MODULE RawWriter -----------------------------
(***************************************************************************)
(* infrastructure/raw-writer: consumes the ingress queue, stores every     *)
(* message in the raw data lake (MongoDB), announces the stored document   *)
(* on the ready exchange and settles the message with the broker.          *)
(*                                                                         *)
(* One goroutine per delivery (main.go:68-91) runs handleMqMsg.  Storing   *)
(* and announcing are the two "quarks" of an Atom (atomically.go): when    *)
(* the announcement fails the document is deleted again, and the result of *)
(* that delete is ignored.  A panic in a handler goroutine is recovered by *)
(* nobody, so it ends the process.                                         *)
(***************************************************************************)
EXTENDS Consumer, Naturals

CONSTANTS
    Class,        \* what handleMqMsg makes of each message, see Classes
    Oids,         \* ObjectIDs the MongoDB driver mints, each at most once
    MaxCrashes,   \* bound: crashes of the writer that no message causes
    MaxTimeouts,  \* bound: consumer timeouts at the broker
    NoDoc         \* "no document"

(***************************************************************************)
(* valid       parses, and the driver mints the _id of its document        *)
(* ownId       parses, but the body carries an _id of its own, which JSON  *)
(*             can never make an ObjectID                                  *)
(* malformed   handleMqMsg returns an error before it touches anything     *)
(* unreadable  handleMqMsg panics on it: the timestamp is not a string     *)
(*             (main.go:167) or the provider is null (main.go:178)         *)
(***************************************************************************)
Classes == {"valid", "ownId", "malformed", "unreadable"}

\* The document of an ownId message is identified by the message itself.
Docs == Oids \cup Msgs

ASSUME ClassAssumption == Class \in [Msgs -> Classes]
ASSUME IdentityAssumption ==
    /\ Oids \cap Msgs = {}
    /\ NoDoc \notin Docs
ASSUME BoundAssumption == MaxCrashes \in Nat /\ MaxTimeouts \in Nat

VARIABLES
    pc,           \* what each handler goroutine does next
    doc,          \* the document a handler has stored and not yet let go of
    lake,         \* documents in the raw data lake
    origin,       \* the message each document ever stored was made from
    ready,        \* documents announced on the ready exchange
    cause,        \* history: the fault that separated a document from its
                  \* announcement
    crashes, timeouts

storeVars == <<lake, origin, ready, cause>>
faultVars == <<crashes, timeouts>>
vars == <<queueVars, pc, doc, storeVars, faultVars>>

Steps  == {"idle", "received", "insert", "convert", "publish", "rollback",
           "ack", "nack"}
Causes == {"none", "insertReplyLost", "confirmLost", "deleteFailed", "crash"}

\* Type invariant.
TypeOK ==
    /\ QueueTypeOK
    /\ pc \in [Handlers -> Steps]
    /\ doc \in [Handlers -> Docs \cup {NoDoc}]
    /\ lake \subseteq Docs
    /\ origin \in [Docs -> Msgs \cup {NoMsg}]
    /\ ready \subseteq Docs
    /\ cause \in [Docs -> Causes]
    /\ crashes \in 0 .. MaxCrashes
    /\ timeouts \in 0 .. MaxTimeouts

Init ==
    /\ QueueInit(Msgs)
    /\ pc = [h \in Handlers |-> "idle"]
    /\ doc = [h \in Handlers |-> NoDoc]
    /\ lake = {}
    /\ origin = [d \in Docs |-> NoMsg]
    /\ ready = {}
    /\ cause = [d \in Docs |-> "none"]
    /\ crashes = 0
    /\ timeouts = 0

-----------------------------------------------------------------------------
\* The broker delivers m to a new goroutine.
Receive(h, m) ==
    /\ Deliver(h, m)
    /\ pc' = [pc EXCEPT ![h] = "received"]
    /\ UNCHANGED <<doc, storeVars, faultVars>>

\* The handler moves on; its message is not settled yet.
Goto(h, step) ==
    /\ pc' = [pc EXCEPT ![h] = step]
    /\ UNCHANGED <<queueVars, faultVars>>

\* Timestamp, provider, table target and URN are all there.
Validate(h) ==
    /\ pc[h] = "received"
    /\ Class[cur[h]] \in {"valid", "ownId"}
    /\ Goto(h, "insert")
    /\ UNCHANGED <<doc, storeVars>>

\* One of the early error returns of handleMqMsg.
Reject(h) ==
    /\ pc[h] = "received"
    /\ Class[cur[h]] = "malformed"
    /\ Goto(h, "nack")
    /\ UNCHANGED <<doc, storeVars>>

-----------------------------------------------------------------------------
(***************************************************************************)
(* First quark: InsertOne into the lake.                                   *)
(***************************************************************************)
\* The identifiers InsertOne may give the document of m.
FreshId(m) ==
    IF Class[m] = "ownId" THEN {m} \ lake
                          ELSE {d \in Oids : origin[d] = NoMsg}

\* MUTANT: the Atom ends after its first quark.
mongoWrite_NoSecondQuark(h) ==
    /\ pc[h] = "insert"
    /\ \E d \in FreshId(cur[h]) :
          /\ lake' = lake \cup {d}
          /\ origin' = [origin EXCEPT ![d] = cur[h]]
          /\ doc' = [doc EXCEPT ![h] = d]
    /\ Goto(h, IF Class[cur[h]] = "ownId" THEN "convert" ELSE "ack")
    /\ UNCHANGED <<ready, cause>>

\* InsertOne succeeds.  With an _id of its own, the conversion of the
\* returned id to an ObjectID comes next, and panics.
mongoWrite(h) ==
    /\ pc[h] = "insert"
    /\ \E d \in FreshId(cur[h]) :
          /\ lake' = lake \cup {d}
          /\ origin' = [origin EXCEPT ![d] = cur[h]]
          /\ doc' = [doc EXCEPT ![h] = d]
    /\ Goto(h, IF Class[cur[h]] = "ownId" THEN "convert" ELSE "publish")
    /\ UNCHANGED <<ready, cause>>

\* InsertOne fails and stored nothing: MongoDB unreachable, or a document
\* with this _id exists.  No quark completed before, so none is rolled back.
mongoWriteFails(h) ==
    /\ pc[h] = "insert"
    /\ Goto(h, "nack")
    /\ UNCHANGED <<doc, storeVars>>

\* MUTANT: a failed insert is tried again.
mongoWriteReplyLost_Retried(h) ==
    /\ pc[h] = "insert"
    /\ \E d \in FreshId(cur[h]) :
          /\ lake' = lake \cup {d}
          /\ origin' = [origin EXCEPT ![d] = cur[h]]
          /\ cause' = [cause EXCEPT ![d] = "insertReplyLost"]
    /\ Goto(h, "insert")
    /\ UNCHANGED <<doc, ready>>

\* InsertOne stored the document, but its reply never arrives: an error too.
mongoWriteReplyLost(h) ==
    /\ pc[h] = "insert"
    /\ \E d \in FreshId(cur[h]) :
          /\ lake' = lake \cup {d}
          /\ origin' = [origin EXCEPT ![d] = cur[h]]
          /\ cause' = [cause EXCEPT ![d] = "insertReplyLost"]
    /\ Goto(h, "nack")
    /\ UNCHANGED <<doc, ready>>

(***************************************************************************)
(* Second quark: announce the document on the ready exchange.              *)
(***************************************************************************)
\* MUTANT: the branches of handleMq are swapped.
Publish_Nacks(h) ==
    /\ pc[h] = "publish"
    /\ ready' = ready \cup {doc[h]}
    /\ Goto(h, "nack")
    /\ UNCHANGED <<doc, lake, origin, cause>>

Publish(h) ==
    /\ pc[h] = "publish"
    /\ ready' = ready \cup {doc[h]}
    /\ Goto(h, "ack")
    /\ UNCHANGED <<doc, lake, origin, cause>>

\* MUTANT: the error of Publish is not checked.
PublishFails_Unchecked(h) ==
    /\ pc[h] = "publish"
    /\ Goto(h, "ack")
    /\ UNCHANGED <<doc, storeVars>>

\* MUTANT: the first quark has no rollback.
PublishFails_NoRollback(h) ==
    /\ pc[h] = "publish"
    /\ Goto(h, "nack")
    /\ UNCHANGED <<doc, storeVars>>

PublishFails(h) ==
    /\ pc[h] = "publish"
    /\ Goto(h, "rollback")
    /\ UNCHANGED <<doc, storeVars>>

\* The broker has the announcement, the writer sees an error.
PublishConfirmLost(h) ==
    /\ pc[h] = "publish"
    /\ ready' = ready \cup {doc[h]}
    /\ cause' = [cause EXCEPT ![doc[h]] = "confirmLost"]
    /\ Goto(h, "rollback")
    /\ UNCHANGED <<doc, lake, origin>>

(***************************************************************************)
(* Atom.Run rolls the first quark back.                                    *)
(***************************************************************************)
\* MUTANT: the rollback deletes by message instead of by _id.
mongoDelete_ByMessage(h) ==
    /\ pc[h] = "rollback"
    /\ lake' = {d \in lake : origin[d] # cur[h]}
    /\ doc' = [doc EXCEPT ![h] = NoDoc]
    /\ Goto(h, "nack")
    /\ UNCHANGED <<origin, ready, cause>>

mongoDelete(h) ==
    /\ pc[h] = "rollback"
    /\ lake' = lake \ {doc[h]}
    /\ doc' = [doc EXCEPT ![h] = NoDoc]
    /\ Goto(h, "nack")
    /\ UNCHANGED <<origin, ready, cause>>

\* The error mongoDelete returns is dropped by the rollback function.
mongoDeleteFails(h) ==
    /\ pc[h] = "rollback"
    /\ cause' = IF doc[h] \in ready
                   THEN cause ELSE [cause EXCEPT ![doc[h]] = "deleteFailed"]
    /\ doc' = [doc EXCEPT ![h] = NoDoc]
    /\ Goto(h, "nack")
    /\ UNCHANGED <<lake, origin, ready>>

-----------------------------------------------------------------------------
\* handleMqMsg returned, with nil or with an error.
Return(h) ==
    /\ pc' = [pc EXCEPT ![h] = "idle"]
    /\ doc' = [doc EXCEPT ![h] = NoDoc]
    /\ UNCHANGED <<storeVars, faultVars>>

Ack(h)  == pc[h] = "ack"  /\ msg_Ack(h)  /\ Return(h)
Nack(h) == pc[h] = "nack" /\ msg_Nack(h) /\ Return(h)

\* The process ends and is started again.
Restart ==
    /\ Disconnected
    /\ pc' = [h \in Handlers |-> "idle"]
    /\ doc' = [h \in Handlers |-> NoDoc]
    /\ cause' = [d \in Docs |-> IF d \notin ready /\ \E h \in Handlers : doc[h] = d
                                   THEN "crash" ELSE cause[d]]
    /\ UNCHANGED <<lake, origin, ready>>

\* tstr.(string), reflect.TypeOf(nil).Kind() or InsertedID.(ObjectID).
Panic(h) ==
    /\ \/ pc[h] = "received" /\ Class[cur[h]] = "unreadable"
       \/ pc[h] = "convert"
    /\ Restart
    /\ UNCHANGED faultVars

Crash ==
    /\ crashes < MaxCrashes
    /\ \E h \in Handlers : pc[h] # "idle"
    /\ crashes' = crashes + 1
    /\ Restart
    /\ UNCHANGED timeouts

\* MongoDB is called with context.TODO(), so a call can take longer than the
\* broker's consumer_timeout.
ConsumerTimeout ==
    /\ timeouts < MaxTimeouts
    /\ TimedOut
    /\ timeouts' = timeouts + 1
    /\ UNCHANGED <<pc, doc, storeVars, crashes>>

-----------------------------------------------------------------------------
Handle(h) ==
    \/ Validate(h) \/ Reject(h) \/ Panic(h)
    \/ mongoWrite(h) \/ mongoWriteFails(h) \/ mongoWriteReplyLost(h)
    \/ Publish(h) \/ PublishFails(h) \/ PublishConfirmLost(h)
    \/ mongoDelete(h) \/ mongoDeleteFails(h)
    \/ Ack(h) \/ Nack(h)

Next ==
    \/ \E h \in Handlers, m \in Msgs : Receive(h, m)
    \/ \E h \in Handlers : Handle(h)
    \/ Crash
    \/ ConsumerTimeout

Spec == Init /\ [][Next]_vars

(***************************************************************************)
(* A goroutine that can run does run, and every call it makes returns or   *)
(* fails; the broker keeps delivering what is queued.  Nothing is assumed  *)
(* about which outcome a call has.                                         *)
(***************************************************************************)
Fairness ==
    /\ \A h \in Handlers : WF_vars(Handle(h))
    /\ \A m \in Msgs : WF_vars(\E h \in Handlers : Receive(h, m))

FairSpec == Spec /\ Fairness

-----------------------------------------------------------------------------
(***************************************************************************)
(* Properties                                                              *)
(***************************************************************************)
DocsOf(m) == {d \in Docs : origin[d] = m}
Held(d)   == \E h \in Handlers : doc[h] = d

\* No loss.  Once the writer has acked a message, whatever other handlers of
\* the same message still do (a delivery that timed out may roll its own
\* document back later), some document of it is in the lake and announced.
AckedIsStoredAndAnnounced ==
    \A m \in Msgs : where[m] = "acked" => \E d \in lake \cap ready : origin[d] = m

\* An announcement points to a stored document, except when the broker took
\* the announcement although Publish failed, and the rollback removed the
\* document behind it.
DanglingOnlyAfterLostConfirm ==
    \A d \in ready \ lake : cause[d] = "confirmLost"

\* The Atom leaves no document behind unannounced, unless the insert's reply
\* was lost, the rollback's delete failed or the process died in between.
OrphanHasCause ==
    \A d \in lake \ ready :
        Held(d) \/ cause[d] \in {"insertReplyLost", "deleteFailed", "crash"}

\* Without redelivery a message is stored at most once.
StoredOnceUnlessRedelivered ==
    \A m \in Msgs \ redelivered : \A d1, d2 \in DocsOf(m) : d1 = d2

\* A dead-lettered message is one nobody downstream was told of, so replaying
\* it makes no duplicate, unless the broker redelivered it before or the
\* publisher's confirm was lost.
DeadIsUnannounced ==
    \A m \in Msgs \ redelivered :
        where[m] = "dead" => \A d \in DocsOf(m) \cap ready : cause[d] = "confirmLost"

\* Every message is eventually acked or dead-lettered, also across a crash, a
\* timeout and the panic of a message with an _id of its own.
EveryMessageIsSettled ==
    \A m \in Msgs : <>(where[m] \in {"acked", "dead"})

\* What the contract calls announced, and its verdict on each message.
Announced == {m \in Msgs : \E d \in lake \cap ready : origin[d] = m}
Verdict   == [m \in Msgs |-> CASE where[m] = "acked" -> "accepted"
                               [] where[m] = "dead"  -> "refused"
                               [] OTHER              -> "pending"]

\* This writer implements the contract; its rollback withdraws.
Contract == INSTANCE IngestContract WITH
    Items <- Msgs, MayWithdraw <- TRUE, announced <- Announced, verdict <- Verdict

ImplementsContract == Contract!Spec

-----------------------------------------------------------------------------
(***************************************************************************)
(* What the documentation says and the code does not do                    *)
(***************************************************************************)
\* docs/rabbitmq.md:63-64: a nack is for a retriable error, and the message
\* is requeued.  So the only messages that end in the dead letter queue are
\* those no retry can help (main.go:265-266 sends every nacked one there).
OnlyPermanentErrorsAreDeadLettered ==
    \A m \in Msgs : where[m] = "dead" => Class[m] # "valid"

\* docs/inbound.md:28: messages that do not pass validation are routed to the
\* dead letter exchange.  A wrong-typed timestamp or provider panics instead
\* (main.go:167 and 178), and the message is redelivered for ever.
InvalidReachesDeadLetter ==
    \A m \in Msgs : Class[m] \in {"malformed", "unreadable"} => <>(where[m] = "dead")
=============================================================================
