------------------------------ MODULE Pipeline ------------------------------
(***************************************************************************)
(* From the ingress queue to the transformers: raw-writer (or several      *)
(* goroutines of it) announces documents on the ready exchange, the ready  *)
(* queue holds the announcements, the router consumes it.                  *)
(*                                                                         *)
(* The two services share nothing but the ready queue.  An announcement is *)
(* identified by the document it names; what the writer adds to ready is   *)
(* queued for the router in the same step.                                 *)
(***************************************************************************)
EXTENDS RawWriter

CONSTANTS
    RouterHandlers, Keys, KeyOf, Queues, Permanent, Unroutable, MaxRouterFaults

ASSUME RouterAssumption ==
    /\ KeyOf \in [Docs -> Keys]
    /\ Unroutable \notin Queues /\ Permanent \subseteq Queues
    /\ MaxRouterFaults \in Nat

VARIABLES
    rwhere, rredelivered, rcur, rowns,   \* the ready queue
    rpc, bound, routed, resent, rconfirmLost, rfaults

\* The writer's announcements are well-formed.
R == INSTANCE Router WITH
    Msgs        <- Docs,
    Handlers    <- RouterHandlers,
    NoMsg       <- NoDoc,
    Class       <- [d \in Docs |-> "valid"],
    MaxFaults   <- MaxRouterFaults,
    where       <- rwhere,
    redelivered <- rredelivered,
    cur         <- rcur,
    owns        <- rowns,
    pc          <- rpc,
    confirmLost <- rconfirmLost,
    faults      <- rfaults

pipelineVars == <<vars, R!vars>>

PipelineInit ==
    /\ Init
    /\ R!InitWith({})

\* A step of the writer; its announcements arrive in the ready queue.
WriterStep ==
    /\ Next
    /\ rwhere' = [d \in Docs |-> IF d \in ready' \ ready THEN "queued" ELSE rwhere[d]]
    /\ UNCHANGED <<rredelivered, rcur, rowns, rpc, bound, routed, resent,
                   rconfirmLost, rfaults>>

RouterStep ==
    /\ R!Next
    /\ UNCHANGED vars

PipelineNext == WriterStep \/ RouterStep

PipelineSpec == PipelineInit /\ [][PipelineNext]_pipelineVars

\* Both services run; transformers keep their bindings or change them.
PipelineFairSpec ==
    /\ PipelineSpec
    /\ \A h \in Handlers : WF_pipelineVars(WriterStep /\ Handle(h))
    /\ \A m \in Msgs :
          WF_pipelineVars(WriterStep /\ \E h \in Handlers : Receive(h, m))
    /\ \A h \in RouterHandlers : WF_pipelineVars(RouterStep /\ R!Handle(h))
    /\ \A d \in Docs :
          WF_pipelineVars(RouterStep /\ \E h \in RouterHandlers : R!Receive(h, d))

-----------------------------------------------------------------------------
\* End to end, nothing the writer acked is lost: a stored document of it is
\* on its way to the router, dead-lettered behind it, or with a sink.
NothingIsLost ==
    \A m \in Msgs : where[m] = "acked" =>
        \E d \in lake : /\ origin[d] = m
                        /\ \/ rwhere[d] \in {"queued", "unacked", "dead"}
                           \/ R!SinksOf(d) # {}

\* A transformer that reads the document it is told of finds it, unless the
\* writer is about to roll back, or has, an announcement whose confirm was
\* lost.
RoutedResolves ==
    \A d \in Docs : R!SinksOf(d) # {} => d \in lake \/ cause[d] = "confirmLost"

\* What the writer acked eventually reaches a sink or the ready queue's dead
\* letters.
AckedIsDelivered ==
    \A m \in Msgs : where[m] = "acked" ~>
        \E d \in lake : origin[d] = m /\ (R!SinksOf(d) # {} \/ rwhere[d] = "dead")
=============================================================================
