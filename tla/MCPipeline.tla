----------------------------- MODULE MCPipeline -----------------------------
(***************************************************************************)
(* Instances of Pipeline for TLC.                                          *)
(***************************************************************************)
EXTENDS Pipeline

CONSTANTS m1, k1

ValidClass == [m \in Msgs |-> "valid"]
OneKey     == [d \in Docs |-> k1]
=============================================================================
