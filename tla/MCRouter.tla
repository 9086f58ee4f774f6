------------------------------ MODULE MCRouter ------------------------------
(***************************************************************************)
(* Instances of Router for TLC.                                            *)
(***************************************************************************)
EXTENDS Router, TLC

CONSTANTS m1, m2, m3, k1

MixedClass == m1 :> "valid" @@ m2 :> "malformed" @@ m3 :> "unreadable"
OneKey     == [m \in Msgs |-> k1]
=============================================================================
