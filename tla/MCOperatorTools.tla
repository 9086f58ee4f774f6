-------------------------- MODULE MCOperatorTools --------------------------
(***************************************************************************)
(* An instance of OperatorTools for TLC.                                   *)
(***************************************************************************)
EXTENDS OperatorTools, TLC

\* Sound for ReplayEnds as well: no step of encore touches a pod.
PodSymmetry == Permutations(Pods)
=============================================================================
