---------------------------- MODULE MCRawWriter ----------------------------
(***************************************************************************)
(* Instances of RawWriter for TLC.                                         *)
(***************************************************************************)
EXTENDS RawWriter, TLC

CONSTANTS m1, m2, m3

\* Two well-formed messages next to one that kills their handlers.
SafeClass == m1 :> "valid" @@ m2 :> "valid" @@ m3 :> "unreadable"
SafeSymmetry == Permutations(Oids) \cup Permutations(Handlers) \cup Permutations({m1, m2})

\* A message that settles, one that is refused, and one whose first delivery
\* panics.
SettlingClass == m1 :> "valid" @@ m2 :> "malformed" @@ m3 :> "ownId"

\* Well-formed messages only.
ValidClass == [m \in Msgs |-> "valid"]

\* A message that is refused and one that makes the writer panic.
PoisonClass == m2 :> "malformed" @@ m3 :> "unreadable"
=============================================================================
