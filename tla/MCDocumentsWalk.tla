-------------------------- MODULE MCDocumentsWalk --------------------------
(***************************************************************************)
(* Instances of DocumentsWalk for TLC.                                     *)
(***************************************************************************)
EXTENDS DocumentsWalk

\* One document is larger than the budget, so that pages end by the budget, by
\* the limit, and with a single oversized row.
MCSize == [d \in Docs |-> IF d = 6 THEN 4 ELSE 1]

\* A cursor of a compacted view, whose value is a string and no id.
MCStrays == {[f |-> "key", v |-> 5]}
=============================================================================
