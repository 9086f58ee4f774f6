-------------------------- MODULE MCCompactedWalk --------------------------
(***************************************************************************)
(* Instances of CompactedWalk for TLC.                                     *)
(***************************************************************************)
EXTENDS CompactedWalk

MCSize == [d \in Docs |-> IF d % 3 = 0 THEN 4 ELSE 1]

\* Keys 1 to 3, a document without key (5), a backfill (4 is written after 1
\* but dated before it), two revisions with one timestamp (2 and 6).
MCKeyOf == <<1, 2, 3, 1, NoKey, 2>>
MCStamp == <<2, 2, 1, 1, 1, 2>>

\* Cursors of the log and of the view by another field.
MCStrays == {[f |-> "$documents", v |-> 3], [f |-> "other", v |-> 2]}
=============================================================================
