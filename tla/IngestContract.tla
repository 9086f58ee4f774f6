--------------------------- MODULE IngestContract ---------------------------
(***************************************************************************)
(* What a raw writer promises to the collectors in front of it and to the  *)
(* transformers behind it, whatever happens inside.                        *)
(*                                                                         *)
(* An item (an ingress message, an HTTP request) is announced while some   *)
(* document made from it is in the lake and was put on the ready exchange. *)
(* The sender gets one verdict per item.  Accepted means announced, for    *)
(* good; refused promises nothing, the item may be announced all the same. *)
(* A writer that rolls back may withdraw what it announced, but never an   *)
(* accepted item.                                                          *)
(***************************************************************************)
CONSTANTS
    Items,
    MayWithdraw   \* does this writer ever take an announced document back?

VARIABLES announced, verdict
vars == <<announced, verdict>>

Init ==
    /\ announced = {}
    /\ verdict = [i \in Items |-> "pending"]

Announce(i) ==
    /\ announced' = announced \cup {i}
    /\ UNCHANGED verdict

Withdraw(i) ==
    /\ MayWithdraw
    /\ verdict[i] # "accepted"
    /\ announced' = announced \ {i}
    /\ UNCHANGED verdict

Accept(i) ==
    /\ verdict[i] = "pending"
    /\ i \in announced
    /\ verdict' = [verdict EXCEPT ![i] = "accepted"]
    /\ UNCHANGED announced

\* A writer that dies leaves all its items without an answer at once.
Refuse(S) ==
    /\ \A i \in S : verdict[i] = "pending"
    /\ verdict' = [i \in Items |-> IF i \in S THEN "refused" ELSE verdict[i]]
    /\ UNCHANGED announced

Next ==
    \/ \E i \in Items : Announce(i) \/ Withdraw(i) \/ Accept(i)
    \/ \E S \in SUBSET Items : Refuse(S)

Spec == Init /\ [][Next]_vars
=============================================================================
