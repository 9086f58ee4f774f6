------------------------------- MODULE Paging -------------------------------
(***************************************************************************)
(* What the two collection views of raw-data-bridge have in common: how a  *)
(* request's limit and cursor are taken (server.go: parseLimit; rdt.go:    *)
(* decodeCursor), and how a query's result is cut into pages (drain and    *)
(* finish).  A query over-reads one row beyond the limit, to know whether  *)
(* a further page exists, and stops early when the page would outgrow      *)
(* maxPageBytes, but never before its first row.                           *)
(*                                                                         *)
(* Each request has a limit of its own, or none, and the client may hand   *)
(* over a cursor it got elsewhere.                                         *)
(***************************************************************************)
EXTENDS Integers, Sequences

CONSTANTS
    Docs,          \* documents a result row can be
    Size,          \* bytes of each document
    Limits,        \* what requests ask for
    defaultLimit, maxLimit,
    field,         \* the ordering a cursor of this view belongs to
    Strays,        \* cursors of other views the client may mistake for its own
    maxPageBytes   \* byte budget of a page

ASSUME SizeAssumption == Size \in [Docs -> Nat]
ASSUME LimitAssumption ==
    /\ Limits \subseteq Int
    /\ maxLimit \in Nat \ {0} /\ defaultLimit \in 1 .. maxLimit
    /\ maxPageBytes \in Nat
ASSUME StrayAssumption == \A c \in Strays : c.f # field

VARIABLES
    limit,  \* rows of the page asked for
    page,   \* rows read so far (docs in drain)
    total   \* their bytes

PagingTypeOK ==
    /\ limit \in 0 .. maxLimit
    /\ page \in Seq(Docs)
    /\ total \in Nat

pagingVars == <<limit, page, total>>

Fresh == limit = 0 /\ page = <<>> /\ total = 0
Reset == limit' = 0 /\ page' = <<>> /\ total' = 0

NoCursor == 0

\* A cursor knows its ordering.
pageCursor(value) == [f |-> field, v |-> value]

ValidLimit(n) == n \in 1 .. maxLimit

parseLimit == limit' \in {n \in Limits : ValidLimit(n)} \cup {defaultLimit}

\* MUTANT: the ordering of a cursor is not looked at.
decodeCursor_AnyField(c) == TRUE

decodeCursor(c) == c.f = field

\* A request whose cursor, its own or another, is accepted and says value.
Accepted(own, value) ==
    \E c \in {pageCursor(own)} \cup Strays : decodeCursor(c) /\ value = c.v

\* 400: a limit out of range, or a cursor of another ordering.
Refused ==
    \/ \E n \in Limits : ~ValidLimit(n)
    \/ \E c \in Strays : ~decodeCursor(c)

\* The query's limit is one more than the page's.
WantsMore == Len(page) <= limit

Fits(d) == page = <<>> \/ total + Size[d] <= maxPageBytes

\* drain appends a row that fits.
Take(d) ==
    /\ Fits(d)
    /\ page' = Append(page, d)
    /\ total' = total + Size[d]
    /\ UNCHANGED limit

\* finish: the rows served, and whether a continuation is offered.
Served == IF Len(page) > limit THEN SubSeq(page, 1, limit) ELSE page
\* MUTANT: only a full page has a continuation.
More_LimitOnly(truncated) == Len(page) > limit

More(truncated) == truncated \/ Len(page) > limit
LastServed == Served[Len(Served)]
ServedSet == {Served[k] : k \in 1 .. Len(Served)}
=============================================================================
