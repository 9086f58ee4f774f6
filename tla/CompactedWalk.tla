--------------------------- MODULE CompactedWalk ---------------------------
(***************************************************************************)
(* raw-data-bridge, GET /:db/:collection/compacted/:field: a client walks  *)
(* the newest document per value of a meta field ("key"), in key order,    *)
(* one page per request, and walks again to reconcile.                     *)
(*                                                                         *)
(* Newest is by bsontimestamp, _id breaks ties.  Documents are inserted    *)
(* with any timestamp (a backfill is written late and dated early), and    *)
(* delete_collection.sh "before" purges all documents older than a cutoff, *)
(* one by one as far as readers can tell.                                  *)
(*                                                                         *)
(* The aggregation behind a page reads the whole collection before its     *)
(* first row, and that scan is no snapshot: of the documents that come or  *)
(* go while it runs it may see some and miss others.                       *)
(***************************************************************************)
EXTENDS Paging, FiniteSets

CONSTANTS
    Initial,     \* the documents of the collection at first
    Keys,        \* values of the grouped field
    KeyOf,       \* key of each document, NoKey if its meta has none
    NoKey,
    Stamp,       \* bsontimestamp of each document
    MaxPurges,   \* bound: runs of delete_collection.sh before
    MaxFailures  \* bound: reads that end in an error

\* Documents are their _ids; a smaller number is an older _id.
ASSUME IdAssumption ==
    /\ Docs \subseteq Nat \ {0}
    /\ Initial \subseteq Docs /\ IsFiniteSet(Initial)
ASSUME KeyAssumption == Keys \subseteq Nat \ {0} /\ NoKey \notin Keys
ASSUME DocumentAssumption ==
    /\ KeyOf \in [Docs -> Keys \cup {NoKey}]
    /\ Stamp \in [Docs -> Nat]
ASSUME BoundAssumption == MaxPurges \in Nat /\ MaxFailures \in Nat

VARIABLES
    coll,     \* documents in the collection
    used,     \* ids ever inserted
    exists,   \* does the collection exist?
    cutoff,   \* the running purge deletes documents older than this
    purges,
    pc,       \* where the client's walk is
    cursor,   \* the cursor of the page asked for, NoCursor for the first
    lo, hi,   \* documents the running scan must see, and may see
    rows,     \* the aggregation's rows that drain has not read yet
    current,  \* the client's table: the document served last for each key
    served,   \* keys served in this walk
    kept,     \* history: documents that were there when the walk began and
              \* were not deleted since
    failures

collVars == <<coll, used, exists, cutoff, purges>>
vars == <<collVars, pc, cursor, lo, hi, rows, pagingVars, current, served, kept,
          failures>>

NoDoc == 0

\* Type invariant.
TypeOK ==
    /\ PagingTypeOK
    /\ coll \subseteq used /\ used \subseteq Docs
    /\ exists \in BOOLEAN
    /\ cutoff \in Nat
    /\ purges \in 0 .. MaxPurges
    /\ pc \in {"ask", "refused", "scan", "drain", "exists", "done", "notFound"}
    /\ cursor \in Keys \cup {NoCursor}
    /\ lo \subseteq hi /\ hi \subseteq Docs
    /\ rows \subseteq Docs
    /\ current \in [Keys -> Docs \cup {NoDoc}]
    /\ served \subseteq Keys
    /\ kept \subseteq coll
    /\ failures \in 0 .. MaxFailures

Init ==
    /\ coll = Initial /\ used = Initial /\ kept = Initial
    /\ exists \in {TRUE, Initial # {}}
    /\ cutoff = 0 /\ purges = 0
    /\ pc = "ask" /\ cursor = NoCursor
    /\ lo = {} /\ hi = {} /\ rows = {}
    /\ Fresh
    /\ current = [k \in Keys |-> NoDoc]
    /\ served = {}
    /\ failures = 0

-----------------------------------------------------------------------------
\* MUTANT: the newest document is the one written last.
Newer_ByWriteOrder(d, e) == d > e

\* The pipeline's sort: bsontimestamp, then _id.
Newer(d, e) == Stamp[d] > Stamp[e] \/ (Stamp[d] = Stamp[e] /\ d > e)

\* MUTANT: $gte instead of $gt.
Compacted_Inclusive(docs) ==
    LET matching == {d \in docs : KeyOf[d] # NoKey /\ KeyOf[d] >= cursor}
    IN  {d \in matching : \A e \in matching \ {d} : KeyOf[e] = KeyOf[d] => Newer(d, e)}

\* $match, $sort, $group and $first over the documents the scan saw.
Compacted(docs) ==
    LET matching == {d \in docs : KeyOf[d] # NoKey /\ KeyOf[d] > cursor}
    IN  {d \in matching : \A e \in matching \ {d} : KeyOf[e] = KeyOf[d] => Newer(d, e)}

\* GetCompacted runs the aggregation of a page.
Ask ==
    /\ pc \in {"ask", "refused"}
    /\ parseLimit
    /\ Accepted(cursor, cursor')
    /\ pc' = "scan"
    /\ lo' = coll /\ hi' = coll
    /\ UNCHANGED <<collVars, rows, page, total, current, served, kept, failures>>

\* 400, and the client corrects its request.
Refuse ==
    /\ pc = "ask"
    /\ Refused
    /\ pc' = "refused"
    /\ UNCHANGED <<collVars, cursor, lo, hi, rows, pagingVars, current, served, kept, failures>>

\* The blocking stages have read their input.
Scan ==
    /\ pc = "scan"
    /\ \E seen \in SUBSET hi : lo \subseteq seen /\ rows' = Compacted(seen)
    /\ pc' = "drain"
    /\ lo' = {} /\ hi' = {}
    /\ UNCHANGED <<collVars, cursor, pagingVars, current, served, kept, failures>>

\* Document d is the row of the smallest key.
NextRow(d) == d \in rows /\ \A e \in rows : KeyOf[d] <= KeyOf[e]

Drain(d) ==
    /\ pc = "drain"
    /\ WantsMore
    /\ NextRow(d)
    /\ Take(d)
    /\ rows' = rows \ {d}
    /\ UNCHANGED <<collVars, pc, cursor, lo, hi, current, served, kept, failures>>

\* MUTANT: the cursor is read off the _id.
cursorOf_Id(d) == d

\* The cursor after document d is the grouped value.
cursorOf(d) == KeyOf[d]

\* finish and the client: it replaces its rows for the keys of the page.
Serve(truncated) ==
    LET next == IF More(truncated) /\ Served # <<>> THEN cursorOf(LastServed) ELSE NoCursor
    IN  /\ current' = [k \in Keys |->
                         IF \E d \in ServedSet : KeyOf[d] = k
                            THEN CHOOSE d \in ServedSet : KeyOf[d] = k ELSE current[k]]
        /\ served' = served \cup {KeyOf[d] : d \in ServedSet}
        /\ cursor' = next
        /\ pc' = IF next = NoCursor THEN "done" ELSE "ask"
        /\ rows' = {}
        /\ Reset
        /\ UNCHANGED <<collVars, lo, hi, kept, failures>>

Truncate(d) ==
    /\ pc = "drain"
    /\ WantsMore
    /\ NextRow(d)
    /\ ~Fits(d)
    /\ Serve(TRUE)

Exhaust ==
    /\ pc = "drain"
    /\ ~WantsMore \/ rows = {}
    /\ page # <<>> \/ cursor # NoCursor
    /\ Serve(FALSE)

\* absentCollection: an empty first page is looked into.
Empty ==
    /\ pc = "drain"
    /\ rows = {} /\ page = <<>> /\ cursor = NoCursor
    /\ pc' = "exists"
    /\ UNCHANGED <<collVars, cursor, lo, hi, rows, pagingVars, current, served, kept, failures>>

\* What the client learns: an empty table, or 404 and nothing at all.
collectionExists ==
    /\ pc = "exists"
    /\ pc' = IF exists THEN "done" ELSE "notFound"
    /\ UNCHANGED <<collVars, cursor, lo, hi, rows, pagingVars, current, served, kept, failures>>

\* The aggregation or a batch of its result fails (500); the client asks again.
Fail ==
    /\ pc \in {"scan", "drain", "exists"}
    /\ failures < MaxFailures
    /\ failures' = failures + 1
    /\ pc' = "ask"
    /\ lo' = {} /\ hi' = {} /\ rows' = {}
    /\ Reset
    /\ UNCHANGED <<collVars, cursor, current, served, kept>>

Purging == cutoff # 0

\* "Walk it again to reconcile."
WalkAgain ==
    /\ pc \in {"done", "notFound"}
    /\ pc' = "ask" /\ cursor' = NoCursor
    /\ served' = {}
    /\ kept' = coll
    /\ UNCHANGED <<collVars, lo, hi, rows, pagingVars, current, failures>>

-----------------------------------------------------------------------------
walkVars == <<pc, cursor, rows, pagingVars, current, served, failures>>

Insert(d) ==
    /\ d \notin used
    /\ coll' = coll \cup {d}
    /\ used' = used \cup {d}
    /\ exists' = TRUE
    /\ hi' = IF pc = "scan" THEN hi \cup {d} ELSE hi
    /\ UNCHANGED <<walkVars, cutoff, purges, lo, kept>>

\* delete_collection.sh before <date>: deleteMany on bsontimestamp.
StartPurge(t) ==
    /\ ~Purging
    /\ purges < MaxPurges
    /\ purges' = purges + 1
    /\ cutoff' = t
    /\ UNCHANGED <<walkVars, coll, used, exists, lo, hi, kept>>

Expired == {d \in coll : Stamp[d] < cutoff}

Delete(d) ==
    /\ d \in Expired
    /\ coll' = coll \ {d}
    /\ kept' = kept \ {d}
    /\ lo' = lo \ {d}
    /\ UNCHANGED <<walkVars, used, exists, cutoff, purges, hi>>

EndPurge ==
    /\ Purging
    /\ Expired = {}
    /\ cutoff' = 0
    /\ UNCHANGED <<walkVars, coll, used, exists, purges, lo, hi, kept>>

\* delete_collection.sh drop.
Drop ==
    /\ exists
    /\ coll' = {} /\ kept' = {} /\ lo' = {} /\ exists' = FALSE
    /\ UNCHANGED <<walkVars, used, cutoff, purges, hi>>

Walk ==
    \/ Ask \/ Scan \/ Exhaust \/ Empty \/ collectionExists
    \/ \E d \in Docs : Drain(d) \/ Truncate(d)

Next ==
    \/ Walk \/ Refuse \/ Fail \/ WalkAgain
    \/ \E d \in Docs : Insert(d) \/ Delete(d)
    \/ \E d \in Docs : StartPurge(Stamp[d] + 1)
    \/ EndPurge \/ Drop

Spec == Init /\ [][Next]_vars

\* A client that began a walk goes on; the bridge answers every request.
FairSpec == Spec /\ WF_vars(Walk)

-----------------------------------------------------------------------------
(***************************************************************************)
(* Properties                                                              *)
(***************************************************************************)
AtLeastAsNew(d, e) == Stamp[d] > Stamp[e] \/ (Stamp[d] = Stamp[e] /\ d >= e)

\* README.md:111, "walk every page and you have the whole current state": at
\* the end of a walk the client has, for every key, a row at least as new as
\* any document that was there when the walk began and still is.
WalkIsCurrent ==
    pc = "done" =>
        \A e \in kept : KeyOf[e] # NoKey =>
            KeyOf[e] \in served /\ AtLeastAsNew(current[KeyOf[e]], e)

\* README.md:113-115, "a re-read cannot miss a change", nor take one back: a
\* client's row gives way to an older one only if its document was deleted,
\* however late an old revision was written.
RowsOnlyAdvance ==
    [][\A k \in Keys :
          current[k] \in kept => AtLeastAsNew(current'[k], current[k])]_vars

\* No key is served twice in one walk, also if its document changes between
\* two pages.
KeyServedOnce ==
    [][pc = "drain" /\ pc' \in {"ask", "done"} =>
          \A d \in ServedSet : KeyOf[d] \notin served]_vars

\* Every walk ends, also while documents are inserted.
WalkEnds == pc = "ask" ~> pc \in {"done", "notFound"}
=============================================================================
