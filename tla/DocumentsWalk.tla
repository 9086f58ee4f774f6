--------------------------- MODULE DocumentsWalk ---------------------------
(***************************************************************************)
(* raw-data-bridge, GET /:db/:collection/documents: a client walks the log *)
(* of a collection, newest _id first, one page per request, while writers  *)
(* insert and operators delete documents or drop the collection            *)
(* (devops/mongo/delete_collection.sh).                                    *)
(*                                                                         *)
(* A document is its _id, and a smaller number is an older _id.  Writers   *)
(* on several machines mint ids, so an insert need not be the newest.  The *)
(* find behind a page is no snapshot: each row read is the next one that   *)
(* is there at that moment.                                                *)
(***************************************************************************)
EXTENDS Paging

CONSTANTS
    Initial,      \* the documents of the collection at first
    Foreign,      \* ids that are no ObjectIDs (raw-writer stores a message
                  \* with an _id of its own before it panics); BSON orders
                  \* strings and numbers before every ObjectID, booleans
                  \* and dates after
    MaxFailures   \* bound: reads that end in an error

ASSUME IdAssumption ==
    /\ Docs \subseteq Nat \ {0}
    /\ Initial \subseteq Docs
    /\ Foreign \subseteq Docs
ASSUME FailureAssumption == MaxFailures \in Nat

ObjectIDs == Docs \ Foreign

VARIABLES
    coll,     \* documents in the collection
    used,     \* ids ever inserted
    exists,   \* does the collection exist?
    pc,       \* where the client's walk is
    cursor,   \* the cursor of the page asked for, NoCursor for the first
    pos,      \* the last row the find returned
    served,   \* documents served in this walk
    again,    \* documents served more than once in this walk
    stable,   \* history: documents that were there when the walk began and
              \* were not deleted since
    absent,   \* history: the collection did not exist at some time of the walk
    failures

collVars == <<coll, used, exists>>
vars == <<collVars, pc, cursor, pos, pagingVars, served, again, stable, absent, failures>>

\* Type invariant.
TypeOK ==
    /\ PagingTypeOK
    /\ coll \subseteq used /\ used \subseteq Docs
    /\ exists \in BOOLEAN
    /\ pc \in {"ask", "refused", "drain", "exists", "done", "notFound"}
    /\ cursor \in Docs \cup {NoCursor}
    /\ pos \in Docs \cup {NoCursor}
    /\ served \subseteq Docs /\ again \subseteq Docs /\ stable \subseteq coll
    /\ absent \in BOOLEAN
    /\ failures \in 0 .. MaxFailures

Init ==
    /\ coll = Initial /\ used = Initial /\ stable = Initial
    /\ exists \in {TRUE, Initial # {}}
    /\ pc = "ask" /\ cursor = NoCursor /\ pos = NoCursor
    /\ Fresh
    /\ served = {} /\ again = {}
    /\ absent = ~exists
    /\ failures = 0

-----------------------------------------------------------------------------
\* MUTANT: $lte instead of $lt.
Matches_Inclusive(d) == cursor = NoCursor \/ (d <= cursor /\ d \in ObjectIDs)

\* decodeCursor yields the id; the find compares ids of its type only.
Matches(d) == cursor = NoCursor \/ (d < cursor /\ d \in ObjectIDs)

\* The rows the find has not passed yet.
Ahead == {d \in coll : Matches(d) /\ (pos = NoCursor \/ d < pos)}

\* GetDocuments runs the query of a page.
Ask ==
    /\ pc \in {"ask", "refused"}
    /\ parseLimit
    /\ Accepted(cursor, cursor')
    /\ cursor' \in ObjectIDs \cup {NoCursor}
    /\ pc' = "drain"
    /\ pos' = NoCursor
    /\ UNCHANGED <<collVars, page, total, served, again, stable, absent, failures>>

\* 400, and the client corrects its request.
Refuse ==
    /\ pc = "ask"
    /\ Refused
    /\ pc' = "refused"
    /\ UNCHANGED <<collVars, cursor, pos, pagingVars, served, again, stable, absent, failures>>

\* Document d is the next of them.
NextRow(d) == d \in Ahead /\ \A e \in Ahead : e <= d

\* drain: the next row fits into the page.
Drain(d) ==
    /\ pc = "drain"
    /\ WantsMore
    /\ NextRow(d)
    /\ Take(d)
    /\ pos' = d
    /\ UNCHANGED <<collVars, pc, cursor, served, again, stable, absent, failures>>

\* MUTANT: the cursor is an id next to the one served.
cursorOf_OffByOne(d) == d - 1

\* The cursor after document d; Document.ID knows ObjectIDs only.
cursorOf(d) == IF d \in ObjectIDs THEN d ELSE NoCursor

\* finish and the client: serve the page, follow its cursor if there is one.
Serve(truncated) ==
    LET next == IF More(truncated) /\ Served # <<>> THEN cursorOf(LastServed) ELSE NoCursor
    IN  /\ served' = served \cup ServedSet
        /\ again' = again \cup (served \cap ServedSet)
        /\ cursor' = next
        /\ pc' = IF next = NoCursor THEN "done" ELSE "ask"
        /\ Reset
        /\ UNCHANGED <<collVars, pos, stable, absent, failures>>

\* drain: the next row would outgrow the page.
Truncate(d) ==
    /\ pc = "drain"
    /\ WantsMore
    /\ NextRow(d)
    /\ ~Fits(d)
    /\ Serve(TRUE)

\* The cursor is exhausted, by the query's limit or by the collection.
Exhaust ==
    /\ pc = "drain"
    /\ ~WantsMore \/ Ahead = {}
    /\ page # <<>> \/ cursor # NoCursor
    /\ Serve(FALSE)

\* MUTANT: every empty first page is a 404.
Empty_NotFound ==
    /\ pc = "drain"
    /\ Ahead = {} /\ page = <<>> /\ cursor = NoCursor
    /\ pc' = "notFound"
    /\ UNCHANGED <<collVars, cursor, pos, pagingVars, served, again, stable, absent, failures>>

\* absentCollection: an empty first page is looked into.
Empty ==
    /\ pc = "drain"
    /\ Ahead = {} /\ page = <<>> /\ cursor = NoCursor
    /\ pc' = "exists"
    /\ UNCHANGED <<collVars, cursor, pos, pagingVars, served, again, stable, absent, failures>>

collectionExists ==
    /\ pc = "exists"
    /\ pc' = IF exists THEN "done" ELSE "notFound"
    /\ UNCHANGED <<collVars, cursor, pos, pagingVars, served, again, stable, absent, failures>>

\* The find or a later batch of it fails (500); the client asks again.
Fail ==
    /\ pc \in {"drain", "exists"}
    /\ failures < MaxFailures
    /\ failures' = failures + 1
    /\ pc' = "ask"
    /\ Reset
    /\ UNCHANGED <<collVars, cursor, pos, served, again, stable, absent>>

\* The client walks again from the start.
WalkAgain ==
    /\ pc \in {"done", "notFound"}
    /\ pc' = "ask" /\ cursor' = NoCursor
    /\ served' = {} /\ again' = {}
    /\ stable' = coll /\ absent' = ~exists
    /\ UNCHANGED <<collVars, pos, pagingVars, failures>>

-----------------------------------------------------------------------------
walkVars == <<pc, cursor, pos, pagingVars, served, again, failures>>

Insert(d) ==
    /\ d \notin used
    /\ coll' = coll \cup {d}
    /\ used' = used \cup {d}
    /\ exists' = TRUE
    /\ UNCHANGED <<walkVars, stable, absent>>

\* One document of a deleteMany.
Delete(d) ==
    /\ d \in coll
    /\ coll' = coll \ {d}
    /\ stable' = stable \ {d}
    /\ UNCHANGED <<walkVars, used, exists, absent>>

Drop ==
    /\ exists
    /\ coll' = {} /\ stable' = {} /\ exists' = FALSE /\ absent' = TRUE
    /\ UNCHANGED <<walkVars, used>>

Walk ==
    \/ Ask \/ Exhaust \/ Empty \/ collectionExists
    \/ \E d \in Docs : Drain(d) \/ Truncate(d)

Next ==
    \/ Walk \/ Refuse \/ Fail \/ WalkAgain
    \/ \E d \in Docs : Insert(d) \/ Delete(d)
    \/ Drop

Spec == Init /\ [][Next]_vars

\* A client that began a walk goes on; the bridge answers every request.
FairSpec == Spec /\ WF_vars(Walk)

-----------------------------------------------------------------------------
(***************************************************************************)
(* Properties                                                              *)
(***************************************************************************)
\* README.md:51, "the log as written: every revision of every key": a walk
\* that ends has served every document that was there all along, whatever
\* was inserted, deleted or retried meanwhile.  So it is in a collection of
\* ObjectIDs.
EveryRevisionIsServed == pc = "done" => stable \subseteq served

\* What a walk of any collection is worth: an ObjectID that was there all along
\* is missed only behind a foreign id, where a page without a cursor ended.
WalkIsComplete ==
    pc = "done" =>
        \A d \in (stable \ served) \cap ObjectIDs : \E f \in served \ ObjectIDs : d < f

\* No document is served twice in one walk.
ServedOnce == again = {}

\* README.md:127: a collection that does not exist answers 404, an empty one
\* does not.  The answer is right for some moment of the walk.
NotFoundOnlyIfAbsent == pc = "notFound" => absent /\ stable = {}

\* rdt.go:525-526: a page without rows would stall the walk.  Every walk ends,
\* also while documents are inserted.
WalkEnds == pc = "ask" ~> pc \in {"done", "notFound"}
=============================================================================
