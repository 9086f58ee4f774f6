------------------------- MODULE DocumentsWalkProofs -------------------------
(***************************************************************************)
(* For any collection, sizes, limits and budget: what a walk of the log    *)
(* serves, whatever is inserted, deleted and retried while it lasts.       *)
(***************************************************************************)
EXTENDS DocumentsWalk, TLAPS

\* Outside drain there is no page; in drain it falls from below the cursor to
\* the position of the find.
PageOK ==
    /\ pc = "drain" => limit > 0
    /\ pc # "drain" => page = <<>>
    /\ pc = "drain" => pos = IF page = <<>> THEN NoCursor ELSE page[Len(page)]
    /\ \A j, k \in 1 .. Len(page) : j < k => page[k] < page[j]
    /\ \A k \in 1 .. Len(page) : Matches(page[k])

\* The page has what the find has passed and nobody has deleted.
PageIsComplete ==
    pc = "drain" /\ pos # NoCursor =>
        \A d \in stable : Matches(d) /\ pos <= d => \E k \in 1 .. Len(page) : page[k] = d

\* The cursor parts what was served from what was not.
CursorOK ==
    /\ cursor \in ObjectIDs \cup {NoCursor}
    /\ pc \notin {"done", "notFound"} /\ cursor = NoCursor => served = {}
    /\ pc \notin {"done", "notFound"} /\ cursor # NoCursor => \A d \in served : cursor <= d
    /\ cursor # NoCursor => \A d \in stable \cap ObjectIDs : cursor <= d => d \in served
    /\ pc \in {"done", "notFound"} => cursor = NoCursor

\* An empty first page is the answer of an empty collection.
EmptyOK ==
    /\ pc \in {"exists", "notFound"} => stable = {}
    /\ ~exists => absent
    /\ pc = "exists" => cursor = NoCursor
    /\ pc = "notFound" => absent

IInv ==
    /\ TypeOK
    /\ PageOK /\ PageIsComplete
    /\ CursorOK /\ EmptyOK
    /\ ServedOnce /\ WalkIsComplete

-----------------------------------------------------------------------------
LEMMA AppendFacts ==
  ASSUME NEW S, NEW s \in Seq(S), NEW e \in S
  PROVE  /\ Append(s, e) \in Seq(S) /\ Len(Append(s, e)) = Len(s) + 1 /\ Len(s) \in Nat
         /\ \A k \in 1 .. Len(s) : Append(s, e)[k] = s[k]
         /\ Append(s, e)[Len(s) + 1] = e
  OBVIOUS

\* finish serves the first rows of the page, and not none of them.
LEMMA ServedFacts ==
  ASSUME page \in Seq(Docs), limit \in Nat, limit > 0
  PROVE  /\ Served \in Seq(Docs) /\ Len(Served) \in 0 .. Len(page)
         /\ \A k \in 1 .. Len(Served) : Served[k] = page[k]
         /\ Len(page) <= limit => Served = page
         /\ page = <<>> <=> Served = <<>>
<1>1. CASE Len(page) > limit
  <2>1. Served = SubSeq(page, 1, limit)
    BY <1>1 DEF Served
  <2>2. /\ SubSeq(page, 1, limit) \in Seq(Docs) /\ Len(SubSeq(page, 1, limit)) = limit
        /\ \A k \in 1 .. limit : SubSeq(page, 1, limit)[k] = page[k]
    BY <1>1
  <2>3. page # <<>> /\ Served # <<>>
    BY <1>1, <2>1, <2>2
  <2> QED
    BY <1>1, <2>1, <2>2, <2>3
<1>2. CASE ~ (Len(page) > limit)
  BY <1>2 DEF Served
<1> QED
  BY <1>1, <1>2

LEMMA InitIInv == Init => IInv
<1> SUFFICES ASSUME Init PROVE IInv
  OBVIOUS
<1> USE DEF Init, Fresh
<1>1. TypeOK
  <2>1. exists \in BOOLEAN /\ absent \in BOOLEAN
    OBVIOUS
  <2>2. PagingTypeOK /\ failures \in 0 .. MaxFailures
    BY LimitAssumption, FailureAssumption DEF PagingTypeOK
  <2> QED
    BY <2>1, <2>2, IdAssumption DEF TypeOK
<1>2. PageOK /\ PageIsComplete
  BY DEF PageOK, PageIsComplete
<1>3. CursorOK
  BY DEF CursorOK
<1>4. EmptyOK
  BY DEF EmptyOK
<1>5. ServedOnce /\ WalkIsComplete
  BY DEF ServedOnce, WalkIsComplete
<1> QED
  BY <1>1, <1>2, <1>3, <1>4, <1>5 DEF IInv

\* A request is made for the page the client's cursor asks for, and no other:
\* a cursor of another view is not accepted.
LEMMA AskStep == IInv /\ Ask => IInv'
<1> SUFFICES ASSUME IInv, Ask PROVE IInv'
  OBVIOUS
<1>1. cursor' = cursor
  BY StrayAssumption DEF Ask, Accepted, pageCursor, decodeCursor
<1>2. /\ limit' \in 1 .. maxLimit
      /\ pc' = "drain" /\ pos' = NoCursor /\ page = <<>>
      /\ UNCHANGED <<coll, used, exists, page, total, served, again, stable, absent, failures>>
  BY LimitAssumption DEF IInv, PageOK, Ask, parseLimit, ValidLimit, collVars
<1>3. TypeOK'
  <2>1. PagingTypeOK'
    BY <1>2, LimitAssumption DEF IInv, TypeOK, PagingTypeOK
  <2> QED
    BY <1>1, <1>2, <2>1 DEF IInv, TypeOK, NoCursor
<1>4. PageOK' /\ PageIsComplete'
  BY <1>2, LimitAssumption DEF PageOK, PageIsComplete
<1>5. CursorOK' /\ EmptyOK' /\ ServedOnce' /\ WalkIsComplete'
  BY <1>1, <1>2 DEF IInv, CursorOK, EmptyOK, ServedOnce, WalkIsComplete, Ask, ObjectIDs
<1> QED
  BY <1>3, <1>4, <1>5 DEF IInv

\* The next row goes to the end of the page.
LEMMA DrainStep ==
  ASSUME IInv, NEW d \in Docs, Drain(d)
  PROVE  IInv'
<1> USE DEF NoCursor
<1>1. /\ pc = "drain" /\ d \in coll /\ Matches(d)
      /\ pos = NoCursor \/ d < pos
      /\ \A e \in coll : Matches(e) /\ (pos = NoCursor \/ e < pos) => e <= d
      /\ page' = Append(page, d) /\ total' = total + Size[d] /\ pos' = d
      /\ UNCHANGED <<coll, used, exists, limit, pc, cursor, served, again, stable, absent, failures>>
  BY DEF Drain, NextRow, Ahead, Take, collVars
<1>2. /\ page \in Seq(Docs) /\ page' \in Seq(Docs) /\ Len(page') = Len(page) + 1 /\ Len(page) \in Nat
      /\ \A k \in 1 .. Len(page) : page'[k] = page[k]
      /\ page'[Len(page) + 1] = d
  BY <1>1, AppendFacts DEF IInv, TypeOK, PagingTypeOK
<1>3. /\ Docs \subseteq Nat \ {0} /\ d \in Nat \ {0}
      /\ \A k \in 1 .. Len(page) : page[k] \in Nat \ {0}
  <2>1. \A k \in 1 .. Len(page) : page[k] \in Docs
    BY <1>2
  <2> QED
    BY <2>1, IdAssumption
<1>4. ASSUME NEW e
      PROVE  Matches(e) <=> Matches(e)'
  BY <1>1 DEF Matches, ObjectIDs
<1>5. TypeOK'
  <2>1. PagingTypeOK'
    BY <1>1, <1>2, SizeAssumption DEF IInv, TypeOK, PagingTypeOK
  <2> QED
    BY <1>1, <2>1 DEF IInv, TypeOK
<1>6. PageOK'
  <2>1. ASSUME NEW k \in 1 .. Len(page)
        PROVE  d < page[k]
    <3>1. pos = page[Len(page)] /\ Len(page) \in 1 .. Len(page)
      BY <1>1, <1>2 DEF IInv, PageOK
    <3>2. d < page[Len(page)] /\ page[Len(page)] \in Nat /\ page[k] \in Nat
      BY <1>1, <1>3, <3>1
    <3>3. k = Len(page) \/ page[Len(page)] < page[k]
      BY <1>2 DEF IInv, PageOK
    <3> QED
      BY <1>3, <3>1, <3>2, <3>3
  <2>2. ASSUME NEW j \in 1 .. Len(page'), NEW k \in 1 .. Len(page'), j < k
        PROVE  page'[k] < page'[j]
    <3>1. CASE k \in 1 .. Len(page)
      BY <1>2, <2>2, <3>1 DEF IInv, PageOK
    <3>2. CASE k = Len(page) + 1
      BY <1>2, <2>1, <2>2, <3>2
    <3> QED
      BY <1>2, <3>1, <3>2
  <2>3. ASSUME NEW k \in 1 .. Len(page')
        PROVE  Matches(page[k])'
    <3>1. CASE k \in 1 .. Len(page)
      BY <1>1, <1>2, <3>1 DEF IInv, PageOK, Matches, ObjectIDs
    <3>2. CASE k = Len(page) + 1
      BY <1>1, <1>2, <3>2 DEF Matches, ObjectIDs
    <3> QED
      BY <1>2, <3>1, <3>2
  <2>4. page' # <<>> /\ pos' = page'[Len(page')] /\ pc' = "drain" /\ limit' > 0
    <3>1. limit > 0
      BY <1>1 DEF IInv, PageOK
    <3>2. page' # <<>> /\ Len(page') = Len(page) + 1
      BY <1>2
    <3> QED
      BY <1>1, <1>2, <3>1, <3>2
  <2> QED
    BY <2>2, <2>3, <2>4 DEF PageOK
<1>7. PageIsComplete'
  <2> SUFFICES ASSUME NEW e \in stable, Matches(e), d <= e
               PROVE  \E k \in 1 .. Len(page') : page'[k] = e
    BY <1>1, <1>4 DEF PageIsComplete
  <2>1. e \in coll /\ e \in Docs
    BY DEF IInv, TypeOK
  <2>2. CASE pos = NoCursor \/ e < pos
    <3>1. e = d
      BY <1>1, <1>3, <2>1, <2>2
    <3> QED
      BY <1>2, <3>1
  <2>3. CASE pos # NoCursor /\ ~ (e < pos)
    <3>1. pos <= e
      BY <1>3, <2>1, <2>3 DEF IInv, TypeOK
    <3>2. PICK k \in 1 .. Len(page) : page[k] = e
      BY <1>1, <2>3, <3>1 DEF IInv, PageIsComplete
    <3> QED
      BY <1>2, <3>2
  <2> QED
    BY <2>2, <2>3
<1>8. CursorOK' /\ EmptyOK' /\ ServedOnce' /\ WalkIsComplete'
  BY <1>1 DEF IInv, CursorOK, EmptyOK, ServedOnce, WalkIsComplete
<1> QED
  BY <1>5, <1>6, <1>7, <1>8 DEF IInv

\* What a page adds to the walk: nothing that was served before, and all that
\* stayed down to its last row; all there is, if it offers no continuation.
LEMMA ServeStep ==
  ASSUME IInv, NEW truncated \in BOOLEAN, pc = "drain", Serve(truncated),
         truncated => page # <<>>,
         ~truncated => ~WantsMore \/ Ahead = {}
  PROVE  IInv'
<1> USE DEF NoCursor
<1> DEFINE next == IF More(truncated) /\ Served # <<>> THEN cursorOf(LastServed) ELSE NoCursor
<1>1. /\ served' = served \cup ServedSet
      /\ again' = again \cup (served \cap ServedSet)
      /\ cursor' = next
      /\ pc' = IF next = NoCursor THEN "done" ELSE "ask"
      /\ limit' = 0 /\ page' = <<>> /\ total' = 0
      /\ UNCHANGED <<coll, used, exists, pos, stable, absent, failures>>
  BY DEF Serve, Reset, collVars
<1>2. /\ page \in Seq(Docs) /\ limit \in Nat /\ limit > 0 /\ Len(page) \in Nat
      /\ \A k \in 1 .. Len(page) : page[k] \in Docs
  BY LimitAssumption DEF IInv, TypeOK, PagingTypeOK, PageOK
<1>3. /\ Served \in Seq(Docs) /\ Len(Served) \in 0 .. Len(page)
      /\ \A k \in 1 .. Len(Served) : Served[k] = page[k]
      /\ Len(page) <= limit => Served = page
      /\ page = <<>> <=> Served = <<>>
  BY <1>2, ServedFacts
<1>4. /\ Docs \subseteq Nat \ {0}
      /\ \A k \in 1 .. Len(page) : page[k] \in Nat \ {0}
  BY <1>2, IdAssumption
<1>5. ServedSet = {page[k] : k \in 1 .. Len(Served)} /\ ServedSet \subseteq Docs
  BY <1>2, <1>3 DEF ServedSet
<1>6. /\ \A j, k \in 1 .. Len(page) : j < k => page[k] < page[j]
      /\ \A k \in 1 .. Len(page) : Matches(page[k])
      /\ pos = IF page = <<>> THEN NoCursor ELSE page[Len(page)]
  BY DEF IInv, PageOK
<1>7. ASSUME Served # <<>>
      PROVE  /\ LastServed \in Docs /\ LastServed \in ServedSet
             /\ \A d \in ServedSet : LastServed <= d
             /\ Matches(LastServed)
  <2>1. Len(Served) \in 1 .. Len(page) /\ LastServed = page[Len(Served)]
    BY <1>2, <1>3, <1>7 DEF LastServed
  <2>2. ASSUME NEW k \in 1 .. Len(Served)
        PROVE  page[Len(Served)] <= page[k]
    <3>1. k = Len(Served) \/ k < Len(Served)
      BY <2>1
    <3>2. k \in 1 .. Len(page) /\ page[k] \in Nat /\ page[Len(Served)] \in Nat
      BY <1>2, <1>4, <2>1
    <3> QED
      BY <1>6, <2>1, <3>1, <3>2
  <2> QED
    BY <1>2, <1>5, <1>6, <2>1, <2>2
<1>8. ASSUME NEW d \in stable, Served # <<>>, d \in ObjectIDs, LastServed <= d
      PROVE  d \in served'
  <2>1. d \in Docs /\ d \in Nat
    BY <1>4, <1>8 DEF ObjectIDs
  <2>2. CASE Matches(d)
    <3>1. Len(Served) \in 1 .. Len(page) /\ LastServed = page[Len(Served)]
      BY <1>2, <1>3, <1>8 DEF LastServed
    <3>2. pos = page[Len(page)] /\ pos <= LastServed /\ pos \in Nat \ {0} /\ LastServed \in Nat
      <4>1. Len(page) \in 1 .. Len(page) /\ page # <<>>
        BY <1>2, <3>1
      <4>2. page[Len(page)] \in Nat \ {0} /\ page[Len(Served)] \in Nat
        BY <1>4, <3>1, <4>1
      <4>3. Len(page) = Len(Served) \/ Len(Served) < Len(page)
        BY <3>1, <4>1
      <4> QED
        BY <1>6, <3>1, <4>1, <4>2, <4>3
    <3>3. pos <= d /\ pos # NoCursor
      BY <1>8, <2>1, <3>2
    <3>4. PICK k \in 1 .. Len(page) : page[k] = d
      BY <2>2, <3>3 DEF IInv, PageIsComplete
    <3>5. k <= Len(Served)
      <4>1. CASE Len(Served) < k
        <5>1. page[k] < page[Len(Served)]
          BY <1>6, <3>1, <3>4, <4>1
        <5> QED
          BY <1>8, <2>1, <3>1, <3>2, <3>4, <5>1
      <4> QED
        BY <1>2, <3>1, <3>4, <4>1
    <3> QED
      BY <1>1, <1>5, <3>1, <3>4, <3>5
  <2>3. CASE ~Matches(d)
    <3>1. cursor # NoCursor /\ cursor <= d
      BY <1>4, <1>8, <2>1, <2>3 DEF Matches, IInv, TypeOK
    <3> QED
      BY <1>1, <1>8, <3>1 DEF IInv, CursorOK
  <2> QED
    BY <2>2, <2>3
<1>9. ASSUME NEW d \in stable, d \in ObjectIDs, ~ (More(truncated) /\ Served # <<>>)
      PROVE  d \in served'
  <2>0. d \in Docs /\ d \in coll
    BY DEF ObjectIDs, IInv, TypeOK
  <2>1. ~truncated /\ Len(page) <= limit
    BY <1>2, <1>3, <1>9 DEF More
  <2>2. Ahead = {} /\ Served = page
    BY <1>2, <1>3, <2>1 DEF WantsMore
  <2>3. CASE Matches(d)
    <3>1. pos # NoCursor /\ ~ (d < pos)
      BY <2>0, <2>2, <2>3 DEF Ahead
    <3>2. pos <= d
      BY <1>4, <2>0, <3>1 DEF IInv, TypeOK
    <3>3. PICK k \in 1 .. Len(page) : page[k] = d
      BY <2>3, <3>1, <3>2 DEF IInv, PageIsComplete
    <3> QED
      BY <1>1, <1>5, <2>2, <3>3
  <2>4. CASE ~Matches(d)
    <3>1. cursor # NoCursor /\ cursor <= d
      BY <1>4, <1>9, <2>0, <2>4 DEF Matches, IInv, TypeOK
    <3> QED
      BY <1>1, <1>9, <3>1 DEF IInv, CursorOK
  <2> QED
    BY <2>3, <2>4
<1>10. next # NoCursor =>
         /\ Served # <<>> /\ next = LastServed /\ next \in ObjectIDs /\ next \in Docs
  BY <1>7 DEF cursorOf
<1> HIDE DEF next
<1>11. TypeOK'
  <2>1. PagingTypeOK'
    BY <1>1, LimitAssumption DEF PagingTypeOK
  <2>2. next \in Docs \cup {NoCursor}
    BY <1>10
  <2> QED
    BY <1>1, <1>5, <2>1, <2>2 DEF IInv, TypeOK
<1>12. PageOK' /\ PageIsComplete'
  BY <1>1 DEF PageOK, PageIsComplete
<1>13. CursorOK'
  <2>1. cursor' \in ObjectIDs \cup {NoCursor}
    BY <1>1, <1>10
  <2>2. pc' \in {"done", "notFound"} <=> cursor' = NoCursor
    BY <1>1
  <2>3. ASSUME cursor' # NoCursor, NEW d \in served'
        PROVE  cursor' <= d
    <3>1. cursor' = LastServed /\ Served # <<>> /\ LastServed \in Docs
      BY <1>1, <1>7, <1>10, <2>3
    <3>2. CASE d \in ServedSet
      BY <1>7, <3>1, <3>2
    <3>3. CASE d \in served
      <4>1. cursor # NoCursor /\ cursor <= d /\ cursor \in Docs /\ d \in Docs
        BY <3>3 DEF IInv, TypeOK, CursorOK
      <4>2. LastServed < cursor
        BY <1>7, <3>1, <4>1 DEF Matches
      <4> QED
        BY <1>4, <3>1, <4>1, <4>2
    <3> QED
      BY <1>1, <2>3, <3>2, <3>3
  <2>4. ASSUME cursor' # NoCursor, NEW d \in stable \cap ObjectIDs, cursor' <= d
        PROVE  d \in served'
    <3>1. cursor' = LastServed /\ Served # <<>> /\ LastServed \in ObjectIDs /\ LastServed \in Docs
      BY <1>1, <1>7, <1>10, <2>4
    <3> QED
      BY <1>8, <2>4, <3>1
  <2> QED
    BY <1>1, <2>1, <2>2, <2>3, <2>4 DEF CursorOK
<1>14. EmptyOK'
  BY <1>1 DEF IInv, EmptyOK
<1>15. ServedOnce'
  <2>1. ASSUME NEW d \in served, d \in ServedSet
        PROVE  FALSE
    <3>1. cursor # NoCursor /\ cursor <= d /\ cursor \in Docs /\ d \in Docs
      BY <2>1 DEF IInv, TypeOK, CursorOK
    <3>2. d < cursor
      BY <1>3, <1>5, <1>6, <2>1, <3>1 DEF Matches
    <3> QED
      BY <1>4, <3>1, <3>2
  <2> QED
    BY <1>1, <2>1 DEF IInv, ServedOnce
<1>16. WalkIsComplete'
  <2> SUFFICES ASSUME next = NoCursor, NEW d \in stable, d \in ObjectIDs, d \notin served'
               PROVE  \E f \in served' \ ObjectIDs : d < f
    BY <1>1 DEF WalkIsComplete, ObjectIDs
  <2>1. More(truncated) /\ Served # <<>>
    BY <1>9
  <2>2. LastServed \notin ObjectIDs /\ LastServed \in served' /\ LastServed \in Docs
    BY <1>1, <1>4, <1>7, <2>1 DEF next, cursorOf
  <2>3. d < LastServed
    BY <1>4, <1>8, <2>1, <2>2 DEF ObjectIDs
  <2> QED
    BY <2>2, <2>3
<1> QED
  BY <1>11, <1>12, <1>13, <1>14, <1>15, <1>16 DEF IInv

\* An empty first page.
LEMMA EmptyStep == IInv /\ (Empty \/ collectionExists) => IInv'
<1> SUFFICES ASSUME IInv, Empty \/ collectionExists PROVE IInv'
  OBVIOUS
<1>1. /\ UNCHANGED <<coll, used, exists, cursor, pos, limit, page, total, served, again, stable,
                     absent, failures>>
      /\ page = <<>> /\ cursor = NoCursor /\ stable = {}
  <2>1. CASE Empty
    <3>1. pos = NoCursor /\ coll = {}
      BY <2>1 DEF Empty, IInv, PageOK, Ahead, Matches
    <3> QED
      BY <2>1, <3>1 DEF Empty, collVars, pagingVars, IInv, TypeOK
  <2>2. CASE collectionExists
    BY <2>2 DEF collectionExists, collVars, pagingVars, IInv, PageOK, EmptyOK
  <2> QED
    BY <2>1, <2>2
<1>2. /\ pc \in {"drain", "exists"} /\ pc' \in {"exists", "done", "notFound"}
      /\ pc' = "notFound" => ~exists
  BY DEF Empty, collectionExists
<1>3. TypeOK'
  BY <1>1, <1>2 DEF IInv, TypeOK, PagingTypeOK
<1>4. PageOK' /\ PageIsComplete'
  BY <1>1, <1>2 DEF PageOK, PageIsComplete
<1>5. CursorOK' /\ ServedOnce' /\ WalkIsComplete'
  BY <1>1, <1>2 DEF IInv, CursorOK, ServedOnce, WalkIsComplete, ObjectIDs
<1>6. EmptyOK'
  BY <1>1, <1>2 DEF IInv, EmptyOK
<1> QED
  BY <1>3, <1>4, <1>5, <1>6 DEF IInv

\* The client's other steps: nothing of the walk is lost, or all of it begins
\* anew.
LEMMA ClientStep == IInv /\ (Refuse \/ Fail \/ WalkAgain) => IInv'
<1> SUFFICES ASSUME IInv, Refuse \/ Fail \/ WalkAgain PROVE IInv'
  OBVIOUS
<1>1. CASE Refuse
  <2>1. /\ pc = "ask" /\ pc' = "refused"
        /\ UNCHANGED <<coll, used, exists, cursor, pos, limit, page, total, served, again, stable,
                       absent, failures>>
    BY <1>1 DEF Refuse, collVars, pagingVars
  <2>2. TypeOK'
    BY <2>1 DEF IInv, TypeOK, PagingTypeOK
  <2>3. PageOK' /\ PageIsComplete'
    BY <2>1 DEF IInv, PageOK, PageIsComplete, Matches
  <2>4. CursorOK' /\ EmptyOK' /\ ServedOnce' /\ WalkIsComplete'
    BY <2>1 DEF IInv, CursorOK, EmptyOK, ServedOnce, WalkIsComplete, ObjectIDs
  <2> QED
    BY <2>2, <2>3, <2>4 DEF IInv
<1>2. CASE Fail
  <2>1. /\ pc \in {"drain", "exists"} /\ pc' = "ask" /\ failures' \in 0 .. MaxFailures
        /\ limit' = 0 /\ page' = <<>> /\ total' = 0
        /\ UNCHANGED <<coll, used, exists, cursor, pos, served, again, stable, absent>>
    BY <1>2, FailureAssumption DEF Fail, Reset, collVars, IInv, TypeOK
  <2>2. TypeOK'
    BY <2>1, LimitAssumption DEF IInv, TypeOK, PagingTypeOK
  <2>3. PageOK' /\ PageIsComplete'
    BY <2>1 DEF PageOK, PageIsComplete
  <2>4. CursorOK' /\ EmptyOK' /\ ServedOnce' /\ WalkIsComplete'
    BY <2>1 DEF IInv, CursorOK, EmptyOK, ServedOnce, WalkIsComplete, ObjectIDs
  <2> QED
    BY <2>2, <2>3, <2>4 DEF IInv
<1>3. CASE WalkAgain
  <2>1. /\ pc \in {"done", "notFound"} /\ pc' = "ask" /\ cursor' = NoCursor
        /\ served' = {} /\ again' = {} /\ stable' = coll
        /\ UNCHANGED <<coll, used, exists, pos, limit, page, total, failures>>
    BY <1>3 DEF WalkAgain, collVars, pagingVars
  <2>2. absent' \in BOOLEAN /\ (~exists' => absent')
    BY <1>3 DEF WalkAgain, collVars
  <2>3. TypeOK'
    BY <2>1, <2>2 DEF IInv, TypeOK, PagingTypeOK
  <2>4. PageOK' /\ PageIsComplete'
    BY <2>1 DEF IInv, PageOK, PageIsComplete
  <2>5. CursorOK' /\ EmptyOK' /\ ServedOnce' /\ WalkIsComplete'
    BY <2>1, <2>2 DEF CursorOK, EmptyOK, ServedOnce, WalkIsComplete
  <2> QED
    BY <2>3, <2>4, <2>5 DEF IInv
<1> QED
  BY <1>1, <1>2, <1>3

\* Writers and operators: an insert is no document that stayed, and a delete
\* only takes from those.
LEMMA CollectionStep ==
  ASSUME IInv, (\E d \in Docs : Insert(d) \/ Delete(d)) \/ Drop
  PROVE  IInv'
<1>1. /\ UNCHANGED <<pc, cursor, pos, limit, page, total, served, again, failures>>
      /\ stable' \subseteq stable /\ stable' \subseteq coll' /\ coll' \subseteq used'
      /\ used' \subseteq Docs
  BY DEF Insert, Delete, Drop, walkVars, pagingVars, IInv, TypeOK
<1>2. /\ exists' \in BOOLEAN /\ absent' \in BOOLEAN
      /\ absent => absent'
      /\ ~exists' => absent'
  BY DEF Insert, Delete, Drop, IInv, TypeOK, EmptyOK
<1>3. TypeOK'
  BY <1>1, <1>2 DEF IInv, TypeOK, PagingTypeOK
<1>4. PageOK' /\ PageIsComplete'
  BY <1>1 DEF IInv, PageOK, PageIsComplete, Matches
<1>5. CursorOK' /\ ServedOnce' /\ WalkIsComplete'
  BY <1>1 DEF IInv, CursorOK, ServedOnce, WalkIsComplete, ObjectIDs
<1>6. EmptyOK'
  <2>1. stable = {} => stable' = {}
    BY <1>1
  <2> QED
    BY <1>1, <1>2, <2>1 DEF IInv, EmptyOK
<1> QED
  BY <1>3, <1>4, <1>5, <1>6 DEF IInv

LEMMA NextIInv == IInv /\ [Next]_vars => IInv'
<1> SUFFICES ASSUME IInv, [Next]_vars PROVE IInv'
  OBVIOUS
<1>1. CASE Ask
  BY <1>1, AskStep
<1>2. ASSUME NEW d \in Docs, Drain(d) PROVE IInv'
  BY <1>2, DrainStep
<1>3. ASSUME NEW d \in Docs, Truncate(d) PROVE IInv'
  BY <1>3, ServeStep DEF Truncate, Fits
<1>4. CASE Exhaust
  BY <1>4, ServeStep DEF Exhaust
<1>5. CASE Empty \/ collectionExists
  BY <1>5, EmptyStep
<1>6. CASE Refuse \/ Fail \/ WalkAgain
  BY <1>6, ClientStep
<1>7. CASE (\E d \in Docs : Insert(d) \/ Delete(d)) \/ Drop
  BY <1>7, CollectionStep
<1>8. CASE UNCHANGED vars
  <2>1. UNCHANGED <<coll, used, exists, pc, cursor, pos, limit, page, total, served, again, stable,
                    absent, failures>>
    BY <1>8 DEF vars, collVars, pagingVars
  <2> QED
    BY <2>1 DEF IInv, TypeOK, PagingTypeOK, PageOK, PageIsComplete, Matches, CursorOK, EmptyOK,
                ServedOnce, WalkIsComplete, ObjectIDs
<1> QED
  BY <1>1, <1>2, <1>3, <1>4, <1>5, <1>6, <1>7, <1>8 DEF Next, Walk

\* The invariant holds in every reachable state.
THEOREM Invariance == Spec => []IInv
  BY InitIInv, NextIInv, PTL DEF Spec

-----------------------------------------------------------------------------
\* Type correctness.
THEOREM TypeCorrect == Spec => []TypeOK
<1>1. IInv => TypeOK
  BY DEF IInv
<1> QED
  BY <1>1, Invariance, PTL

\* Whatever ids the collection has, a walk that is done misses an ObjectID
\* only behind a foreign id it has served.
THEOREM MissedBehindForeignOnly == Spec => []WalkIsComplete
<1>1. IInv => WalkIsComplete
  BY DEF IInv
<1> QED
  BY <1>1, Invariance, PTL

\* In a collection of ObjectIDs it misses nothing.
THEOREM NothingIsMissed ==
  ASSUME Foreign = {}
  PROVE  Spec => []EveryRevisionIsServed
<1>1. IInv => EveryRevisionIsServed
  BY DEF IInv, TypeOK, WalkIsComplete, ObjectIDs, EveryRevisionIsServed
<1> QED
  BY <1>1, Invariance, PTL

\* No walk serves a document twice.
THEOREM NoRowTwice == Spec => []ServedOnce
<1>1. IInv => ServedOnce
  BY DEF IInv
<1> QED
  BY <1>1, Invariance, PTL

\* A 404 was true at some moment of the walk, and no document is left out
\* by it.
THEOREM NotFoundIsTrue == Spec => []NotFoundOnlyIfAbsent
<1>1. IInv => NotFoundOnlyIfAbsent
  BY DEF IInv, EmptyOK, NotFoundOnlyIfAbsent
<1> QED
  BY <1>1, Invariance, PTL
=============================================================================
