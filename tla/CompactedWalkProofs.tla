------------------------- MODULE CompactedWalkProofs -------------------------
(***************************************************************************)
(* For any collection, keys and timestamps: what a client that walks the   *)
(* compacted view has, and what it may rely on between two walks.          *)
(***************************************************************************)
EXTENDS CompactedWalk, FiniteSetTheorems, WellFoundedInduction, TLAPS

PageDocs == {page[k] : k \in 1 .. Len(page)}

\* The rows of an aggregation have keys of their own, beyond the cursor; the
\* page has the smallest, in order.
RowsOK ==
    /\ pc \in {"scan", "drain"} => limit > 0
    /\ pc # "drain" => page = <<>> /\ rows = {}
    /\ \A d \in rows \cup PageDocs : KeyOf[d] \in Keys /\ cursor < KeyOf[d]
    /\ \A d, e \in rows : KeyOf[d] = KeyOf[e] => d = e
    /\ \A j, k \in 1 .. Len(page) : j < k => KeyOf[page[j]] < KeyOf[page[k]]
    /\ \A d \in PageDocs, e \in rows : KeyOf[d] < KeyOf[e]

\* ... and no document that stayed is newer than the row of its key.
RowsAreNewest ==
    pc = "drain" =>
        \A e \in kept : KeyOf[e] # NoKey /\ cursor < KeyOf[e] =>
            \E d \in rows \cup PageDocs : KeyOf[d] = KeyOf[e] /\ AtLeastAsNew(d, e)

\* A scan sees a finite collection, and all of it that stays.
ScanOK ==
    /\ pc = "scan" => kept \subseteq lo
    /\ IsFiniteSet(coll) /\ IsFiniteSet(hi)

\* The client has each row under its key.
TableOK == \A k \in Keys : current[k] # NoDoc => KeyOf[current[k]] = k

\* Up to its cursor the client is current, and beyond it has nothing.
CursorOK ==
    /\ pc \in {"exists", "done", "notFound"} => cursor = NoCursor
    /\ pc \notin {"done", "notFound"} => \A k \in served : k <= cursor
    /\ \A e \in kept : KeyOf[e] # NoKey /\ KeyOf[e] <= cursor =>
          KeyOf[e] \in served /\ AtLeastAsNew(current[KeyOf[e]], e)
    /\ pc = "exists" => \A e \in kept : KeyOf[e] = NoKey

IInv ==
    /\ TypeOK
    /\ RowsOK /\ RowsAreNewest /\ ScanOK
    /\ TableOK /\ CursorOK /\ WalkIsCurrent

-----------------------------------------------------------------------------
(***************************************************************************)
(* What "newest" means.                                                    *)
(***************************************************************************)
\* A set of numbers that is not empty has a least one.
LEMMA LeastNumber ==
  ASSUME NEW S \in SUBSET Nat, S # {}
  PROVE  \E m \in S : \A k \in S : m <= k
<1> DEFINE R == OpToRel(<, Nat)
<1>1. \A i, j \in Nat : i < j => <<i, j>> \in R
  BY DEF OpToRel
<1> HIDE DEF R
<1>2. PICK m \in S : \A k \in S : ~ (<<k, m>> \in R)
  BY NatLessThanWellFounded, WFMin DEF R
<1>3. ASSUME NEW k \in S
      PROVE  m <= k
  <2>1. m \in Nat /\ k \in Nat
    OBVIOUS
  <2>2. ~ (k < m)
    BY <2>1, <1>1, <1>2
  <2> QED
    BY <2>1, <2>2
<1> QED
  BY <1>3

\* Timestamp and _id order the documents, all of them.
LEMMA NewerOrders ==
  /\ \A d, e \in Docs : d # e => Newer(d, e) \/ Newer(e, d)
  /\ \A d, e \in Docs : ~ (Newer(d, e) /\ Newer(e, d))
  /\ \A c, d, e \in Docs : Newer(c, d) /\ Newer(d, e) => Newer(c, e)
  /\ \A d, e \in Docs : Newer(d, e) => AtLeastAsNew(d, e)
  /\ \A d \in Docs : AtLeastAsNew(d, d)
<1>1. \A d \in Docs : d \in Nat /\ Stamp[d] \in Nat
  BY IdAssumption, DocumentAssumption
<1> QED
  BY <1>1 DEF Newer, AtLeastAsNew

\* Of finitely many documents one is the newest.
LEMMA NewestExists ==
  ASSUME NEW S \in SUBSET Docs, IsFiniteSet(S), S # {}
  PROVE  \E m \in S : \A e \in S \ {m} : Newer(m, e)
<1> DEFINE HasNewest(U) == \E m \in U : \A e \in U \ {m} : Newer(m, e)
<1> DEFINE Sizes == {n \in Nat : \E U \in SUBSET S : U # {} /\ ~HasNewest(U) /\ Cardinality(U) = n}
<1> SUFFICES ASSUME ~HasNewest(S) PROVE FALSE
  OBVIOUS
<1>1. \A U \in SUBSET S : IsFiniteSet(U) /\ Cardinality(U) \in Nat
  BY FS_Subset, FS_CardinalityType
<1>2. Sizes \in SUBSET Nat /\ Sizes # {}
  BY <1>1
<1>3. PICK n \in Sizes : \A k \in Sizes : n <= k
  <2> HIDE DEF Sizes
  <2> QED
    BY <1>2, LeastNumber
<1>4. PICK U \in SUBSET S : U # {} /\ ~HasNewest(U) /\ Cardinality(U) = n
  BY <1>3
<1>5. PICK x \in U : TRUE
  BY <1>4
<1> DEFINE V == U \ {x}
<1>6. Cardinality(V) = n - 1 /\ n \in Nat /\ V \in SUBSET S
  BY <1>1, <1>3, <1>4, <1>5, FS_RemoveElement
<1>7. V = {} \/ HasNewest(V)
  <2>1. ASSUME V # {}, ~HasNewest(V) PROVE FALSE
    <3>1. n - 1 \in Sizes
      BY <1>1, <1>6, <2>1
    <3> HIDE DEF Sizes
    <3> QED
      BY <1>3, <1>6, <3>1
  <2> QED
    BY <2>1
<1>8. CASE V = {}
  BY <1>4, <1>5, <1>8
<1>9. CASE HasNewest(V)
  <2>1. PICK m \in V : \A e \in V \ {m} : Newer(m, e)
    BY <1>9
  <2>2. m \in Docs /\ x \in Docs /\ m # x /\ U \subseteq Docs
    BY <1>4, <1>5, <2>1
  <2>3. CASE Newer(m, x)
    <3>1. \A e \in U \ {m} : Newer(m, e)
      BY <2>1, <2>3
    <3> QED
      BY <1>4, <2>1, <3>1
  <2>4. CASE Newer(x, m)
    <3>1. \A e \in U \ {x} : Newer(x, e)
      BY <2>1, <2>2, <2>4, NewerOrders
    <3> QED
      BY <1>4, <1>5, <3>1
  <2> QED
    BY <2>2, <2>3, <2>4, NewerOrders
<1> QED
  BY <1>7, <1>8, <1>9

\* What an aggregation returns: the newest document of each key beyond the
\* cursor, and nothing else.
LEMMA CompactedFacts ==
  ASSUME NEW seen \in SUBSET Docs, IsFiniteSet(seen)
  PROVE  /\ Compacted(seen) \subseteq seen
         /\ \A d \in Compacted(seen) : KeyOf[d] \in Keys /\ cursor < KeyOf[d]
         /\ \A d, e \in Compacted(seen) : KeyOf[d] = KeyOf[e] => d = e
         /\ \A e \in seen : KeyOf[e] # NoKey /\ cursor < KeyOf[e] =>
               \E d \in Compacted(seen) : KeyOf[d] = KeyOf[e] /\ AtLeastAsNew(d, e)
<1> DEFINE matching == {d \in seen : KeyOf[d] # NoKey /\ KeyOf[d] > cursor}
<1>1. Compacted(seen) =
        {d \in matching : \A e \in matching \ {d} : KeyOf[e] = KeyOf[d] => Newer(d, e)}
  BY DEF Compacted
<1>2. \A d \in seen : KeyOf[d] \in Keys \cup {NoKey}
  BY DocumentAssumption
<1>3. \A d \in Compacted(seen) : d \in seen /\ KeyOf[d] \in Keys /\ cursor < KeyOf[d]
  BY <1>1, <1>2
<1>4. ASSUME NEW d \in Compacted(seen), NEW e \in Compacted(seen), KeyOf[d] = KeyOf[e]
      PROVE  d = e
  BY <1>1, <1>4, NewerOrders
<1>5. ASSUME NEW e \in seen, KeyOf[e] # NoKey, cursor < KeyOf[e]
      PROVE  \E d \in Compacted(seen) : KeyOf[d] = KeyOf[e] /\ AtLeastAsNew(d, e)
  <2> DEFINE S == {d \in seen : KeyOf[d] = KeyOf[e]}
  <2>1. S \in SUBSET Docs /\ S \subseteq seen /\ e \in S
    OBVIOUS
  <2>2. IsFiniteSet(S)
    BY <2>1, FS_Subset
  <2>3. PICK m \in S : \A d \in S \ {m} : Newer(m, d)
    <3> HIDE DEF S
    <3> QED
      BY <2>1, <2>2, NewestExists
  <2>4. m \in Compacted(seen)
    BY <1>1, <1>5, <2>3
  <2>5. AtLeastAsNew(m, e)
    BY <2>1, <2>3, NewerOrders
  <2> QED
    BY <2>3, <2>4, <2>5
<1> QED
  BY <1>3, <1>4, <1>5

-----------------------------------------------------------------------------
(***************************************************************************)
(* What a page is.                                                         *)
(***************************************************************************)
LEMMA AppendFacts ==
  ASSUME NEW S, NEW s \in Seq(S), NEW e \in S
  PROVE  /\ Append(s, e) \in Seq(S) /\ Len(Append(s, e)) = Len(s) + 1 /\ Len(s) \in Nat
         /\ \A k \in 1 .. Len(s) : Append(s, e)[k] = s[k]
         /\ Append(s, e)[Len(s) + 1] = e
  OBVIOUS

\* finish serves the first rows of the page, and not none of them.
LEMMA ServedFacts ==
  ASSUME page \in Seq(Docs), limit \in Nat, limit > 0
  PROVE  /\ Served \in Seq(Docs) /\ Len(Served) \in 0 .. Len(page)
         /\ \A k \in 1 .. Len(Served) : Served[k] = page[k]
         /\ Len(page) <= limit => Served = page
         /\ page = <<>> <=> Served = <<>>
         /\ ServedSet = {page[k] : k \in 1 .. Len(Served)} /\ ServedSet \subseteq PageDocs
<1>1. CASE Len(page) > limit
  <2>1. Served = SubSeq(page, 1, limit)
    BY <1>1 DEF Served
  <2>2. /\ SubSeq(page, 1, limit) \in Seq(Docs) /\ Len(SubSeq(page, 1, limit)) = limit
        /\ \A k \in 1 .. limit : SubSeq(page, 1, limit)[k] = page[k]
    BY <1>1
  <2>3. page # <<>> /\ Served # <<>>
    BY <1>1, <2>1, <2>2
  <2>4. ServedSet = {page[k] : k \in 1 .. Len(Served)} /\ ServedSet \subseteq PageDocs
    BY <1>1, <2>1, <2>2 DEF ServedSet, PageDocs
  <2> QED
    BY <1>1, <2>1, <2>2, <2>3, <2>4
<1>2. CASE ~ (Len(page) > limit)
  BY <1>2 DEF Served, ServedSet, PageDocs
<1> QED
  BY <1>1, <1>2

\* Keys are numbers, whatever else NoKey is.
LEMMA KeyFacts ==
  /\ Keys \subseteq Nat \ {0} /\ NoKey \notin Keys
  /\ \A d \in Docs : KeyOf[d] # NoKey <=> KeyOf[d] \in Keys
  BY KeyAssumption, DocumentAssumption

LEMMA WalkFacts ==
  ASSUME IInv
  PROVE  /\ cursor \in Nat /\ served \subseteq Keys /\ kept \subseteq Docs
         /\ \A e \in kept : KeyOf[e] # NoKey => KeyOf[e] \in Keys /\ KeyOf[e] \in Nat \ {0}
         /\ \A d \in rows \cup PageDocs : KeyOf[d] \in Keys /\ KeyOf[d] \in Nat \ {0}
<1>1. cursor \in Keys \cup {0} /\ served \subseteq Keys /\ kept \subseteq Docs
  BY DEF IInv, TypeOK, NoCursor
<1>2. \A d \in rows \cup PageDocs : KeyOf[d] \in Keys
  BY DEF IInv, RowsOK
<1>3. cursor \in Nat
  BY <1>1, KeyFacts
<1>4. \A e \in kept : KeyOf[e] # NoKey => KeyOf[e] \in Keys
  BY <1>1, KeyFacts
<1> QED
  BY <1>1, <1>2, <1>3, <1>4, KeyFacts

-----------------------------------------------------------------------------
LEMMA InitIInv == Init => IInv
<1> SUFFICES ASSUME Init PROVE IInv
  OBVIOUS
<1> USE DEF Init, Fresh
<1>1. TypeOK
  <2>1. exists \in BOOLEAN
    OBVIOUS
  <2>2. /\ PagingTypeOK /\ failures \in 0 .. MaxFailures /\ purges \in 0 .. MaxPurges
        /\ cutoff \in Nat
    BY LimitAssumption, BoundAssumption DEF PagingTypeOK
  <2> QED
    BY <2>1, <2>2, IdAssumption DEF TypeOK
<1>2. RowsOK /\ RowsAreNewest
  BY DEF RowsOK, RowsAreNewest, PageDocs
<1>3. ScanOK
  BY IdAssumption, FS_EmptySet DEF ScanOK
<1>4. TableOK
  BY DEF TableOK
<1>5. CursorOK
  <2>1. \A e \in kept : KeyOf[e] # NoKey => KeyOf[e] \in Nat \ {0}
    BY KeyFacts, IdAssumption
  <2> QED
    BY <2>1 DEF CursorOK, NoCursor
<1>6. WalkIsCurrent
  BY DEF WalkIsCurrent
<1> QED
  BY <1>1, <1>2, <1>3, <1>4, <1>5, <1>6 DEF IInv

\* A cursor of another view is not accepted.
LEMMA AskStep == IInv /\ Ask => IInv'
<1> SUFFICES ASSUME IInv, Ask PROVE IInv'
  OBVIOUS
<1>1. cursor' = cursor
  BY StrayAssumption DEF Ask, Accepted, pageCursor, decodeCursor
<1>2. /\ limit' \in 1 .. maxLimit
      /\ pc \in {"ask", "refused"} /\ pc' = "scan" /\ page = <<>> /\ lo' = coll /\ hi' = coll
      /\ UNCHANGED <<coll, used, exists, cutoff, purges, rows, page, total, current, served, kept,
                     failures>>
  BY LimitAssumption DEF IInv, RowsOK, Ask, parseLimit, ValidLimit, collVars
<1>3. TypeOK'
  <2>1. PagingTypeOK'
    BY <1>2, LimitAssumption DEF IInv, TypeOK, PagingTypeOK
  <2> QED
    BY <1>1, <1>2, <2>1 DEF IInv, TypeOK
<1>4. RowsOK' /\ RowsAreNewest'
  BY <1>1, <1>2 DEF IInv, RowsOK, RowsAreNewest, PageDocs
<1>5. ScanOK'
  BY <1>2 DEF IInv, TypeOK, ScanOK
<1>6. TableOK' /\ CursorOK' /\ WalkIsCurrent'
  BY <1>1, <1>2 DEF IInv, TableOK, CursorOK, WalkIsCurrent
<1> QED
  BY <1>3, <1>4, <1>5, <1>6 DEF IInv

LEMMA ScanStep == IInv /\ Scan => IInv'
<1> SUFFICES ASSUME IInv, Scan PROVE IInv'
  OBVIOUS
<1>1. PICK seen \in SUBSET hi : lo \subseteq seen /\ rows' = Compacted(seen)
  BY DEF Scan
<1>2. /\ pc = "scan" /\ pc' = "drain" /\ lo' = {} /\ hi' = {}
      /\ UNCHANGED <<coll, used, exists, cutoff, purges, cursor, limit, page, total, current, served,
                     kept, failures>>
  BY DEF Scan, collVars, pagingVars
<1>3. seen \in SUBSET Docs /\ IsFiniteSet(seen) /\ kept \subseteq seen
  BY <1>1, <1>2, FS_Subset DEF IInv, TypeOK, ScanOK
<1>4. /\ rows' \subseteq seen
      /\ \A d \in rows' : KeyOf[d] \in Keys /\ cursor < KeyOf[d]
      /\ \A d, e \in rows' : KeyOf[d] = KeyOf[e] => d = e
      /\ \A e \in seen : KeyOf[e] # NoKey /\ cursor < KeyOf[e] =>
            \E d \in rows' : KeyOf[d] = KeyOf[e] /\ AtLeastAsNew(d, e)
  BY <1>1, <1>3, CompactedFacts
<1>5. TypeOK'
  BY <1>2, <1>3, <1>4 DEF IInv, TypeOK, PagingTypeOK
<1>6. RowsOK'
  <2>1. page = <<>> /\ PageDocs' = {} /\ limit > 0
    BY <1>2 DEF IInv, RowsOK, PageDocs
  <2> QED
    BY <1>2, <1>4, <2>1 DEF RowsOK
<1>7. RowsAreNewest'
  BY <1>2, <1>3, <1>4 DEF RowsAreNewest
<1>8. ScanOK'
  BY <1>2, FS_EmptySet DEF IInv, ScanOK
<1>9. TableOK' /\ CursorOK' /\ WalkIsCurrent'
  BY <1>2 DEF IInv, TableOK, CursorOK, WalkIsCurrent
<1> QED
  BY <1>5, <1>6, <1>7, <1>8, <1>9 DEF IInv

\* The row goes to the end of the page.
LEMMA DrainStep ==
  ASSUME IInv, NEW d \in Docs, Drain(d)
  PROVE  IInv'
<1>1. /\ pc = "drain" /\ d \in rows /\ \A e \in rows : KeyOf[d] <= KeyOf[e]
      /\ page' = Append(page, d) /\ total' = total + Size[d] /\ rows' = rows \ {d}
      /\ UNCHANGED <<coll, used, exists, cutoff, purges, limit, pc, cursor, lo, hi, current, served,
                     kept, failures>>
  BY DEF Drain, NextRow, Take, collVars
<1>2. /\ page \in Seq(Docs) /\ page' \in Seq(Docs) /\ Len(page') = Len(page) + 1 /\ Len(page) \in Nat
      /\ \A k \in 1 .. Len(page) : page'[k] = page[k]
      /\ page'[Len(page) + 1] = d
  BY <1>1, AppendFacts DEF IInv, TypeOK, PagingTypeOK
<1>3. PageDocs' = PageDocs \cup {d}
  BY <1>2 DEF PageDocs
<1>4. TypeOK'
  <2>1. PagingTypeOK'
    BY <1>1, <1>2, SizeAssumption DEF IInv, TypeOK, PagingTypeOK
  <2> QED
    BY <1>1, <2>1 DEF IInv, TypeOK
<1>5. /\ \A e \in rows \cup PageDocs : KeyOf[e] \in Keys /\ KeyOf[e] \in Nat /\ cursor < KeyOf[e]
      /\ \A e, f \in rows : KeyOf[e] = KeyOf[f] => e = f
      /\ \A e \in PageDocs, f \in rows : KeyOf[e] < KeyOf[f]
      /\ \A j, k \in 1 .. Len(page) : j < k => KeyOf[page[j]] < KeyOf[page[k]]
  BY KeyFacts DEF IInv, RowsOK
<1>6. RowsOK'
  <2>1. \A e \in rows' \cup PageDocs' : KeyOf[e] \in Keys /\ cursor' < KeyOf[e]
    BY <1>1, <1>3, <1>5
  <2>2. \A e, f \in rows' : KeyOf[e] = KeyOf[f] => e = f
    BY <1>1, <1>5
  <2>3. ASSUME NEW e \in PageDocs', NEW f \in rows'
        PROVE  KeyOf[e] < KeyOf[f]
    <3>1. f \in rows /\ f # d
      BY <1>1
    <3>2. KeyOf[d] < KeyOf[f]
      BY <1>1, <1>5, <3>1
    <3> QED
      BY <1>3, <1>5, <3>1, <3>2
  <2>4. ASSUME NEW j \in 1 .. Len(page'), NEW k \in 1 .. Len(page'), j < k
        PROVE  KeyOf[page'[j]] < KeyOf[page'[k]]
    <3>1. j \in 1 .. Len(page) /\ page'[j] = page[j] /\ page[j] \in PageDocs
      BY <1>2, <2>4 DEF PageDocs
    <3>2. CASE k \in 1 .. Len(page)
      BY <1>2, <1>5, <2>4, <3>1, <3>2
    <3>3. CASE k = Len(page) + 1
      BY <1>1, <1>2, <1>5, <3>1, <3>3
    <3> QED
      BY <1>2, <3>2, <3>3
  <2>5. limit > 0
    BY <1>1 DEF IInv, RowsOK
  <2> QED
    BY <1>1, <2>1, <2>2, <2>3, <2>4, <2>5 DEF RowsOK
<1>7. RowsAreNewest'
  <2>1. rows \cup PageDocs \subseteq rows' \cup PageDocs'
    BY <1>1, <1>3
  <2> QED
    BY <1>1, <2>1 DEF IInv, RowsAreNewest
<1>8. ScanOK' /\ TableOK' /\ CursorOK' /\ WalkIsCurrent'
  BY <1>1 DEF IInv, ScanOK, TableOK, CursorOK, WalkIsCurrent
<1> QED
  BY <1>4, <1>6, <1>7, <1>8 DEF IInv

\* What a page does to the client's table: the row of each of its keys is the
\* page's, and as new as any document of that key that stayed.
LEMMA ServedRows ==
  ASSUME IInv, NEW truncated \in BOOLEAN, pc = "drain", Serve(truncated)
  PROVE  /\ \A d \in ServedSet : d \in Docs /\ KeyOf[d] \in Keys /\ cursor < KeyOf[d]
         /\ \A d \in ServedSet : current'[KeyOf[d]] = d
         /\ \A k \in Keys : (\A d \in ServedSet : KeyOf[d] # k) => current'[k] = current[k]
         /\ \A e \in kept, d \in ServedSet : KeyOf[e] = KeyOf[d] => AtLeastAsNew(d, e)
<1>1. page \in Seq(Docs) /\ limit \in Nat /\ limit > 0
  BY LimitAssumption DEF IInv, TypeOK, PagingTypeOK, RowsOK
<1>2. ServedSet \subseteq PageDocs /\ PageDocs \subseteq Docs
  BY <1>1, ServedFacts DEF PageDocs
<1>3. \A d \in ServedSet : d \in Docs /\ KeyOf[d] \in Keys /\ cursor < KeyOf[d]
  BY <1>2 DEF IInv, RowsOK
<1>4. ASSUME NEW d \in rows \cup PageDocs, NEW e \in PageDocs, KeyOf[d] = KeyOf[e]
      PROVE  d = e
  <2>1. PICK k \in 1 .. Len(page) : page[k] = e
    BY DEF PageDocs
  <2>2. KeyOf[e] \in Nat
    BY KeyFacts DEF IInv, RowsOK
  <2>3. d \notin rows
    BY <1>4, <2>2 DEF IInv, RowsOK
  <2>4. PICK j \in 1 .. Len(page) : page[j] = d
    BY <2>3 DEF PageDocs
  <2>5. Len(page) \in Nat
    BY <1>1
  <2>6. ~ (j < k) /\ ~ (k < j)
    BY <1>4, <2>1, <2>2, <2>4 DEF IInv, RowsOK
  <2> QED
    BY <2>1, <2>4, <2>5, <2>6
<1>5. current' = [k \in Keys |->
                    IF \E d \in ServedSet : KeyOf[d] = k
                       THEN CHOOSE d \in ServedSet : KeyOf[d] = k ELSE current[k]]
  BY DEF Serve
<1>6. ASSUME NEW d \in ServedSet
      PROVE  current'[KeyOf[d]] = d
  <2> DEFINE k == KeyOf[d]
  <2> DEFINE c == CHOOSE e \in ServedSet : KeyOf[e] = k
  <2>1. c \in ServedSet /\ KeyOf[c] = k
    OBVIOUS
  <2>2. current'[k] = c
    BY <1>3, <1>5
  <2> HIDE DEF c
  <2> QED
    BY <1>2, <1>4, <2>1, <2>2
<1>7. ASSUME NEW e \in kept, NEW d \in ServedSet, KeyOf[e] = KeyOf[d]
      PROVE  AtLeastAsNew(d, e)
  <2>1. KeyOf[e] # NoKey /\ cursor < KeyOf[e]
    BY <1>3, <1>7, KeyFacts
  <2>2. PICK f \in rows \cup PageDocs : KeyOf[f] = KeyOf[e] /\ AtLeastAsNew(f, e)
    BY <2>1 DEF IInv, RowsAreNewest
  <2>3. f = d
    BY <1>2, <1>4, <1>7, <2>2
  <2> QED
    BY <2>2, <2>3
<1>8. \A k \in Keys : (\A d \in ServedSet : KeyOf[d] # k) => current'[k] = current[k]
  BY <1>5
<1> QED
  BY <1>3, <1>6, <1>7, <1>8

\* A page moves the cursor over keys that are current now; the last page
\* leaves none.
LEMMA ServeStep ==
  ASSUME IInv, NEW truncated \in BOOLEAN, pc = "drain", Serve(truncated),
         truncated => page # <<>>,
         ~truncated => ~WantsMore \/ rows = {}
  PROVE  IInv'
<1> USE DEF NoCursor
<1> DEFINE next == IF More(truncated) /\ Served # <<>> THEN cursorOf(LastServed) ELSE NoCursor
<1>1. /\ served' = served \cup {KeyOf[d] : d \in ServedSet}
      /\ cursor' = next
      /\ pc' = IF next = NoCursor THEN "done" ELSE "ask"
      /\ rows' = {} /\ limit' = 0 /\ page' = <<>> /\ total' = 0
      /\ UNCHANGED <<coll, used, exists, cutoff, purges, lo, hi, kept, failures>>
      /\ DOMAIN current' = Keys /\ current' = [k \in Keys |-> current'[k]]
  BY DEF Serve, Reset, collVars
<1>2. /\ page \in Seq(Docs) /\ limit \in Nat /\ limit > 0 /\ Len(page) \in Nat
  BY LimitAssumption DEF IInv, TypeOK, PagingTypeOK, RowsOK
<1>3. /\ Served \in Seq(Docs) /\ Len(Served) \in 0 .. Len(page)
      /\ \A k \in 1 .. Len(Served) : Served[k] = page[k]
      /\ Len(page) <= limit => Served = page
      /\ page = <<>> <=> Served = <<>>
      /\ ServedSet = {page[k] : k \in 1 .. Len(Served)} /\ ServedSet \subseteq PageDocs
  BY <1>2, ServedFacts
<1>4. /\ \A d \in ServedSet : d \in Docs /\ KeyOf[d] \in Keys /\ cursor < KeyOf[d]
      /\ \A d \in ServedSet : current'[KeyOf[d]] = d
      /\ \A k \in Keys : (\A d \in ServedSet : KeyOf[d] # k) => current'[k] = current[k]
      /\ \A e \in kept, d \in ServedSet : KeyOf[e] = KeyOf[d] => AtLeastAsNew(d, e)
  BY ServedRows
<1>5. /\ cursor \in Nat /\ served \subseteq Keys /\ kept \subseteq Docs
      /\ \A e \in kept : KeyOf[e] # NoKey => KeyOf[e] \in Keys /\ KeyOf[e] \in Nat \ {0}
      /\ \A d \in rows \cup PageDocs : KeyOf[d] \in Keys /\ KeyOf[d] \in Nat \ {0}
  BY WalkFacts
<1>6. ASSUME Served # <<>>
      PROVE  /\ LastServed \in ServedSet /\ Len(Served) \in 1 .. Len(page)
             /\ LastServed = page[Len(Served)]
             /\ \A d \in ServedSet : KeyOf[d] <= KeyOf[LastServed]
  <2>1. Len(Served) \in 1 .. Len(page) /\ LastServed = page[Len(Served)]
    BY <1>2, <1>3, <1>6 DEF LastServed
  <2>2. ASSUME NEW k \in 1 .. Len(Served)
        PROVE  KeyOf[page[k]] <= KeyOf[page[Len(Served)]]
    <3>1. k \in 1 .. Len(page) /\ page[k] \in PageDocs /\ page[Len(Served)] \in PageDocs
      BY <2>1 DEF PageDocs
    <3>2. k = Len(Served) \/ k < Len(Served)
      BY <2>1
    <3>3. k < Len(Served) => KeyOf[page[k]] < KeyOf[page[Len(Served)]]
      BY <2>1, <3>1 DEF IInv, RowsOK
    <3> QED
      BY <1>5, <3>1, <3>2, <3>3
  <2> QED
    BY <1>3, <2>1, <2>2
\* Of the keys up to the last one served the client is current.
<1>7. ASSUME NEW e \in kept, KeyOf[e] # NoKey,
             \/ KeyOf[e] <= cursor
             \/ Served # <<>> /\ KeyOf[e] <= KeyOf[LastServed]
             \/ Served = page /\ rows = {}
      PROVE  KeyOf[e] \in served' /\ AtLeastAsNew(current'[KeyOf[e]], e)
  <2>1. CASE KeyOf[e] <= cursor
    <3>1. KeyOf[e] \in served /\ AtLeastAsNew(current[KeyOf[e]], e)
      BY <1>7, <2>1 DEF IInv, CursorOK
    <3>2. \A d \in ServedSet : KeyOf[d] # KeyOf[e]
      BY <1>3, <1>4, <1>5, <1>7, <2>1
    <3> QED
      BY <1>1, <1>4, <1>5, <1>7, <3>1, <3>2
  <2>2. CASE ~ (KeyOf[e] <= cursor)
    <3>1. PICK d \in rows \cup PageDocs : KeyOf[d] = KeyOf[e] /\ AtLeastAsNew(d, e)
      BY <1>5, <1>7, <2>2 DEF IInv, RowsAreNewest
    <3>2. d \in ServedSet
      <4>1. CASE Served = page /\ rows = {}
        BY <1>3, <3>1, <4>1 DEF PageDocs
      <4>2. CASE Served # <<>> /\ KeyOf[e] <= KeyOf[LastServed]
        <5>1. /\ Len(Served) \in 1 .. Len(page) /\ LastServed = page[Len(Served)]
              /\ LastServed \in PageDocs
          BY <1>3, <1>6, <4>2
        <5>2. d \notin rows
          <6>1. KeyOf[LastServed] \in Nat /\ KeyOf[d] \in Nat /\ KeyOf[d] <= KeyOf[LastServed]
            BY <1>5, <3>1, <4>2, <5>1
          <6>2. d \in rows => KeyOf[LastServed] < KeyOf[d]
            BY <5>1 DEF IInv, RowsOK
          <6> QED
            BY <6>1, <6>2
        <5>3. PICK k \in 1 .. Len(page) : page[k] = d
          BY <3>1, <5>2 DEF PageDocs
        <5>4. k <= Len(Served)
          <6>1. Len(Served) < k => KeyOf[LastServed] < KeyOf[d]
            BY <5>1, <5>3 DEF IInv, RowsOK
          <6>2. KeyOf[LastServed] \in Nat /\ KeyOf[d] \in Nat /\ KeyOf[d] <= KeyOf[LastServed]
            BY <1>5, <3>1, <4>2, <5>1
          <6> QED
            BY <1>2, <5>1, <5>3, <6>1, <6>2
        <5> QED
          BY <1>3, <5>1, <5>3, <5>4
      <4> QED
        BY <1>7, <2>2, <4>1, <4>2
    <3>3. current'[KeyOf[e]] = d /\ KeyOf[e] \in served'
      BY <1>1, <1>4, <3>1, <3>2
    <3> QED
      BY <3>1, <3>3
  <2> QED
    BY <2>1, <2>2
<1>8. next # NoCursor => Served # <<>> /\ next = KeyOf[LastServed] /\ next \in Keys
  BY <1>4, <1>6 DEF cursorOf
<1>9. next = NoCursor => Served = page /\ rows = {}
  <2>1. ASSUME More(truncated) PROVE Served # <<>> /\ next # NoCursor
    <3>1. page # <<>>
      BY <1>2, <2>1 DEF More
    <3>2. Served # <<>>
      BY <1>3, <3>1
    <3>3. KeyOf[LastServed] \in Nat \ {0}
      BY <1>3, <1>5, <1>6, <3>2
    <3> QED
      BY <2>1, <3>2, <3>3 DEF cursorOf
  <2>2. ASSUME ~More(truncated) PROVE Served = page /\ rows = {}
    <3>1. ~truncated /\ Len(page) <= limit
      BY <1>2, <2>2 DEF More
    <3> QED
      BY <1>2, <1>3, <3>1 DEF WantsMore
  <2> QED
    BY <2>1, <2>2
<1> HIDE DEF next
<1>10. TypeOK'
  <2>1. PagingTypeOK'
    BY <1>1, LimitAssumption DEF PagingTypeOK
  <2>2. current' \in [Keys -> Docs \cup {NoDoc}]
    <3>1. ASSUME NEW k \in Keys PROVE current'[k] \in Docs \cup {NoDoc}
      <4>1. CASE \E d \in ServedSet : KeyOf[d] = k
        BY <1>4, <4>1
      <4>2. CASE ~ \E d \in ServedSet : KeyOf[d] = k
        BY <1>4, <4>2 DEF IInv, TypeOK
      <4> QED
        BY <4>1, <4>2
    <3> QED
      BY <1>1, <3>1
  <2>3. served' \subseteq Keys
    BY <1>1, <1>4, <1>5
  <2>4. cursor' \in Keys \cup {NoCursor}
    BY <1>1, <1>8
  <2> QED
    BY <1>1, <2>1, <2>2, <2>3, <2>4 DEF IInv, TypeOK
<1>11. RowsOK' /\ RowsAreNewest'
  <2>1. PageDocs' = {}
    BY <1>1 DEF PageDocs
  <2> QED
    BY <1>1, <2>1 DEF RowsOK, RowsAreNewest
<1>12. ScanOK'
  BY <1>1 DEF IInv, ScanOK
<1>13. TableOK'
  <2>1. ASSUME NEW k \in Keys, current'[k] # NoDoc PROVE KeyOf[current'[k]] = k
    <3>1. CASE \E d \in ServedSet : KeyOf[d] = k
      BY <1>4, <3>1
    <3>2. CASE ~ \E d \in ServedSet : KeyOf[d] = k
      BY <1>4, <2>1, <3>2 DEF IInv, TableOK
    <3> QED
      BY <3>1, <3>2
  <2> QED
    BY <2>1 DEF TableOK
<1>14. CursorOK'
  <2>1. pc' \in {"done", "ask"} /\ (pc' = "done" <=> cursor' = NoCursor)
    BY <1>1
  <2>2. ASSUME pc' # "done", NEW k \in served'
        PROVE  k <= cursor'
    <3>1. Served # <<>> /\ cursor' = KeyOf[LastServed] /\ LastServed \in ServedSet
      BY <1>1, <1>6, <1>8, <2>1, <2>2
    <3>2. CASE \E d \in ServedSet : k = KeyOf[d]
      BY <1>6, <3>1, <3>2
    <3>3. CASE k \in served
      <4>1. k <= cursor /\ cursor < cursor' /\ k \in Nat /\ cursor' \in Nat
        BY <1>3, <1>4, <1>5, <3>1, <3>3, KeyFacts DEF IInv, CursorOK
      <4> QED
        BY <1>5, <4>1
    <3> QED
      BY <1>1, <3>2, <3>3
  <2>3. ASSUME NEW e \in kept, KeyOf[e] # NoKey, KeyOf[e] <= cursor'
        PROVE  KeyOf[e] \in served' /\ AtLeastAsNew(current'[KeyOf[e]], e)
    <3>1. cursor' # NoCursor
      BY <1>5, <2>3
    <3>2. Served # <<>> /\ KeyOf[e] <= KeyOf[LastServed]
      BY <1>1, <1>8, <2>3, <3>1
    <3> QED
      BY <1>7, <2>3, <3>2
  <2> QED
    BY <1>1, <2>1, <2>2, <2>3 DEF CursorOK
<1>15. WalkIsCurrent'
  BY <1>1, <1>7, <1>9 DEF WalkIsCurrent
<1> QED
  BY <1>10, <1>11, <1>12, <1>13, <1>14, <1>15 DEF IInv

-----------------------------------------------------------------------------
\* An empty first page: no row, so no document of any key stayed.
LEMMA EmptyStep == IInv /\ (Empty \/ collectionExists) => IInv'
<1> SUFFICES ASSUME IInv, Empty \/ collectionExists PROVE IInv'
  OBVIOUS
<1>1. /\ UNCHANGED <<coll, used, exists, cutoff, purges, cursor, lo, hi, rows, limit, page, total,
                     current, served, kept, failures>>
      /\ page = <<>> /\ rows = {} /\ cursor = NoCursor
      /\ pc \in {"drain", "exists"} /\ pc' \in {"exists", "done", "notFound"}
  BY DEF Empty, collectionExists, collVars, pagingVars, IInv, RowsOK, CursorOK
<1>2. \A e \in kept : KeyOf[e] = NoKey
  <2>1. CASE pc = "drain"
    <3>1. rows \cup PageDocs = {}
      BY <1>1 DEF PageDocs
    <3>2. ASSUME NEW e \in kept, KeyOf[e] # NoKey PROVE FALSE
      <4>1. cursor < KeyOf[e]
        BY <1>1, <3>2, WalkFacts DEF NoCursor
      <4> QED
        BY <2>1, <3>1, <3>2, <4>1 DEF IInv, RowsAreNewest
    <3> QED
      BY <3>2
  <2>2. CASE pc = "exists"
    BY <2>2 DEF IInv, CursorOK
  <2> QED
    BY <1>1, <2>1, <2>2
<1>3. TypeOK'
  BY <1>1 DEF IInv, TypeOK, PagingTypeOK
<1>4. RowsOK' /\ RowsAreNewest'
  BY <1>1 DEF IInv, RowsOK, RowsAreNewest, PageDocs
<1>5. ScanOK' /\ TableOK'
  BY <1>1 DEF IInv, ScanOK, TableOK
<1>6. CursorOK'
  <2>1. pc' \notin {"done", "notFound"} => \A k \in served' : k <= cursor'
    BY <1>1 DEF IInv, CursorOK
  <2> QED
    BY <1>1, <1>2, <2>1 DEF CursorOK
<1>7. WalkIsCurrent'
  BY <1>1, <1>2 DEF WalkIsCurrent
<1> QED
  BY <1>3, <1>4, <1>5, <1>6, <1>7 DEF IInv

\* The client's other steps: it keeps its table, and asks for the same page
\* or walks anew.
LEMMA ClientStep == IInv /\ (Refuse \/ Fail \/ WalkAgain) => IInv'
<1> SUFFICES ASSUME IInv, Refuse \/ Fail \/ WalkAgain PROVE IInv'
  OBVIOUS
<1>1. CASE Refuse
  <2>1. /\ pc = "ask" /\ pc' = "refused"
        /\ UNCHANGED <<coll, used, exists, cutoff, purges, cursor, lo, hi, rows, limit, page, total,
                       current, served, kept, failures>>
    BY <1>1 DEF Refuse, collVars, pagingVars
  <2>2. TypeOK'
    BY <2>1 DEF IInv, TypeOK, PagingTypeOK
  <2>3. RowsOK' /\ RowsAreNewest'
    BY <2>1 DEF IInv, RowsOK, RowsAreNewest, PageDocs
  <2>4. ScanOK' /\ TableOK' /\ CursorOK' /\ WalkIsCurrent'
    BY <2>1 DEF IInv, ScanOK, TableOK, CursorOK, WalkIsCurrent
  <2> QED
    BY <2>2, <2>3, <2>4 DEF IInv
<1>2. CASE Fail
  <2>1. /\ pc \in {"scan", "drain", "exists"} /\ pc' = "ask" /\ failures' \in 0 .. MaxFailures
        /\ lo' = {} /\ hi' = {} /\ rows' = {} /\ limit' = 0 /\ page' = <<>> /\ total' = 0
        /\ UNCHANGED <<coll, used, exists, cutoff, purges, cursor, current, served, kept>>
    BY <1>2, BoundAssumption DEF Fail, Reset, collVars, IInv, TypeOK
  <2>2. TypeOK'
    BY <2>1, LimitAssumption DEF IInv, TypeOK, PagingTypeOK
  <2>3. RowsOK' /\ RowsAreNewest'
    BY <2>1 DEF RowsOK, RowsAreNewest, PageDocs
  <2>4. ScanOK'
    BY <2>1, FS_EmptySet DEF IInv, ScanOK
  <2>5. TableOK' /\ CursorOK' /\ WalkIsCurrent'
    BY <2>1 DEF IInv, TableOK, CursorOK, WalkIsCurrent
  <2> QED
    BY <2>2, <2>3, <2>4, <2>5 DEF IInv
<1>3. CASE WalkAgain
  <2>1. /\ pc \in {"done", "notFound"} /\ pc' = "ask" /\ cursor' = NoCursor
        /\ served' = {} /\ kept' = coll
        /\ UNCHANGED <<coll, used, exists, cutoff, purges, lo, hi, rows, limit, page, total, current,
                       failures>>
    BY <1>3 DEF WalkAgain, collVars, pagingVars
  <2>2. TypeOK'
    BY <2>1 DEF IInv, TypeOK, PagingTypeOK
  <2>3. RowsOK' /\ RowsAreNewest'
    BY <2>1 DEF IInv, RowsOK, RowsAreNewest, PageDocs
  <2>4. ScanOK' /\ TableOK' /\ WalkIsCurrent'
    BY <2>1 DEF IInv, ScanOK, TableOK, WalkIsCurrent
  <2>5. CursorOK'
    <3>1. \A e \in coll : KeyOf[e] # NoKey => KeyOf[e] \in Nat \ {0}
      BY KeyFacts DEF IInv, TypeOK
    <3> QED
      BY <2>1, <3>1 DEF CursorOK, NoCursor
  <2> QED
    BY <2>2, <2>3, <2>4, <2>5 DEF IInv
<1> QED
  BY <1>1, <1>2, <1>3

\* Writers and operators: an insert is no document that stayed, and a delete
\* only takes from those.
LEMMA CollectionStep ==
  ASSUME IInv,
         \/ \E d \in Docs : Insert(d) \/ Delete(d) \/ StartPurge(Stamp[d] + 1)
         \/ EndPurge \/ Drop
  PROVE  IInv'
<1>1. /\ UNCHANGED <<pc, cursor, rows, limit, page, total, current, served, failures>>
      /\ kept' \subseteq kept
  BY DEF Insert, Delete, StartPurge, EndPurge, Drop, walkVars, pagingVars
<1>2. cutoff' \in Nat /\ purges' \in 0 .. MaxPurges
  BY DocumentAssumption, BoundAssumption
     DEF Insert, Delete, StartPurge, EndPurge, Drop, IInv, TypeOK
<1>3. /\ coll' \subseteq used' /\ used' \subseteq Docs /\ kept' \subseteq coll'
      /\ lo' \subseteq hi' /\ hi' \subseteq Docs /\ exists' \in BOOLEAN
      /\ pc = "scan" => kept' \subseteq lo'
  BY DEF Insert, Delete, StartPurge, EndPurge, Drop, IInv, TypeOK, ScanOK
<1>4. IsFiniteSet(coll') /\ IsFiniteSet(hi')
  <2>1. ASSUME NEW d \in Docs, Insert(d) PROVE IsFiniteSet(coll') /\ IsFiniteSet(hi')
    BY <2>1, FS_AddElement DEF Insert, IInv, ScanOK
  <2>2. ASSUME NEW d \in Docs, Delete(d) PROVE IsFiniteSet(coll') /\ IsFiniteSet(hi')
    BY <2>2, FS_RemoveElement DEF Delete, IInv, ScanOK
  <2>3. ASSUME NEW d \in Docs, StartPurge(Stamp[d] + 1)
        PROVE  IsFiniteSet(coll') /\ IsFiniteSet(hi')
    BY <2>3 DEF StartPurge, IInv, ScanOK
  <2>4. CASE EndPurge
    BY <2>4 DEF EndPurge, IInv, ScanOK
  <2>5. CASE Drop
    BY <2>5, FS_EmptySet DEF Drop, IInv, ScanOK
  <2> QED
    BY <2>1, <2>2, <2>3, <2>4, <2>5
<1>5. TypeOK'
  BY <1>1, <1>2, <1>3 DEF IInv, TypeOK, PagingTypeOK
<1>6. RowsOK' /\ RowsAreNewest'
  BY <1>1 DEF IInv, RowsOK, RowsAreNewest, PageDocs
<1>7. ScanOK'
  BY <1>1, <1>3, <1>4 DEF ScanOK
<1>8. TableOK' /\ CursorOK' /\ WalkIsCurrent'
  BY <1>1 DEF IInv, TableOK, CursorOK, WalkIsCurrent
<1> QED
  BY <1>5, <1>6, <1>7, <1>8 DEF IInv

LEMMA NextIInv == IInv /\ [Next]_vars => IInv'
<1> SUFFICES ASSUME IInv, [Next]_vars PROVE IInv'
  OBVIOUS
<1>1. CASE Ask
  BY <1>1, AskStep
<1>2. CASE Scan
  BY <1>2, ScanStep
<1>3. ASSUME NEW d \in Docs, Drain(d) PROVE IInv'
  BY <1>3, DrainStep
<1>4. ASSUME NEW d \in Docs, Truncate(d) PROVE IInv'
  BY <1>4, ServeStep DEF Truncate, Fits
<1>5. CASE Exhaust
  BY <1>5, ServeStep DEF Exhaust
<1>6. CASE Empty \/ collectionExists
  BY <1>6, EmptyStep
<1>7. CASE Refuse \/ Fail \/ WalkAgain
  BY <1>7, ClientStep
<1>8. CASE \/ \E d \in Docs : Insert(d) \/ Delete(d) \/ StartPurge(Stamp[d] + 1)
           \/ EndPurge \/ Drop
  BY <1>8, CollectionStep
<1>9. CASE UNCHANGED vars
  <2>1. UNCHANGED <<coll, used, exists, cutoff, purges, pc, cursor, lo, hi, rows, limit, page, total,
                    current, served, kept, failures>>
    BY <1>9 DEF vars, collVars, pagingVars
  <2> QED
    BY <2>1 DEF IInv, TypeOK, PagingTypeOK, RowsOK, RowsAreNewest, PageDocs, ScanOK, TableOK,
                CursorOK, WalkIsCurrent
<1> QED
  BY <1>1, <1>2, <1>3, <1>4, <1>5, <1>6, <1>7, <1>8, <1>9 DEF Next, Walk

\* The invariant holds in every reachable state.
THEOREM Invariance == Spec => []IInv
  BY InitIInv, NextIInv, PTL DEF Spec

-----------------------------------------------------------------------------
\* Type correctness.
THEOREM TypeCorrect == Spec => []TypeOK
<1>1. IInv => TypeOK
  BY DEF IInv
<1> QED
  BY <1>1, Invariance, PTL

\* A client at the end of its walk has, for every key, a row at least as new
\* as any document that was there all along.
THEOREM ClientIsCurrent == Spec => []WalkIsCurrent
<1>1. IInv => WalkIsCurrent
  BY DEF IInv
<1> QED
  BY <1>1, Invariance, PTL

\* Only a page that is served touches the client's table.
LEMMA TableSteps ==
  ASSUME [Next]_vars
  PROVE  \/ pc = "drain" /\ \E truncated \in BOOLEAN : Serve(truncated)
         \/ current' = current
<1>1. ASSUME NEW d \in Docs, Drain(d) \/ Insert(d) \/ Delete(d) \/ StartPurge(Stamp[d] + 1)
      PROVE  current' = current
  BY <1>1 DEF Drain, Insert, Delete, StartPurge, walkVars
<1>2. CASE Exhaust \/ \E d \in Docs : Truncate(d)
  BY <1>2 DEF Exhaust, Truncate
<1>3. CASE UNCHANGED vars
  BY <1>3 DEF vars
<1>4. CASE Ask \/ Scan \/ Empty \/ collectionExists \/ Refuse \/ Fail \/ WalkAgain \/ EndPurge \/ Drop
  BY <1>4 DEF Ask, Scan, Empty, collectionExists, Refuse, Fail, WalkAgain, EndPurge, Drop, walkVars
<1> QED
  BY <1>1, <1>2, <1>3, <1>4 DEF Next, Walk

\* A row of the client's table gives way to an older one only if its document
\* was deleted.
THEOREM NoStepBack == Spec => RowsOnlyAdvance
<1> DEFINE A == \A k \in Keys : current[k] \in kept => AtLeastAsNew(current'[k], current[k])
<1>1. ASSUME IInv, [Next]_vars
      PROVE  A
  <2> SUFFICES ASSUME NEW k \in Keys, current[k] \in kept
               PROVE  AtLeastAsNew(current'[k], current[k])
    OBVIOUS
  <2>1. current[k] \in Docs /\ current[k] # NoDoc
    BY <1>1, IdAssumption DEF IInv, TypeOK, NoDoc
  <2>2. KeyOf[current[k]] = k
    BY <1>1, <2>1 DEF IInv, TableOK
  <2>3. AtLeastAsNew(current[k], current[k])
    BY <2>1, NewerOrders
  <2>4. ASSUME pc = "drain", NEW truncated \in BOOLEAN, Serve(truncated)
        PROVE  AtLeastAsNew(current'[k], current[k])
    <3>1. /\ \A d \in ServedSet : current'[KeyOf[d]] = d
          /\ (\A d \in ServedSet : KeyOf[d] # k) => current'[k] = current[k]
          /\ \A d \in ServedSet : KeyOf[current[k]] = KeyOf[d] => AtLeastAsNew(d, current[k])
      BY <1>1, <2>4, ServedRows
    <3> QED
      BY <2>2, <2>3, <3>1
  <2> QED
    BY <1>1, <2>3, <2>4, TableSteps
<1>2. IInv /\ [Next]_vars => [A]_vars
  BY <1>1
<1> HIDE DEF A
<1>3. Spec => [][A]_vars
  BY <1>2, Invariance, PTL DEF Spec
<1> QED
  BY <1>3 DEF RowsOnlyAdvance, A

\* No key is served twice in one walk.
THEOREM NoKeyTwice == Spec => KeyServedOnce
<1> DEFINE A == pc = "drain" /\ pc' \in {"ask", "done"} =>
                  \A d \in ServedSet : KeyOf[d] \notin served
<1>1. ASSUME IInv
      PROVE  A
  <2> SUFFICES ASSUME pc = "drain", NEW d \in ServedSet PROVE KeyOf[d] \notin served
    OBVIOUS
  <2>1. d \in PageDocs
    BY <1>1, ServedFacts DEF IInv, TypeOK, PagingTypeOK, RowsOK
  <2>2. cursor \in Nat /\ KeyOf[d] \in Nat /\ cursor < KeyOf[d]
    BY <1>1, <2>1, WalkFacts DEF IInv, RowsOK
  <2>3. \A k \in served : k <= cursor
    BY <1>1 DEF IInv, CursorOK
  <2> QED
    BY <2>2, <2>3
<1>2. IInv /\ [Next]_vars => [A]_vars
  BY <1>1
<1> HIDE DEF A
<1>3. Spec => [][A]_vars
  BY <1>2, Invariance, PTL DEF Spec
<1> QED
  BY <1>3 DEF KeyServedOnce, A
=============================================================================
