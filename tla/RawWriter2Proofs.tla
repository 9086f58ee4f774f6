-------------------------- MODULE RawWriter2Proofs --------------------------
(***************************************************************************)
(* First the names: writers and bridge name the same place, for every      *)
(* provider, whatever its segments and however many of them there are.     *)
(*                                                                         *)
(* Then raw-writer-2, for any requests, documents and number of            *)
(* terminations: references resolve, what is announced can be read where   *)
(* the bridge looks, a 200 is kept, and the contract is implemented.       *)
(***************************************************************************)
EXTENDS RawWriter2, WellFoundedInduction, SequenceTheorems, TLAPS

\* A set of numbers that is not empty has a least one.
LEMMA LeastNumber ==
  ASSUME NEW S \in SUBSET Nat, S # {}
  PROVE  \E m \in S : \A k \in S : m <= k
<1> DEFINE R == OpToRel(<, Nat)
<1>1. \A i, j \in Nat : i < j => <<i, j>> \in R
  BY DEF OpToRel
<1> HIDE DEF R
<1>2. PICK m \in S : \A k \in S : ~ (<<k, m>> \in R)
  BY NatLessThanWellFounded, WFMin DEF R
<1>3. ASSUME NEW k \in S
      PROVE  m <= k
  <2>1. m \in Nat /\ k \in Nat
    OBVIOUS
  <2>2. ~ (k < m)
    BY <2>1, <1>1, <1>2
  <2> QED
    BY <2>1, <2>2
<1> QED
  BY <1>3

\* First is what it says.
LEMMA FirstProperties ==
  ASSUME NEW n \in Names, NEW sep, Has(n, sep)
  PROVE  /\ First(n, sep) \in DOMAIN n.seps
         /\ n.seps[First(n, sep)] = sep
         /\ \A j \in 1 .. First(n, sep) - 1 : n.seps[j] # sep
<1> DEFINE S == {k \in DOMAIN n.seps : n.seps[k] = sep}
<1>1. S \in SUBSET Nat /\ S # {}
  BY DEF Names, Has
<1>2. PICK m \in S : \A k \in S : m <= k
  BY <1>1, LeastNumber
<1>3. /\ m \in DOMAIN n.seps /\ n.seps[m] = sep
      /\ \A j \in 1 .. m - 1 : n.seps[j] # sep
  BY <1>2 DEF Names
<1> QED
  BY <1>3 DEF First

\* ... and nothing else is.
LEMMA FirstUnique ==
  ASSUME NEW n \in Names, NEW sep, NEW k \in DOMAIN n.seps,
         n.seps[k] = sep, \A j \in 1 .. k - 1 : n.seps[j] # sep
  PROVE  First(n, sep) = k
<1> DEFINE f == First(n, sep)
<1>1. f \in DOMAIN n.seps /\ n.seps[f] = sep /\ \A j \in 1 .. f - 1 : n.seps[j] # sep
  BY FirstProperties DEF Has
<1>2. DOMAIN n.seps \subseteq Nat \ {0}
  BY DEF Names
<1> HIDE DEF f
<1>3. f \in Nat \ {0} /\ k \in Nat \ {0}
  BY <1>1, <1>2
<1>4. ~ (f < k) /\ ~ (k < f)
  BY <1>1, <1>3
<1> QED
  BY <1>3, <1>4 DEF f

\* What Before, After and Replace return.
LEMMA SplitType ==
  ASSUME NEW n \in Names, NEW sep, Has(n, sep)
  PROVE  /\ Before(n, sep) \in Names /\ After(n, sep) \in Names
         /\ DOMAIN Before(n, sep).seps = 1 .. First(n, sep) - 1
         /\ DOMAIN After(n, sep).seps = 1 .. Len(n.seps) - First(n, sep)
         /\ \A k \in 1 .. First(n, sep) - 1 : Before(n, sep).seps[k] = n.seps[k]
         /\ \A k \in 1 .. Len(n.seps) - First(n, sep) :
               After(n, sep).seps[k] = n.seps[First(n, sep) + k]
<1> DEFINE f == First(n, sep)
<1>1. /\ f \in 1 .. Len(n.seps)
      /\ n.segs \in Seq(Segs) /\ n.seps \in Seq(Seps)
      /\ Len(n.segs) = Len(n.seps) + 1 /\ Len(n.seps) \in Nat
  BY FirstProperties DEF Names
<1> HIDE DEF f
<1> QED
  <2>1. /\ SubSeq(n.segs, 1, f) \in Seq(Segs) /\ Len(SubSeq(n.segs, 1, f)) = f
        /\ \A k \in 1 .. f : SubSeq(n.segs, 1, f)[k] = n.segs[k]
    BY <1>1
  <2>2. /\ SubSeq(n.seps, 1, f - 1) \in Seq(Seps) /\ Len(SubSeq(n.seps, 1, f - 1)) = f - 1
        /\ \A k \in 1 .. f - 1 : SubSeq(n.seps, 1, f - 1)[k] = n.seps[k]
    BY <1>1
  <2>3. /\ SubSeq(n.segs, f + 1, Len(n.segs)) \in Seq(Segs)
        /\ Len(SubSeq(n.segs, f + 1, Len(n.segs))) = Len(n.segs) - f
    BY <1>1
  <2>4. /\ SubSeq(n.seps, f + 1, Len(n.seps)) \in Seq(Seps)
        /\ Len(SubSeq(n.seps, f + 1, Len(n.seps))) = Len(n.seps) - f
        /\ \A k \in 1 .. Len(n.seps) - f :
              SubSeq(n.seps, f + 1, Len(n.seps))[k] = n.seps[f + k]
    BY <1>1
  <2>5. /\ Before(n, sep) = [segs |-> SubSeq(n.segs, 1, f), seps |-> SubSeq(n.seps, 1, f - 1)]
        /\ After(n, sep) = [segs |-> SubSeq(n.segs, f + 1, Len(n.segs)),
                            seps |-> SubSeq(n.seps, f + 1, Len(n.seps))]
    BY DEF Before, After, f
  <2>6. Before(n, sep) \in Names
    BY <1>1, <2>1, <2>2, <2>5 DEF Names
  <2>7. After(n, sep) \in Names
    BY <1>1, <2>3, <2>4, <2>5 DEF Names
  <2>8. /\ Before(n, sep).segs = SubSeq(n.segs, 1, f) /\ Before(n, sep).seps = SubSeq(n.seps, 1, f - 1)
        /\ After(n, sep).seps = SubSeq(n.seps, f + 1, Len(n.seps))
    BY DEF Before, After, f
  <2> QED
    BY <2>1, <2>2, <2>4, <2>6, <2>7, <2>8 DEF f

LEMMA ReplaceType ==
  ASSUME NEW n \in Names, NEW old, NEW new \in Seps
  PROVE  /\ Replace(n, old, new) \in Names
         /\ Replace(n, old, new).segs = n.segs
         /\ Len(Replace(n, old, new).seps) = Len(n.seps)
         /\ DOMAIN Replace(n, old, new).seps = DOMAIN n.seps
         /\ \A k \in DOMAIN n.seps :
               Replace(n, old, new).seps[k] = IF n.seps[k] = old THEN new ELSE n.seps[k]
<1> DEFINE s == [k \in DOMAIN n.seps |-> IF n.seps[k] = old THEN new ELSE n.seps[k]]
<1>1. n.segs \in Seq(Segs) /\ n.seps \in Seq(Seps) /\ Len(n.segs) = Len(n.seps) + 1
  BY DEF Names
<1>2. s \in Seq(Seps) /\ Len(s) = Len(n.seps)
  BY <1>1
<1>3. Replace(n, old, new) = [segs |-> n.segs, seps |-> s]
  BY DEF Replace, Names
<1> QED
  BY <1>1, <1>2, <1>3 DEF Names

LEMMA SameSequence ==
  ASSUME NEW S, NEW s \in Seq(S), NEW t \in Seq(S), Len(s) = Len(t),
         \A k \in 1 .. Len(s) : s[k] = t[k]
  PROVE  s = t
  OBVIOUS

\* Two names are the same if they have the same segments and separators.
LEMMA SameName ==
  ASSUME NEW m \in Names, NEW n \in Names, m.segs = n.segs,
         \A k \in DOMAIN n.seps : m.seps[k] = n.seps[k]
  PROVE  m = n
<1>1. /\ m.seps \in Seq(Seps) /\ n.seps \in Seq(Seps) /\ Len(m.seps) = Len(n.seps)
      /\ m = [segs |-> m.segs, seps |-> m.seps] /\ n = [segs |-> n.segs, seps |-> n.seps]
  BY DEF Names
<1>2. m.seps = n.seps
  BY <1>1, SameSequence
<1> QED
  BY <1>1, <1>2

-----------------------------------------------------------------------------
\* The first ":" of a URN is the first "/" of its provider, or a ":" the
\* provider has before that.
LEMMA FirstOfUrn ==
  ASSUME NEW p \in Names, Has(p, "/")
  PROVE  /\ RawUrnFromProviderURI(p) \in Names /\ Has(RawUrnFromProviderURI(p), ":")
         /\ First(RawUrnFromProviderURI(p), ":") <= First(p, "/")
         /\ First(RawUrnFromProviderURI(p), ":") = First(p, "/") <=>
               \A j \in 1 .. First(p, "/") - 1 : p.seps[j] # ":"
<1> DEFINE u == RawUrnFromProviderURI(p)
<1> DEFINE f == First(p, "/")
<1> DEFINE g == First(u, ":")
<1>0. ":" \in Seps /\ u = Replace(p, "/", ":")
  BY DEF RawUrnFromProviderURI, Seps
<1>1. /\ u \in Names /\ DOMAIN u.seps = DOMAIN p.seps
      /\ \A k \in DOMAIN p.seps : u.seps[k] = IF p.seps[k] = "/" THEN ":" ELSE p.seps[k]
  BY <1>0, ReplaceType
<1>2. f \in DOMAIN p.seps /\ p.seps[f] = "/" /\ \A j \in 1 .. f - 1 : p.seps[j] # "/"
  BY FirstProperties
<1>3. Has(u, ":") /\ u.seps[f] = ":"
  BY <1>1, <1>2 DEF Has
<1>4. g \in DOMAIN u.seps /\ u.seps[g] = ":" /\ \A j \in 1 .. g - 1 : u.seps[j] # ":"
  BY <1>1, <1>3, FirstProperties
<1>5. DOMAIN p.seps = 1 .. Len(p.seps) /\ Len(p.seps) \in Nat
  BY DEF Names
<1> HIDE DEF f, g, u
<1>6. g <= f
  BY <1>1, <1>2, <1>3, <1>4, <1>5
<1>7. ASSUME g = f
      PROVE  \A j \in 1 .. f - 1 : p.seps[j] # ":"
  BY <1>1, <1>2, <1>4, <1>5, <1>7
<1>8. ASSUME \A j \in 1 .. f - 1 : p.seps[j] # ":"
      PROVE  g = f
  <2>1. \A j \in 1 .. f - 1 : u.seps[j] # ":"
    BY <1>1, <1>2, <1>5, <1>8
  <2> QED
    BY <1>1, <1>2, <1>4, <1>5, <1>6, <2>1
<1> QED
  BY <1>1, <1>3, <1>6, <1>7, <1>8 DEF f, g, u

\* Where the bridge looks when no ":" precedes the first "/".
LEMMA PlaceOfUrn ==
  ASSUME NEW p \in Names, Has(p, "/"), \A j \in 1 .. First(p, "/") - 1 : p.seps[j] # ":"
  PROVE  documentPlace(RawUrnFromProviderURI(p)) =
            <<databaseName(Before(p, "/")),
              Replace(Replace(After(p, "/"), "/", ":"), ":", ".")>>
<1> DEFINE u == RawUrnFromProviderURI(p)
<1> DEFINE f == First(p, "/")
<1>0. ":" \in Seps /\ u = Replace(p, "/", ":")
  BY DEF RawUrnFromProviderURI, Seps
<1>1. u \in Names /\ Has(u, ":") /\ First(u, ":") = f
  BY FirstOfUrn
<1>2. /\ DOMAIN u.seps = DOMAIN p.seps /\ u.segs = p.segs /\ Len(u.seps) = Len(p.seps)
      /\ \A k \in DOMAIN p.seps : u.seps[k] = IF p.seps[k] = "/" THEN ":" ELSE p.seps[k]
  BY <1>0, ReplaceType
<1>3. /\ f \in 1 .. Len(p.seps) /\ Len(p.seps) \in Nat /\ DOMAIN p.seps = 1 .. Len(p.seps)
      /\ \A j \in 1 .. f - 1 : p.seps[j] # "/"
  BY FirstProperties DEF Names
<1>4. /\ Before(p, "/") \in Names /\ After(p, "/") \in Names
      /\ DOMAIN Before(p, "/").seps = 1 .. f - 1
      /\ DOMAIN After(p, "/").seps = 1 .. Len(p.seps) - f
      /\ \A k \in 1 .. f - 1 : Before(p, "/").seps[k] = p.seps[k]
      /\ \A k \in 1 .. Len(p.seps) - f : After(p, "/").seps[k] = p.seps[f + k]
  BY SplitType
<1>5. /\ Before(u, ":") \in Names /\ After(u, ":") \in Names
      /\ DOMAIN Before(u, ":").seps = 1 .. First(u, ":") - 1
      /\ \A k \in 1 .. First(u, ":") - 1 : Before(u, ":").seps[k] = u.seps[k]
      /\ \A k \in 1 .. Len(u.seps) - First(u, ":") : After(u, ":").seps[k] = u.seps[First(u, ":") + k]
  <2> HIDE DEF u
  <2> QED
    BY <1>1, SplitType
<1>6. /\ Before(u, ":").segs = Before(p, "/").segs
      /\ After(u, ":").segs = After(p, "/").segs
  BY <1>1, <1>2 DEF Before, After
<1>7. /\ Replace(After(p, "/"), "/", ":") \in Names
      /\ Replace(After(p, "/"), "/", ":").segs = After(p, "/").segs
      /\ DOMAIN Replace(After(p, "/"), "/", ":").seps = DOMAIN After(p, "/").seps
      /\ \A k \in DOMAIN After(p, "/").seps :
            Replace(After(p, "/"), "/", ":").seps[k] =
               IF After(p, "/").seps[k] = "/" THEN ":" ELSE After(p, "/").seps[k]
  BY <1>0, <1>4, ReplaceType
<1> HIDE DEF f, u
<1>8. Before(u, ":") = Before(p, "/")
  <2>1. \A k \in 1 .. f - 1 : k \in DOMAIN p.seps /\ k \in 1 .. First(u, ":") - 1
    BY <1>1, <1>3
  <2>2. \A k \in 1 .. f - 1 : u.seps[k] = p.seps[k]
    BY <1>2, <1>3, <2>1
  <2> DEFINE m == Before(u, ":")
  <2> DEFINE n == Before(p, "/")
  <2>3. m \in Names /\ n \in Names /\ m.segs = n.segs
    BY <1>4, <1>5, <1>6
  <2>4. \A k \in DOMAIN n.seps : m.seps[k] = n.seps[k]
    BY <1>4, <1>5, <2>1, <2>2
  <2> HIDE DEF m, n
  <2>5. m = n
    BY <2>3, <2>4, SameName
  <2> QED
    BY <2>5 DEF m, n
<1>9. After(u, ":") = Replace(After(p, "/"), "/", ":")
  <2>1. \A k \in 1 .. Len(p.seps) - f :
            f + k \in DOMAIN p.seps /\ k \in 1 .. Len(u.seps) - First(u, ":")
    BY <1>1, <1>2, <1>3
  <2>2. \A k \in 1 .. Len(p.seps) - f : After(u, ":").seps[k] = u.seps[f + k]
    BY <1>1, <1>5, <2>1
  <2> DEFINE m == After(u, ":")
  <2> DEFINE n == Replace(After(p, "/"), "/", ":")
  <2>3. m \in Names /\ n \in Names /\ m.segs = n.segs
    BY <1>5, <1>6, <1>7
  <2>4. ASSUME NEW k \in DOMAIN n.seps
        PROVE  m.seps[k] = n.seps[k]
    <3>1. k \in 1 .. Len(p.seps) - f /\ k \in DOMAIN After(p, "/").seps
      BY <1>4, <1>7
    <3>2. f + k \in DOMAIN p.seps /\ After(p, "/").seps[k] = p.seps[f + k]
      BY <1>4, <2>1, <3>1
    <3>3. m.seps[k] = IF p.seps[f + k] = "/" THEN ":" ELSE p.seps[f + k]
      BY <1>2, <2>2, <3>1, <3>2
    <3>4. n.seps[k] = IF p.seps[f + k] = "/" THEN ":" ELSE p.seps[f + k]
      BY <1>7, <3>1, <3>2
    <3> QED
      BY <3>3, <3>4
  <2> HIDE DEF m, n
  <2>5. m = n
    BY <2>3, <2>4, SameName
  <2> QED
    BY <2>5 DEF m, n
<1> QED
  BY <1>8, <1>9 DEF documentPlace, u

-----------------------------------------------------------------------------
\* What the bridge reads under the URN of a provider of "/" and "." is the
\* collection raw-writer stores it in, however many segments it has.
THEOREM ReadsWhatRawWriterWrote ==
  ASSUME NEW p \in Names, Has(p, "/"), ~ Has(p, ":")
  PROVE  documentPlace(RawUrnFromProviderURI(p)) = constructTableTarget(p)
<1> DEFINE a == After(p, "/")
<1> DEFINE c == Replace(a, "/", ":")
<1>0. ":" \in Seps /\ "." \in Seps
  BY DEF Seps
<1>1. \A k \in DOMAIN p.seps : p.seps[k] # ":"
  BY DEF Has
<1>a. a \in Names
  BY SplitType
<1>2. /\ DOMAIN a.seps = 1 .. Len(p.seps) - First(p, "/")
      /\ \A k \in 1 .. Len(p.seps) - First(p, "/") : a.seps[k] = p.seps[First(p, "/") + k]
  BY SplitType
<1>3. /\ First(p, "/") \in 1 .. Len(p.seps) /\ Len(p.seps) \in Nat
      /\ DOMAIN p.seps = 1 .. Len(p.seps)
  BY FirstProperties DEF Names
<1>4. documentPlace(RawUrnFromProviderURI(p)) =
         <<databaseName(Before(p, "/")), Replace(c, ":", ".")>>
  BY <1>1, <1>3, PlaceOfUrn
<1> HIDE DEF a
<1>5. \A k \in DOMAIN a.seps : a.seps[k] # ":"
  <2>1. \A k \in DOMAIN a.seps : First(p, "/") + k \in DOMAIN p.seps
    BY <1>2, <1>3
  <2> QED
    BY <1>1, <1>2, <2>1
<1>6. /\ c \in Names /\ c.segs = a.segs /\ DOMAIN c.seps = DOMAIN a.seps
      /\ \A k \in DOMAIN a.seps : c.seps[k] = IF a.seps[k] = "/" THEN ":" ELSE a.seps[k]
  BY <1>0, <1>a, ReplaceType
<1> HIDE DEF c
<1>7. Replace(c, ":", ".") = Replace(a, "/", ".")
  <2>1. /\ Replace(c, ":", ".") \in Names /\ Replace(c, ":", ".").segs = c.segs
        /\ DOMAIN Replace(c, ":", ".").seps = DOMAIN c.seps
        /\ \A k \in DOMAIN c.seps :
              Replace(c, ":", ".").seps[k] = IF c.seps[k] = ":" THEN "." ELSE c.seps[k]
    BY <1>0, <1>6, ReplaceType
  <2>2. /\ Replace(a, "/", ".") \in Names /\ Replace(a, "/", ".").segs = a.segs
        /\ DOMAIN Replace(a, "/", ".").seps = DOMAIN a.seps
        /\ \A k \in DOMAIN a.seps :
              Replace(a, "/", ".").seps[k] = IF a.seps[k] = "/" THEN "." ELSE a.seps[k]
    BY <1>0, <1>a, ReplaceType
  <2>3. \A k \in DOMAIN a.seps : Replace(c, ":", ".").seps[k] = Replace(a, "/", ".").seps[k]
    BY <1>5, <1>6, <2>1, <2>2
  <2> DEFINE m == Replace(c, ":", ".")
  <2> DEFINE n == Replace(a, "/", ".")
  <2>4. m \in Names /\ n \in Names /\ m.segs = n.segs
    BY <1>6, <2>1, <2>2
  <2>5. \A k \in DOMAIN n.seps : m.seps[k] = n.seps[k]
    BY <2>2, <2>3
  <2> HIDE DEF m, n
  <2>6. m = n
    BY <2>4, <2>5, SameName
  <2> QED
    BY <2>6 DEF m, n
<1> QED
  BY <1>4, <1>7 DEF constructTableTarget, a

\* Databases have as many segments as their names tell.
LEMMA SameDatabase ==
  ASSUME NEW m \in Names, NEW n \in Names, databaseName(m) = databaseName(n)
  PROVE  Len(m.segs) = Len(n.segs)
<1>1. m.segs \in Seq(Segs) /\ n.segs \in Seq(Segs)
  BY DEF Names
<1>2. CASE dbPrefix = NoPrefix
  BY <1>2 DEF databaseName
<1>3. CASE dbPrefix # NoPrefix
  <2>1. dbPrefix \in Segs
    BY <1>3, PrefixAssumption
  <2>2. <<dbPrefix>> \o m.segs = <<dbPrefix>> \o n.segs
    BY <1>3 DEF databaseName
  <2>3. /\ Len(<<dbPrefix>> \o m.segs) = 1 + Len(m.segs)
        /\ Len(<<dbPrefix>> \o n.segs) = 1 + Len(n.segs)
    BY <1>1, <2>1
  <2>4. Len(m.segs) \in Nat /\ Len(n.segs) \in Nat
    BY <1>1
  <2> QED
    BY <2>2, <2>3, <2>4
<1> QED
  BY <1>2, <1>3

\* Where a name of two kinds of separators ends up unchanged.
LEMMA ReplaceTwice ==
  ASSUME NEW n \in Names
  PROVE  Replace(Replace(n, "/", ":"), ":", ".") = n <=>
            \A k \in DOMAIN n.seps : n.seps[k] \notin {"/", ":"}
<1> DEFINE c == Replace(n, "/", ":")
<1> DEFINE d == Replace(c, ":", ".")
<1>1. ":" \in Seps /\ "." \in Seps
  BY DEF Seps
<1>2. /\ c \in Names /\ c.segs = n.segs /\ DOMAIN c.seps = DOMAIN n.seps
      /\ \A k \in DOMAIN n.seps : c.seps[k] = IF n.seps[k] = "/" THEN ":" ELSE n.seps[k]
  BY <1>1, ReplaceType
<1> HIDE DEF c
<1>3. /\ d \in Names /\ d.segs = c.segs /\ DOMAIN d.seps = DOMAIN c.seps
      /\ \A k \in DOMAIN c.seps : d.seps[k] = IF c.seps[k] = ":" THEN "." ELSE c.seps[k]
  BY <1>1, <1>2, ReplaceType
<1> HIDE DEF d
<1>4. \A k \in DOMAIN n.seps :
         d.seps[k] = IF n.seps[k] \in {"/", ":"} THEN "." ELSE n.seps[k]
  BY <1>2, <1>3
<1>5. ASSUME d = n
      PROVE  \A k \in DOMAIN n.seps : n.seps[k] \notin {"/", ":"}
  BY <1>4, <1>5
<1>6. ASSUME \A k \in DOMAIN n.seps : n.seps[k] \notin {"/", ":"}
      PROVE  d = n
  <2>1. \A k \in DOMAIN n.seps : d.seps[k] = n.seps[k]
    BY <1>4, <1>6
  <2>2. d.segs = n.segs
    BY <1>2, <1>3
  <2> QED
    BY <1>3, <2>1, <2>2, SameName
<1> QED
  BY <1>5, <1>6 DEF c, d

\* Under the URN of a provider the bridge reads the collection raw-writer-2
\* stores it in exactly if the provider has the two parts the writer asks for.
THEOREM ReadsWhatRawWriter2Wrote ==
  ASSUME NEW p \in Names, Has(p, "/")
  PROVE  documentPlace(RawUrnFromProviderURI(p)) = providerParts(p) <=> TwoParts(p)
<1> DEFINE u == RawUrnFromProviderURI(p)
<1> DEFINE f == First(p, "/")
<1> DEFINE a == After(p, "/")
<1>1. /\ f \in DOMAIN p.seps /\ DOMAIN p.seps = 1 .. Len(p.seps) /\ Len(p.seps) \in Nat
      /\ \A j \in 1 .. f - 1 : p.seps[j] # "/"
  BY FirstProperties DEF Names
<1>2. a \in Names /\ Before(p, "/") \in Names
  BY SplitType
<1>3. /\ DOMAIN a.seps = 1 .. Len(p.seps) - f
      /\ \A k \in 1 .. Len(p.seps) - f : a.seps[k] = p.seps[f + k]
  BY SplitType
<1>4. Replace(Replace(a, "/", ":"), ":", ".") = a <=>
         \A k \in DOMAIN a.seps : a.seps[k] \notin {"/", ":"}
  BY <1>2, ReplaceTwice
<1>5. ASSUME \A j \in 1 .. f - 1 : p.seps[j] # ":"
      PROVE  documentPlace(u) =
                <<databaseName(Before(p, "/")), Replace(Replace(a, "/", ":"), ":", ".")>>
  BY <1>5, PlaceOfUrn
<1>6. u \in Names /\ Has(u, ":") /\
      (First(u, ":") = f <=> \A j \in 1 .. f - 1 : p.seps[j] # ":")
  BY FirstOfUrn
<1> HIDE DEF a, f
<1>7. ASSUME TwoParts(p)
      PROVE  documentPlace(u) = providerParts(p)
  <2>1. \A j \in 1 .. f - 1 : p.seps[j] # ":"
    BY <1>1, <1>7 DEF TwoParts, f
  <2>2. \A k \in DOMAIN a.seps : a.seps[k] \notin {"/", ":"}
    <3>1. \A k \in DOMAIN a.seps : f + k \in DOMAIN p.seps /\ f + k # f
      BY <1>1, <1>3
    <3> QED
      BY <1>3, <1>7, <3>1 DEF TwoParts, f
  <2> QED
    BY <1>4, <1>5, <2>1, <2>2 DEF providerParts, a
<1>8. ASSUME documentPlace(u) = providerParts(p)
      PROVE  TwoParts(p)
  <2>1. databaseName(Before(u, ":")) = databaseName(Before(p, "/"))
    BY <1>8 DEF documentPlace, providerParts
  <2>2. First(u, ":") = f
    <3> HIDE DEF u
    <3>1. Before(u, ":") \in Names /\ DOMAIN Before(u, ":").seps = 1 .. First(u, ":") - 1
      BY <1>6, SplitType
    <3>2. DOMAIN Before(p, "/").seps = 1 .. f - 1
      BY SplitType DEF f
    <3>3. Len(Before(u, ":").segs) = Len(Before(p, "/").segs)
      BY <1>2, <2>1, <3>1, SameDatabase
    <3>4. First(u, ":") \in Nat \ {0} /\ f \in Nat \ {0}
      <4>1. First(u, ":") \in DOMAIN u.seps
        BY <1>6, FirstProperties
      <4>2. DOMAIN u.seps \subseteq Nat \ {0}
        BY <1>6 DEF Names
      <4> QED
        BY <1>1, <4>1, <4>2
    <3>5. Len(Before(u, ":").seps) = First(u, ":") - 1
      BY <3>1, <3>4 DEF Names
    <3>6. Len(Before(p, "/").seps) = f - 1
      BY <1>2, <3>2, <3>4 DEF Names
    <3> QED
      BY <1>2, <3>1, <3>3, <3>4, <3>5, <3>6 DEF Names
  <2>3. \A j \in 1 .. f - 1 : p.seps[j] # ":"
    BY <1>6, <2>2
  <2>4. Replace(Replace(a, "/", ":"), ":", ".") = a
    BY <1>5, <1>8, <2>3 DEF providerParts, a
  <2>5. \A k \in DOMAIN a.seps : a.seps[k] \notin {"/", ":"}
    BY <1>4, <2>4
  <2>6. ASSUME NEW k \in DOMAIN p.seps, p.seps[k] \in {"/", ":"}
        PROVE  k = f
    <3>1. ~ (k < f)
      BY <1>1, <2>3, <2>6
    <3>2. ~ (f < k)
      <4>1. SUFFICES ASSUME f < k PROVE FALSE
        OBVIOUS
      <4>2. k - f \in DOMAIN a.seps /\ f + (k - f) = k
        BY <1>1, <1>3, <4>1
      <4>3. a.seps[k - f] = p.seps[k]
        BY <1>3, <4>2
      <4> QED
        BY <2>5, <2>6, <4>2, <4>3
    <3> QED
      BY <1>1, <3>1, <3>2
  <2> QED
    BY <2>6 DEF TwoParts, f
<1> QED
  BY <1>7, <1>8

-----------------------------------------------------------------------------
LEMMA Prepended ==
  ASSUME NEW S, NEW s \in Seq(S), NEW e \in S
  PROVE  <<e>> \o s \in Seq(S) /\ Len(<<e>> \o s) = 1 + Len(s) /\ Len(s) \in Nat
  OBVIOUS

LEMMA EndsIn ==
  ASSUME NEW S, NEW s \in Seq(S), NEW e \in S
  PROVE  /\ s \o <<e>> \in Seq(S) /\ Len(s \o <<e>>) = Len(s) + 1
         /\ (s \o <<e>>)[Len(s) + 1] = e
         /\ \A k \in 1 .. Len(s) : (s \o <<e>>)[k] = s[k]
  OBVIOUS

LEMMA InitialPart ==
  ASSUME NEW S, NEW s \in Seq(S), NEW n \in 0 .. Len(s)
  PROVE  /\ SubSeq(s, 1, n) \in Seq(S) /\ Len(SubSeq(s, 1, n)) = n
         /\ \A k \in 1 .. n : SubSeq(s, 1, n)[k] = s[k]
  OBVIOUS

\* A concatenation is cut into its parts again.
LEMMA Joined ==
  ASSUME NEW S, NEW s \in Seq(S), NEW t \in Seq(S), NEW c, c = s \o t
  PROVE  /\ c \in Seq(S) /\ Len(c) = Len(s) + Len(t)
         /\ \A k \in 1 .. Len(s) : c[k] = s[k]
         /\ SubSeq(c, 1, Len(s)) = s
         /\ SubSeq(c, Len(s) + 1, Len(c)) = t
<1>1. Len(s) \in Nat /\ Len(t) \in Nat
  OBVIOUS
<1>2. /\ c \in Seq(S) /\ Len(c) = Len(s) + Len(t)
      /\ \A k \in 1 .. Len(s) : c[k] = s[k]
      /\ \A k \in 1 .. Len(t) : c[k + Len(s)] = t[k]
  BY <1>1
<1>3. SubSeq(c, 1, Len(s)) = s
  <2> DEFINE l == SubSeq(c, 1, Len(s))
  <2>1. l \in Seq(S) /\ Len(l) = Len(s) /\ \A k \in 1 .. Len(l) : l[k] = s[k]
    BY ONLY <1>1, <1>2
  <2> QED
    BY <2>1, SameSequence
<1>4. SubSeq(c, Len(s) + 1, Len(c)) = t
  <2> DEFINE r == SubSeq(c, Len(s) + 1, Len(c))
  <2>1. r \in Seq(S) /\ Len(r) = Len(t)
    BY ONLY <1>1, <1>2
  <2>2. \A k \in 1 .. Len(t) : r[k] = c[k + Len(s)]
    <3> SUFFICES ASSUME NEW k \in 1 .. Len(t)
                 PROVE  r[k] = c[k + Len(s)]
      OBVIOUS
    <3>1. r[k] = c[(Len(s) + 1) + k - 1]
      BY ONLY <1>1, <1>2
    <3>2. (Len(s) + 1) + k - 1 = k + Len(s)
      BY <1>1
    <3> QED
      BY <3>1, <3>2
  <2> HIDE DEF r
  <2>3. r = t
    BY <1>2, <2>1, <2>2, SameSequence
  <2> QED
    BY <2>3 DEF r
<1> QED
  BY <1>2, <1>3, <1>4

\* A database and a collection, joined by "/", are split there again.
LEMMA SplitConcat ==
  ASSUME NEW db \in Names, NEW coll \in Names, ~ Has(db, "/")
  PROVE  /\ Concat(db, "/", coll) \in Names /\ Has(Concat(db, "/", coll), "/")
         /\ First(Concat(db, "/", coll), "/") = Len(db.seps) + 1
         /\ Before(Concat(db, "/", coll), "/") = db
         /\ After(Concat(db, "/", coll), "/") = coll
         /\ \A k \in 1 .. Len(db.seps) : Concat(db, "/", coll).seps[k] = db.seps[k]
<1> DEFINE c == Concat(db, "/", coll)
<1> DEFINE d == db.seps \o <<"/">>
<1> DEFINE f == Len(db.seps) + 1
<1>1. /\ db.segs \in Seq(Segs) /\ db.seps \in Seq(Seps) /\ Len(db.segs) = f
      /\ coll.segs \in Seq(Segs) /\ coll.seps \in Seq(Seps)
      /\ Len(coll.segs) = Len(coll.seps) + 1
      /\ db = [segs |-> db.segs, seps |-> db.seps]
      /\ coll = [segs |-> coll.segs, seps |-> coll.seps]
  BY DEF Names
<1>2. /\ Len(db.seps) \in Nat /\ Len(coll.seps) \in Nat /\ f \in Nat
      /\ Len(db.seps) = f - 1 /\ f - 1 \in Nat /\ f - 1 <= f
  BY <1>1
<1>3. "/" \in Seps
  BY DEF Seps
<1>4. c = [segs |-> db.segs \o coll.segs, seps |-> d \o coll.seps]
  BY DEF Concat
<1>5. /\ d \in Seq(Seps) /\ Len(d) = f /\ d[f] = "/"
      /\ \A k \in 1 .. Len(db.seps) : d[k] = db.seps[k]
  BY <1>1, <1>2, <1>3, EndsIn
<1> HIDE DEF c, d, f
<1>6. c.seps = d \o coll.seps /\ c.segs = db.segs \o coll.segs
  BY <1>4
<1>7. /\ c.seps \in Seq(Seps) /\ Len(c.seps) = f + Len(coll.seps)
      /\ \A k \in 1 .. f : c.seps[k] = d[k]
      /\ SubSeq(c.seps, f + 1, Len(c.seps)) = coll.seps
  <2> DEFINE e == c.seps
  <2> DEFINE t == coll.seps
  <2>1. d \in Seq(Seps) /\ t \in Seq(Seps) /\ Len(d) = f /\ e = d \o t
    BY <1>1, <1>5, <1>6
  <2> HIDE DEF e, t
  <2>2. /\ e \in Seq(Seps) /\ Len(e) = f + Len(t)
        /\ \A k \in 1 .. f : e[k] = d[k]
        /\ SubSeq(e, f + 1, Len(e)) = t
    BY <2>1, Joined
  <2> QED
    BY <2>2 DEF e, t
<1>8. /\ c.segs \in Seq(Segs) /\ Len(c.segs) = f + Len(coll.segs)
      /\ SubSeq(c.segs, 1, f) = db.segs
      /\ SubSeq(c.segs, f + 1, Len(c.segs)) = coll.segs
  <2> DEFINE e == c.segs
  <2> DEFINE s == db.segs
  <2> DEFINE t == coll.segs
  <2>1. s \in Seq(Segs) /\ t \in Seq(Segs) /\ Len(s) = f /\ e = s \o t
    BY <1>1, <1>6
  <2> HIDE DEF e, s, t
  <2>2. /\ e \in Seq(Segs) /\ Len(e) = f + Len(t)
        /\ SubSeq(e, 1, f) = s
        /\ SubSeq(e, f + 1, Len(e)) = t
    <3>1. /\ e \in Seq(Segs) /\ Len(e) = Len(s) + Len(t)
          /\ \A k \in 1 .. Len(s) : e[k] = s[k]
          /\ SubSeq(e, 1, Len(s)) = s
          /\ SubSeq(e, Len(s) + 1, Len(e)) = t
      BY ONLY <2>1, Joined
    <3> QED
      BY ONLY <2>1, <3>1
  <2> QED
    BY <2>2 DEF e, s, t
<1>10. c \in Names
  BY <1>1, <1>2, <1>4, <1>7, <1>8 DEF Names
<1>11. c.seps[f] = "/" /\ \A k \in 1 .. f - 1 : c.seps[k] = db.seps[k]
  BY <1>2, <1>5, <1>7
<1>12. f \in DOMAIN c.seps /\ DOMAIN db.seps = 1 .. f - 1
  BY <1>1, <1>2, <1>7
<1>13. First(c, "/") = f
  <2>1. \A j \in 1 .. f - 1 : c.seps[j] # "/"
    BY <1>11, <1>12 DEF Has
  <2> QED
    BY <1>10, <1>11, <1>12, <2>1, FirstUnique
<1>14. Has(c, "/")
  BY <1>11, <1>12 DEF Has
<1>15. Before(c, "/") = db
  <2>1. SubSeq(c.seps, 1, f - 1) = db.seps
    <3> DEFINE l == SubSeq(c.seps, 1, f - 1)
    <3>1. f - 1 \in 0 .. Len(c.seps)
      <4>1. Len(c.seps) = f + Len(coll.seps)
        BY <1>7
      <4> HIDE DEF l
      <4> QED
        BY <1>2, <4>1
    <3>2. l \in Seq(Seps) /\ Len(l) = f - 1 /\ \A k \in 1 .. f - 1 : l[k] = c.seps[k]
      BY <1>7, <3>1, InitialPart
    <3>3. Len(db.seps) = f - 1
      BY <1>2
    <3> DEFINE t == db.seps
    <3>4. /\ l \in Seq(Seps) /\ t \in Seq(Seps) /\ Len(l) = Len(t)
          /\ \A k \in 1 .. Len(l) : l[k] = t[k]
      BY <1>1, <1>11, <3>2, <3>3
    <3> HIDE DEF l, t
    <3>5. l = t
      BY ONLY <3>4, SameSequence
    <3> QED
      BY <3>5 DEF l, t
  <2> QED
    BY <1>1, <1>8, <1>13, <2>1 DEF Before
<1>16. After(c, "/") = coll
  BY <1>1, <1>7, <1>8, <1>13 DEF After
<1> QED
  BY <1>2, <1>10, <1>11, <1>13, <1>14, <1>15, <1>16 DEF c, f

\* encore builds its URNs from the physical database, and the bridge puts its
\* prefix in front of what a URN names: a replayed document is found if and
\* only if there is no prefix.
THEOREM ReplayIsReadWithoutPrefix ==
  ASSUME NEW db \in Names, NEW coll \in Names,
         \A k \in DOMAIN db.seps : db.seps[k] \notin {"/", ":"},
         \A k \in DOMAIN coll.seps : coll.seps[k] \notin {"/", ":"}
  PROVE  documentPlace(replayUrn(<<db, coll>>)) = <<db, coll>> <=> dbPrefix = NoPrefix
<1> DEFINE c == Concat(db, "/", coll)
<1>1. ~ Has(db, "/")
  BY DEF Has
<1>2. /\ c \in Names /\ Has(c, "/") /\ First(c, "/") = Len(db.seps) + 1
      /\ Before(c, "/") = db /\ After(c, "/") = coll
      /\ \A k \in 1 .. Len(db.seps) : c.seps[k] = db.seps[k]
  BY <1>1, SplitConcat
<1>3. db.segs \in Seq(Segs) /\ db.seps \in Seq(Seps) /\ DOMAIN db.seps = 1 .. Len(db.seps)
      /\ Len(db.seps) \in Nat
  BY DEF Names
<1> HIDE DEF c
<1>4. \A j \in 1 .. First(c, "/") - 1 : c.seps[j] # ":"
  BY <1>2, <1>3
<1>5. documentPlace(RawUrnFromProviderURI(c)) =
         <<databaseName(db), Replace(Replace(coll, "/", ":"), ":", ".")>>
  BY <1>2, <1>4, PlaceOfUrn
<1>6. Replace(Replace(coll, "/", ":"), ":", ".") = coll
  BY ReplaceTwice
<1>7. databaseName(db) = db <=> dbPrefix = NoPrefix
  <2>1. CASE dbPrefix = NoPrefix
    BY <2>1 DEF databaseName
  <2>2. CASE dbPrefix # NoPrefix
    <3>1. dbPrefix \in Segs
      BY <2>2, PrefixAssumption
    <3>2. databaseName(db).segs = <<dbPrefix>> \o db.segs
      BY <2>2 DEF databaseName
    <3>3. Len(<<dbPrefix>> \o db.segs) = 1 + Len(db.segs) /\ Len(db.segs) \in Nat
      BY <1>3, <3>1, Prepended
    <3> QED
      BY <2>2, <3>2, <3>3
  <2> QED
    BY <2>1, <2>2
<1>8. replayUrn(<<db, coll>>) = RawUrnFromProviderURI(c)
  BY DEF replayUrn, c
<1> QED
  BY <1>5, <1>6, <1>7, <1>8

-----------------------------------------------------------------------------
(***************************************************************************)
(* raw-writer-2.                                                           *)
(***************************************************************************)
\* An object that is there is encoded as its key says, whoever put it there.
ObjectsOK == \A n \in ObjectNames : objects[n] # "absent" => Readable(n)

\* A handler that is about to refer to an object has seen it stored.
UploadedFirst ==
    \A r \in Reqs : pc[r] \in {"insert", "publish"} /\ Attr[r].large =>
        objects[s3Key(r)] # "absent"

\* A document is what its request made it, and nothing is taken back.
DocsOK ==
    /\ lake = {d \in Docs : origin[d] # NoReq}
    /\ \A d \in lake :
          /\ ref[d] # Inline <=> Attr[origin[d]].large
          /\ ref[d] # Inline => objects[ref[d]] # "absent"
    /\ ready \subseteq lake

\* A 200 comes after an announcement, and that after the insert.
Ordered ==
    \A r \in Reqs :
        /\ pc[r] = "publish" => \E d \in lake : origin[d] = r
        /\ code[r] = "200" => \E d \in ready : origin[d] = r
        /\ answer[r] = "200" => code[r] = "200"
        /\ pc[r] # "done" => answer[r] = "none"
        /\ pc[r] = "respond" => code[r] # "none"

IInv == TypeOK /\ ObjectsOK /\ UploadedFirst /\ DocsOK /\ Ordered

-----------------------------------------------------------------------------
LEMMA InitIInv == Init => IInv
<1> SUFFICES ASSUME Init PROVE IInv
  OBVIOUS
<1> USE DEF Init
<1>1. TypeOK
  BY BoundAssumption DEF TypeOK, Steps, Codes, Answers, Encodings
<1>2. ObjectsOK /\ UploadedFirst /\ DocsOK /\ Ordered
  BY DEF ObjectsOK, UploadedFirst, DocsOK, Ordered
<1> QED
  BY <1>1, <1>2 DEF IInv

\* What a handler uploads is encoded as the key it is stored under says.
LEMMA KeyTellsEncoding ==
  ASSUME NEW r \in Reqs
  PROVE  s3Key(r) \in ObjectNames /\ data(r) = (IF s3Key(r)[2] THEN "zstd" ELSE "plain")
<1>1. Attr[r].key \in Keys
  BY AttrAssumption DEF RequestType
<1>2. CASE r \in zst
  <2>1. (r \in zst) = TRUE
    BY <1>2
  <2> QED
    BY <1>1, <1>2, <2>1 DEF s3Key, data, ObjectNames
<1>3. CASE r \notin zst
  <2>1. (r \in zst) = FALSE
    BY <1>3
  <2> QED
    BY <1>1, <1>3, <2>1 DEF s3Key, data, ObjectNames
<1> QED
  BY <1>2, <1>3

\* The document a handler inserts refers to what it has uploaded.
LEMMA InsertKeepsDocs ==
  ASSUME IInv, NEW r \in Reqs, pc[r] = "insert", InsertOne(r), UNCHANGED <<objects, ready>>
  PROVE  /\ DocsOK' /\ lake \subseteq lake'
         /\ lake' \subseteq Docs
         /\ origin' \in [Docs -> Reqs \cup {NoReq}]
         /\ ref' \in [Docs -> ObjectNames \cup {Inline}]
         /\ \A d \in lake : origin'[d] = origin[d]
         /\ \E d \in lake' : origin'[d] = r
<1>1. PICK d \in Docs : /\ origin[d] = NoReq
                       /\ lake' = lake \cup {d}
                       /\ origin' = [origin EXCEPT ![d] = r]
                       /\ ref' = [ref EXCEPT ![d] = buildDoc(r)]
  BY DEF InsertOne
<1>2. d \notin lake /\ r # NoReq
  BY <1>1, IdentityAssumption DEF IInv, DocsOK
<1>3. s3Key(r) \in ObjectNames /\ s3Key(r) # Inline
  BY KeyTellsEncoding, IdentityAssumption
<1>4. buildDoc(r) \in ObjectNames \cup {Inline}
  BY <1>3 DEF buildDoc
<1>5. /\ origin' \in [Docs -> Reqs \cup {NoReq}] /\ origin'[d] = r
      /\ \A e \in Docs \ {d} : origin'[e] = origin[e]
  BY <1>1 DEF IInv, TypeOK
<1>6. /\ ref' \in [Docs -> ObjectNames \cup {Inline}] /\ ref'[d] = buildDoc(r)
      /\ \A e \in Docs \ {d} : ref'[e] = ref[e]
  BY <1>1, <1>4 DEF IInv, TypeOK
<1>7. lake \subseteq Docs /\ d \in lake'
  BY <1>1 DEF IInv, TypeOK
<1>8. lake' = {e \in Docs : origin'[e] # NoReq}
  BY <1>1, <1>2, <1>5 DEF IInv, DocsOK
<1>9. /\ ref'[d] # Inline <=> Attr[r].large
      /\ ref'[d] # Inline => objects[ref'[d]] # "absent"
  BY <1>3, <1>6 DEF buildDoc, IInv, UploadedFirst
<1>10. ASSUME NEW e \in lake'
       PROVE  /\ ref'[e] # Inline <=> Attr[origin'[e]].large
              /\ ref'[e] # Inline => objects'[ref'[e]] # "absent"
  <2>1. CASE e = d
    BY <1>5, <1>9, <2>1
  <2>2. CASE e # d
    BY <1>1, <1>5, <1>6, <1>7, <2>2 DEF IInv, DocsOK
  <2> QED
    BY <2>1, <2>2
<1>11. DocsOK'
  BY <1>1, <1>8, <1>10 DEF IInv, DocsOK
<1> QED
  BY <1>1, <1>2, <1>5, <1>6, <1>7, <1>11

LEMMA HandlerStep == \A r \in Reqs : IInv /\ handleIngest(r) => IInv'
<1> SUFFICES ASSUME NEW r \in Reqs, IInv, handleIngest(r) PROVE IInv'
  OBVIOUS
<1> USE DEF IInv, Goto, Answer, storeVars
<1>1. CASE parseMeta(r)
  <2>1. TypeOK'
    BY <1>1 DEF parseMeta, TypeOK, Steps, Codes, Answers, Encodings
  <2>2. ObjectsOK'
    BY <1>1 DEF parseMeta, TypeOK, ObjectsOK, Readable
  <2>3. UploadedFirst'
    BY <1>1 DEF parseMeta, TypeOK, UploadedFirst, s3Key
  <2>4. DocsOK'
    BY <1>1 DEF parseMeta, TypeOK, DocsOK
  <2>5. Ordered'
    BY <1>1 DEF parseMeta, TypeOK, Ordered
  <2> QED
    BY <2>1, <2>2, <2>3, <2>4, <2>5
<1>2. CASE ReadBodyFails(r)
  <2>1. TypeOK'
    BY <1>2 DEF ReadBodyFails, TypeOK, Steps, Codes, Answers, Encodings
  <2>2. ObjectsOK'
    BY <1>2 DEF ReadBodyFails, TypeOK, ObjectsOK, Readable
  <2>3. UploadedFirst'
    BY <1>2 DEF ReadBodyFails, TypeOK, UploadedFirst, s3Key
  <2>4. DocsOK'
    BY <1>2 DEF ReadBodyFails, TypeOK, DocsOK
  <2>5. Ordered'
    BY <1>2 DEF ReadBodyFails, TypeOK, Ordered
  <2> QED
    BY <2>1, <2>2, <2>3, <2>4, <2>5
<1>3. CASE TakeSmall(r)
  <2>1. TypeOK'
    BY <1>3 DEF TakeSmall, TypeOK, Steps, Codes, Answers, Encodings
  <2>2. ObjectsOK'
    BY <1>3 DEF TakeSmall, TypeOK, ObjectsOK, Readable
  <2>3. UploadedFirst'
    BY <1>3 DEF TakeSmall, TypeOK, UploadedFirst, s3Key
  <2>4. DocsOK'
    BY <1>3 DEF TakeSmall, TypeOK, DocsOK
  <2>5. Ordered'
    BY <1>3 DEF TakeSmall, TypeOK, Ordered
  <2> QED
    BY <2>1, <2>2, <2>3, <2>4, <2>5
<1>4. CASE TakeLarge(r)
  <2>1. TypeOK'
    BY <1>4 DEF TakeLarge, TypeOK, Steps, Codes, Answers, Encodings
  <2>2. ObjectsOK'
    BY <1>4 DEF TakeLarge, TypeOK, ObjectsOK, Readable
  <2>3. UploadedFirst'
    BY <1>4 DEF TakeLarge, TypeOK, UploadedFirst, s3Key
  <2>4. DocsOK'
    BY <1>4 DEF TakeLarge, TypeOK, DocsOK
  <2>5. Ordered'
    BY <1>4 DEF TakeLarge, TypeOK, Ordered
  <2> QED
    BY <2>1, <2>2, <2>3, <2>4, <2>5
<1>5. CASE Upload(r)
  <2>1. TypeOK'
    BY <1>5, KeyTellsEncoding DEF Upload, TypeOK, Steps, Codes, Answers, Encodings
  <2>2. ObjectsOK'
    BY <1>5, KeyTellsEncoding DEF Upload, TypeOK, ObjectsOK, Readable
  <2>3. UploadedFirst'
    BY <1>5, KeyTellsEncoding DEF Upload, TypeOK, UploadedFirst, s3Key
  <2>4. DocsOK'
    BY <1>5, KeyTellsEncoding DEF Upload, TypeOK, DocsOK
  <2>5. Ordered'
    BY <1>5, KeyTellsEncoding DEF Upload, TypeOK, Ordered
  <2> QED
    BY <2>1, <2>2, <2>3, <2>4, <2>5
<1>6. CASE UploadFails(r)
  <2>1. TypeOK'
    BY <1>6, KeyTellsEncoding DEF UploadFails, TypeOK, Steps, Codes, Answers, Encodings
  <2>2. ObjectsOK'
    BY <1>6, KeyTellsEncoding DEF UploadFails, TypeOK, ObjectsOK, Readable
  <2>3. UploadedFirst'
    BY <1>6, KeyTellsEncoding DEF UploadFails, TypeOK, UploadedFirst, s3Key
  <2>4. DocsOK'
    BY <1>6, KeyTellsEncoding DEF UploadFails, TypeOK, DocsOK
  <2>5. Ordered'
    BY <1>6, KeyTellsEncoding DEF UploadFails, TypeOK, Ordered
  <2> QED
    BY <2>1, <2>2, <2>3, <2>4, <2>5
<1>7. CASE mongoWrite(r)
  <2>1. TypeOK'
    BY <1>7, InsertKeepsDocs DEF mongoWrite, TypeOK, Steps, Codes, Answers, Encodings
  <2>2. ObjectsOK'
    BY <1>7, InsertKeepsDocs DEF mongoWrite, TypeOK, ObjectsOK, Readable
  <2>3. UploadedFirst'
    BY <1>7, InsertKeepsDocs DEF mongoWrite, TypeOK, UploadedFirst, s3Key
  <2>4. DocsOK'
    BY <1>7, InsertKeepsDocs DEF mongoWrite, TypeOK, DocsOK
  <2>5. Ordered'
    <3>1. \A d \in lake : d \in lake' /\ origin'[d] = origin[d]
      BY <1>7, InsertKeepsDocs DEF mongoWrite
    <3>2. ready \subseteq lake /\ ready' = ready
      BY <1>7 DEF mongoWrite, DocsOK
    <3>3. \A q \in Reqs :
             /\ (\E d \in lake : origin[d] = q) => \E d \in lake' : origin'[d] = q
             /\ (\E d \in ready : origin[d] = q) => \E d \in ready' : origin'[d] = q
      BY <3>1, <3>2
    <3>4. \E d \in lake' : origin'[d] = r
      BY <1>7, InsertKeepsDocs DEF mongoWrite
    <3>5. /\ pc' = [pc EXCEPT ![r] = "publish"] /\ UNCHANGED <<code, answer>>
          /\ pc \in [Reqs -> Steps] /\ pc[r] = "insert"
      BY <1>7 DEF mongoWrite, TypeOK
    <3> QED
      BY <3>3, <3>4, <3>5 DEF Ordered
  <2> QED
    BY <2>1, <2>2, <2>3, <2>4, <2>5
<1>8. CASE mongoWriteFails(r)
  <2>1. TypeOK'
    BY <1>8, InsertKeepsDocs DEF mongoWriteFails, TypeOK, Steps, Codes, Answers, Encodings
  <2>2. ObjectsOK'
    BY <1>8, InsertKeepsDocs DEF mongoWriteFails, TypeOK, ObjectsOK, Readable
  <2>3. UploadedFirst'
    BY <1>8, InsertKeepsDocs DEF mongoWriteFails, TypeOK, UploadedFirst, s3Key
  <2>4. DocsOK'
    BY <1>8, InsertKeepsDocs DEF mongoWriteFails, TypeOK, DocsOK
  <2>5. Ordered'
    <3>1. \A d \in lake : d \in lake' /\ origin'[d] = origin[d]
      BY <1>8, InsertKeepsDocs DEF mongoWriteFails
    <3>2. ready \subseteq lake /\ ready' = ready
      BY <1>8 DEF mongoWriteFails, DocsOK
    <3>3. \A q \in Reqs :
             /\ (\E d \in lake : origin[d] = q) => \E d \in lake' : origin'[d] = q
             /\ (\E d \in ready : origin[d] = q) => \E d \in ready' : origin'[d] = q
      BY <3>1, <3>2
    <3>4. /\ pc' = [pc EXCEPT ![r] = "respond"] /\ code' = [code EXCEPT ![r] = "500"]
          /\ answer' = answer
          /\ pc \in [Reqs -> Steps] /\ code \in [Reqs -> Codes] /\ pc[r] = "insert"
      BY <1>8 DEF mongoWriteFails, TypeOK
    <3>5. answer[r] # "200"
      BY <3>4 DEF Ordered
    <3> QED
      BY <3>3, <3>4, <3>5 DEF Ordered
  <2> QED
    BY <2>1, <2>2, <2>3, <2>4, <2>5
<1>9. CASE publishReady(r)
  <2>1. TypeOK'
    BY <1>9 DEF publishReady, Announce, TypeOK, Steps, Codes, Answers, Encodings
  <2>2. ObjectsOK'
    BY <1>9 DEF publishReady, Announce, TypeOK, ObjectsOK, Readable
  <2>3. UploadedFirst'
    BY <1>9 DEF publishReady, Announce, TypeOK, UploadedFirst, s3Key
  <2>4. DocsOK'
    <3>1. {d \in Docs : origin[d] = r} \subseteq lake
      BY IdentityAssumption DEF DocsOK
    <3> QED
      BY <1>9, <3>1 DEF publishReady, Announce, DocsOK
  <2>5. Ordered'
    BY <1>9 DEF publishReady, Announce, TypeOK, Ordered
  <2> QED
    BY <2>1, <2>2, <2>3, <2>4, <2>5
<1>10. CASE publishReadyFails(r)
  <2>1. TypeOK'
    BY <1>10 DEF publishReadyFails, Announce, TypeOK, Steps, Codes, Answers, Encodings
  <2>2. ObjectsOK'
    BY <1>10 DEF publishReadyFails, Announce, TypeOK, ObjectsOK, Readable
  <2>3. UploadedFirst'
    BY <1>10 DEF publishReadyFails, Announce, TypeOK, UploadedFirst, s3Key
  <2>4. DocsOK'
    <3>1. {d \in Docs : origin[d] = r} \subseteq lake
      BY IdentityAssumption DEF DocsOK
    <3> QED
      BY <1>10, <3>1 DEF publishReadyFails, Announce, DocsOK
  <2>5. Ordered'
    BY <1>10 DEF publishReadyFails, Announce, TypeOK, Ordered
  <2> QED
    BY <2>1, <2>2, <2>3, <2>4, <2>5
<1>11. CASE Respond(r)
  <2>1. TypeOK'
    BY <1>11 DEF Respond, TypeOK, Steps, Codes, Answers, Encodings
  <2>2. ObjectsOK'
    BY <1>11 DEF Respond, TypeOK, ObjectsOK, Readable
  <2>3. UploadedFirst'
    BY <1>11 DEF Respond, TypeOK, UploadedFirst, s3Key
  <2>4. DocsOK'
    BY <1>11 DEF Respond, TypeOK, DocsOK
  <2>5. Ordered'
    BY <1>11 DEF Respond, TypeOK, Ordered
  <2> QED
    BY <2>1, <2>2, <2>3, <2>4, <2>5
<1> QED
  BY <1>1, <1>2, <1>3, <1>4, <1>5, <1>6, <1>7, <1>8, <1>9, <1>10, <1>11 DEF handleIngest

LEMMA Inductive == Spec => []IInv
<1>1. ASSUME IInv, NEW r \in Reqs, Disconnect(r)
      PROVE  IInv'
  BY <1>1 DEF IInv, Disconnect, TypeOK, ObjectsOK, Readable, UploadedFirst, s3Key, DocsOK, Ordered,
              storeVars
<1>2. ASSUME IInv, Crash
      PROVE  IInv'
  <2>1. TypeOK'
    BY <1>2, BoundAssumption DEF Crash, InFlight, IInv, TypeOK, Steps, Answers, Codes, storeVars
  <2>2. ObjectsOK' /\ DocsOK'
    BY <1>2 DEF Crash, IInv, ObjectsOK, Readable, DocsOK, storeVars
  <2>3. UploadedFirst'
    BY <1>2 DEF Crash, InFlight, IInv, TypeOK, UploadedFirst, s3Key, storeVars
  <2>4. Ordered'
    BY <1>2 DEF Crash, InFlight, IInv, TypeOK, Ordered, storeVars
  <2> QED
    BY <2>1, <2>2, <2>3, <2>4 DEF IInv
<1>3. ASSUME IInv, UNCHANGED vars
      PROVE  IInv'
  BY <1>3 DEF IInv, vars, TypeOK, ObjectsOK, Readable, UploadedFirst, s3Key, DocsOK, Ordered, storeVars
<1>4. IInv /\ [Next]_vars => IInv'
  BY <1>1, <1>2, <1>3, HandlerStep DEF Next
<1> QED
  BY <1>4, InitIInv, PTL DEF Spec

-----------------------------------------------------------------------------
\* Each variable keeps its type.
THEOREM TypeCorrect == Spec => []TypeOK
<1>1. IInv => TypeOK
  BY DEF IInv
<1> QED
  BY <1>1, Inductive, PTL

\* A document that refers to object storage refers to an object that is there
\* and encoded as its key says, for any uploads at the same time.
THEOREM References == Spec => []ReferencesResolve
<1>1. IInv => ReferencesResolve
  BY DEF IInv, TypeOK, ObjectsOK, DocsOK, ReferencesResolve
<1> QED
  BY <1>1, Inductive, PTL

\* A 200 stands for a document that holds the payload and was announced.
THEOREM OkIsDurable == Spec => []OkMeansDurable
<1>1. ASSUME IInv, NEW r \in Reqs, answer[r] = "200"
      PROVE  \E d \in lake \cap ready : origin[d] = r /\ (ref[d] # Inline <=> Attr[r].large)
  <2>1. PICK d \in ready : origin[d] = r
    BY <1>1 DEF IInv, Ordered
  <2>2. d \in lake /\ (ref[d] # Inline <=> Attr[origin[d]].large)
    BY <1>1 DEF IInv, DocsOK
  <2> QED
    BY <2>1, <2>2
<1>2. IInv => OkMeansDurable
  BY <1>1 DEF OkMeansDurable
<1> QED
  BY <1>2, Inductive, PTL

\* Whatever names a path carries, an announced document is read under its URN
\* if the provider has two parts, and is not found if it has more.
THEOREM ReadableByUrn == Spec => []AnnouncedIsReadable
<1>1. ASSUME IInv, NEW d \in ready
      PROVE  GetDocument(RawUrnFromProviderURI(provider(d)), d) =
                IF TwoParts(provider(d)) THEN "200" ELSE "404"
  <2>1. d \in lake /\ d \in Docs /\ origin[d] \in Reqs
    BY <1>1 DEF IInv, TypeOK, DocsOK
  <2>2. provider(d) \in Names /\ Has(provider(d), "/")
    BY <2>1, AttrAssumption DEF provider, RequestType
  <2>3. Has(RawUrnFromProviderURI(provider(d)), ":")
    BY <2>2, FirstOfUrn
  <2>4. place(d) = documentPlace(RawUrnFromProviderURI(provider(d))) <=> TwoParts(provider(d))
    BY <2>2, ReadsWhatRawWriter2Wrote DEF place
  <2>5. ref[d] # Inline => Readable(ref[d])
    BY <1>1, <2>1 DEF IInv, TypeOK, ObjectsOK, DocsOK
  <2> QED
    BY <2>1, <2>3, <2>4, <2>5 DEF GetDocument
<1>2. IInv => AnnouncedIsReadable
  BY <1>1 DEF AnnouncedIsReadable
<1> QED
  BY <1>2, Inductive, PTL

\* A second prefix makes another name.
LEMMA PrefixAdds ==
  ASSUME NEW n \in Names, databaseName(databaseName(n)) = databaseName(n)
  PROVE  dbPrefix = NoPrefix
<1> SUFFICES ASSUME dbPrefix # NoPrefix PROVE FALSE
  OBVIOUS
<1> DEFINE p == databaseName(n)
<1>1. dbPrefix \in Segs
  BY PrefixAssumption
<1>2. n.segs \in Seq(Segs) /\ n.seps \in Seq(Seps)
  BY DEF Names
<1>3. p.segs = <<dbPrefix>> \o n.segs
  BY DEF databaseName
<1>4. databaseName(p).segs = <<dbPrefix>> \o p.segs
  BY DEF databaseName
<1> HIDE DEF p
<1>5. p.segs \in Seq(Segs)
  BY <1>1, <1>2, <1>3, Prepended
<1>6. Len(<<dbPrefix>> \o p.segs) = 1 + Len(p.segs) /\ Len(p.segs) \in Nat
  BY <1>1, <1>5, Prepended
<1>7. databaseName(p).segs = p.segs
  BY DEF p
<1> QED
  BY <1>4, <1>6, <1>7

\* The views list an announced document under its logical database, if they
\* admit its names; under the one the announcement names only without prefix.
THEOREM ListedByPlace == Spec => []AnnouncedIsListed
<1>1. ASSUME IInv, NEW d \in ready
      PROVE  LET logical  == Before(provider(d), "/")
                 admitted == ValidDatabaseName(logical) /\ ValidCollectionName(place(d)[2])
             IN  /\ d \in Listed(logical, place(d)[2]) <=> admitted
                 /\ d \in Listed(place(d)[1], place(d)[2]) =>
                       admitted /\ dbPrefix = NoPrefix
  <2> DEFINE logical == Before(provider(d), "/")
  <2>1. d \in lake /\ d \in Docs /\ origin[d] \in Reqs
    BY <1>1 DEF IInv, TypeOK, DocsOK
  <2>2. provider(d) \in Names /\ Has(provider(d), "/")
    BY <2>1, AttrAssumption DEF provider, RequestType
  <2>3. logical \in Names
    BY <2>2, SplitType
  <2>4. place(d) = <<databaseName(logical), place(d)[2]>> /\ place(d)[1] = databaseName(logical)
    BY DEF place, providerParts
  <2> HIDE DEF logical
  <2>5. d \in Listed(logical, place(d)[2]) <=>
           ValidDatabaseName(logical) /\ ValidCollectionName(place(d)[2])
    BY <2>1, <2>4 DEF Listed
  <2>6. ASSUME d \in Listed(place(d)[1], place(d)[2])
        PROVE  /\ ValidDatabaseName(logical) /\ ValidCollectionName(place(d)[2])
               /\ dbPrefix = NoPrefix
    <3>1. /\ ValidDatabaseName(place(d)[1]) /\ ValidCollectionName(place(d)[2])
          /\ place(d) = <<databaseName(place(d)[1]), place(d)[2]>>
      BY <2>6 DEF Listed
    <3>2. databaseName(databaseName(logical)) = databaseName(logical)
      BY <2>4, <3>1
    <3>3. dbPrefix = NoPrefix
      BY <2>3, <3>2, PrefixAdds
    <3>4. place(d)[1] = logical
      BY <2>4, <3>3 DEF databaseName
    <3> QED
      BY <3>1, <3>3, <3>4
  <2> QED
    BY <2>5, <2>6 DEF logical
<1>2. IInv => AnnouncedIsListed
  BY <1>1 DEF AnnouncedIsListed
<1> QED
  BY <1>2, Inductive, PTL

-----------------------------------------------------------------------------
(***************************************************************************)
(* The contract, seen through Announced and Verdict.                       *)
(***************************************************************************)
\* What is announced follows from ready alone.
LEMMA AnnouncedIsReady == IInv => Announced = {r \in Reqs : \E d \in ready : origin[d] = r}
  BY DEF IInv, DocsOK, Announced

LEMMA InitRefines == Init => Contract!Init
<1> SUFFICES ASSUME Init PROVE Contract!Init
  OBVIOUS
<1>1. Announced = {}
  BY DEF Init, Announced
<1>2. Verdict = [r \in Reqs |-> "pending"]
  BY DEF Init, Verdict
<1> QED
  BY <1>1, <1>2 DEF Contract!Init

\* Handlers that do not publish announce nothing, and no document changes
\* its request.
LEMMA QuietStep ==
  ASSUME IInv, IInv', ready' = ready, \A d \in lake : origin'[d] = origin[d]
  PROVE  Announced' = Announced
<1>1. ready \subseteq lake
  BY DEF IInv, DocsOK
<1>2. Announced' = {r \in Reqs : \E d \in ready' : origin'[d] = r}
  BY DEF IInv, DocsOK, Announced
<1> QED
  BY <1>1, <1>2, AnnouncedIsReady

LEMMA PublishRefines ==
  ASSUME IInv, IInv', NEW r \in Reqs, pc[r] = "publish", UNCHANGED <<origin, answer>>,
         ready' = ready \/ Announce(r)
  PROVE  Contract!Announce(r) \/ UNCHANGED <<Announced, Verdict>>
<1>1. Verdict' = Verdict
  BY DEF Verdict
<1>2. CASE ready' = ready
  BY <1>1, <1>2, QuietStep
<1>3. CASE Announce(r)
  <2>1. PICK d \in Docs : origin[d] = r
    BY DEF IInv, TypeOK, Ordered
  <2>2. Announced' = {q \in Reqs : \E e \in ready' : origin'[e] = q}
    BY DEF IInv, DocsOK, Announced
  <2>3. Announced' = Announced \cup {r}
    BY <1>3, <2>1, <2>2, AnnouncedIsReady DEF Announce
  <2> QED
    BY <1>1, <2>3 DEF Contract!Announce
<1> QED
  BY <1>2, <1>3

LEMMA RespondRefines ==
  ASSUME IInv, IInv', NEW r \in Reqs, Respond(r)
  PROVE  Contract!Accept(r) \/ Contract!Refuse({r})
<1>1. Announced' = Announced
  BY QuietStep DEF Respond, storeVars
<1>2. /\ answer \in [Reqs -> Answers] /\ code[r] \in Codes \ {"none"}
      /\ answer[r] = "none"
  BY DEF Respond, IInv, TypeOK, Ordered
<1>3. answer' = [answer EXCEPT ![r] = IF r \in connected THEN code[r] ELSE "lost"]
  BY DEF Respond
<1>4. Verdict[r] = "pending"
  BY <1>2 DEF Verdict
<1>5. CASE r \in connected /\ code[r] = "200"
  <2>1. r \in Announced
    BY <1>5, AnnouncedIsReady DEF IInv, Ordered
  <2>2. Verdict' = [Verdict EXCEPT ![r] = "accepted"]
    BY <1>2, <1>3, <1>5 DEF Verdict
  <2> QED
    BY <1>1, <1>4, <2>1, <2>2 DEF Contract!Accept
<1>6. CASE ~ (r \in connected /\ code[r] = "200")
  <2>1. answer'[r] \notin {"none", "200"}
    BY <1>2, <1>3, <1>6 DEF Codes
  <2>2. Verdict' = [q \in Reqs |-> IF q \in {r} THEN "refused" ELSE Verdict[q]]
    BY <1>2, <1>3, <2>1 DEF Verdict
  <2> QED
    BY <1>1, <1>4, <2>2 DEF Contract!Refuse
<1> QED
  BY <1>5, <1>6

LEMMA CrashRefines ==
  ASSUME IInv, IInv', Crash
  PROVE  Contract!Refuse(InFlight)
<1>1. Announced' = Announced
  BY QuietStep DEF Crash, storeVars
<1>2. \A r \in InFlight : r \in Reqs /\ Verdict[r] = "pending"
  BY DEF InFlight, IInv, Ordered, Verdict
<1>3. Verdict' = [r \in Reqs |-> IF r \in InFlight THEN "refused" ELSE Verdict[r]]
  BY DEF Crash, Verdict
<1> QED
  BY <1>1, <1>2, <1>3 DEF Contract!Refuse

LEMMA StepRefines == IInv /\ IInv' /\ [Next]_vars => [Contract!Next]_(Contract!vars)
<1> SUFFICES ASSUME IInv, IInv', [Next]_vars
             PROVE  Contract!Next \/ UNCHANGED <<Announced, Verdict>>
  BY DEF Contract!vars
<1>1. ASSUME UNCHANGED <<answer, ready>>, \A d \in lake : origin'[d] = origin[d]
      PROVE  UNCHANGED <<Announced, Verdict>>
  BY <1>1, QuietStep DEF Verdict
<1>2. ASSUME NEW r \in Reqs, handleIngest(r)
      PROVE  Contract!Next \/ UNCHANGED <<Announced, Verdict>>
  <2>1. CASE parseMeta(r) \/ ReadBodyFails(r) \/ TakeSmall(r) \/ TakeLarge(r)
    BY <1>1, <2>1 DEF parseMeta, ReadBodyFails, TakeSmall, TakeLarge, Goto, Answer, storeVars
  <2>2. CASE Upload(r) \/ UploadFails(r)
    BY <1>1, <2>2 DEF Upload, UploadFails, Goto, Answer, storeVars
  <2>3. CASE mongoWrite(r) \/ mongoWriteFails(r)
    <3>1. UNCHANGED <<answer, ready>>
      BY <2>3 DEF mongoWrite, mongoWriteFails, Goto, Answer
    <3>2. \A d \in lake : origin'[d] = origin[d]
      BY <2>3, InsertKeepsDocs DEF mongoWrite, mongoWriteFails, storeVars
    <3> QED
      BY <1>1, <3>1, <3>2
  <2>4. CASE publishReady(r) \/ publishReadyFails(r)
    <3>1. Contract!Announce(r) \/ UNCHANGED <<Announced, Verdict>>
      BY <2>4, PublishRefines DEF publishReady, publishReadyFails, Answer, storeVars
    <3> QED
      BY <3>1 DEF Contract!Next
  <2>5. CASE Respond(r)
    BY <2>5, RespondRefines DEF Contract!Next
  <2> QED
    BY <1>2, <2>1, <2>2, <2>3, <2>4, <2>5 DEF handleIngest
<1>3. ASSUME NEW r \in Reqs, Disconnect(r)
      PROVE  UNCHANGED <<Announced, Verdict>>
  BY <1>1, <1>3 DEF Disconnect, storeVars
<1>4. CASE Crash
  <2>1. InFlight \in SUBSET Reqs
    BY DEF InFlight
  <2> QED
    BY <1>4, <2>1, CrashRefines DEF Contract!Next
<1>5. CASE UNCHANGED vars
  BY <1>1, <1>5 DEF vars, storeVars
<1> QED
  BY <1>2, <1>3, <1>4, <1>5 DEF Next

\* raw-writer-2 implements the contract of a raw writer, and takes nothing
\* back.
THEOREM Implements == Spec => ImplementsContract
<1>1. Spec => [][Contract!Next]_(Contract!vars)
  BY StepRefines, Inductive, PTL DEF Spec
<1> QED
  BY <1>1, InitRefines, PTL DEF Spec, ImplementsContract, Contract!Spec
=============================================================================
