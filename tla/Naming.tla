------------------------------- MODULE Naming -------------------------------
(***************************************************************************)
(* How a provider becomes a place in the lake and a URN, and how a URN     *)
(* becomes a place again.  Four programs do a part of it: the two writers, *)
(* raw-data-bridge and encore.                                             *)
(*                                                                         *)
(* A name is a sequence of segments and the separators between them:       *)
(* "a/b.c" has the segments a, b, c and the separators "/" and ".".  A     *)
(* path segment of a request may hold an escaped "/", so raw-writer-2 gets *)
(* providers with any number of separators.                                *)
(***************************************************************************)
EXTENDS Naturals, Sequences

CONSTANTS
    Segs,     \* what can stand between two separators
    BadSegs,  \* of these, what nameRe refuses
    dbPrefix, \* DB_PREFIX of the writers, APP_DB_PREFIX of the bridge
    NoPrefix

\* README.md:149 of the bridge: the prefix "must match raw-writer-2's".
ASSUME PrefixAssumption == NoPrefix \notin Segs /\ dbPrefix \in Segs \cup {NoPrefix}
ASSUME BadSegsAssumption == BadSegs \subseteq Segs

\* "" is the place where a prefix was put in front of a name.
Seps == {"/", ":", ".", ""}

Names == {n \in [segs : Seq(Segs), seps : Seq(Seps)] : Len(n.segs) = Len(n.seps) + 1}

-----------------------------------------------------------------------------
(***************************************************************************)
(* package strings.                                                        *)
(***************************************************************************)
Has(n, sep) == \E k \in DOMAIN n.seps : n.seps[k] = sep

First(n, sep) ==
    CHOOSE k \in DOMAIN n.seps : n.seps[k] = sep /\ \A j \in 1 .. k - 1 : n.seps[j] # sep

\* What a split at sep has in its first part, and in the rest.
Before(n, sep) ==
    [segs |-> SubSeq(n.segs, 1, First(n, sep)), seps |-> SubSeq(n.seps, 1, First(n, sep) - 1)]

After(n, sep) ==
    [segs |-> SubSeq(n.segs, First(n, sep) + 1, Len(n.segs)),
     seps |-> SubSeq(n.seps, First(n, sep) + 1, Len(n.seps))]

Replace(n, old, new) ==
    [segs |-> n.segs,
     seps |-> [k \in DOMAIN n.seps |-> IF n.seps[k] = old THEN new ELSE n.seps[k]]]

Concat(m, sep, n) ==
    [segs |-> m.segs \o n.segs, seps |-> m.seps \o <<sep>> \o n.seps]

-----------------------------------------------------------------------------
(***************************************************************************)
(* Places are pairs of a database, with its prefix, and a collection.      *)
(***************************************************************************)
databaseName(db) ==
    IF dbPrefix = NoPrefix THEN db
    ELSE [segs |-> <<dbPrefix>> \o db.segs, seps |-> <<"">> \o db.seps]

\* raw-writer: the segments after the first are joined by ".".
constructTableTarget(provider) ==
    <<databaseName(Before(provider, "/")), Replace(After(provider, "/"), "/", ".")>>

\* MUTANT: the writer ignores DB_PREFIX.
providerParts_NoPrefix(provider) == <<Before(provider, "/"), After(provider, "/")>>

\* raw-writer-2: everything after the first "/" is the collection.
providerParts(provider) == <<databaseName(Before(provider, "/")), After(provider, "/")>>

\* A URN without its "urn:raw:" and its id (docs/guidelines.md:55).
RawUrnFromProviderURI(provider) == Replace(provider, "/", ":")

\* MUTANT: the bridge looks for the logical database.
documentPlace_NoPrefix(urn) == <<Before(urn, ":"), Replace(After(urn, ":"), ":", ".")>>

\* raw-data-bridge: where GetDocument looks for the document of a URN.
documentPlace(urn) ==
    <<databaseName(Before(urn, ":")), Replace(After(urn, ":"), ":", ".")>>

\* encore: the URN of the documents in a collection, by its place.
replayUrn(place) == RawUrnFromProviderURI(Concat(place[1], "/", place[2]))

(***************************************************************************)
(* The bridge's collection views take database and collection from a path. *)
(***************************************************************************)
Allowed(n, seps) ==
    /\ \A k \in DOMAIN n.segs : n.segs[k] \notin BadSegs
    /\ \A k \in DOMAIN n.seps : n.seps[k] \in seps

ValidDatabaseName(n)   == Allowed(n, {""})
ValidCollectionName(n) == Allowed(n, {".", ""})

-----------------------------------------------------------------------------
\* A provider of two parts, as providerParts takes it: apart from the "/"
\* between them it has dots at most.
TwoParts(provider) ==
    \A k \in DOMAIN provider.seps :
        provider.seps[k] \in {"/", ":"} => k = First(provider, "/")
=============================================================================
