----------------------------- MODULE RawWriter2 -----------------------------
(***************************************************************************)
(* infrastructure/raw-writer-2: an HTTP endpoint that stores a payload and *)
(* announces it.  handleIngest (handler.go:113-223) runs once per request, *)
(* requests concurrently.  A large payload goes to object storage first,   *)
(* compressed when it is text, and the lake gets a document that refers to *)
(* it; a small one is stored in the document itself.  Then the document is *)
(* announced on the ready exchange and the client gets its answer.         *)
(*                                                                         *)
(* Unlike its predecessor it takes nothing back: each failing step answers *)
(* 500 and leaves what the steps before it stored.                         *)
(***************************************************************************)
EXTENDS Naming, FiniteSets

CONSTANTS
    Reqs,         \* HTTP requests; a client's retry is a request of its own
    Attr,         \* what each request carries, see RequestType
    Keys,         \* provider, timestamp and payload hash: an S3 key's stem
    Docs,         \* ObjectIDs the MongoDB driver mints, each at most once
    MaxCrashes,   \* bound: terminations of the process
    NoReq,        \* "no request"
    Inline        \* raw_ref of a document that carries its payload itself

(***************************************************************************)
(* large     the payload has LARGE_SIZE_THRESHOLD bytes or more            *)
(* text      isText holds of its media type                                *)
(* key       the stem of the S3 key its payload would be stored under      *)
(* provider  {provider1}/{provider2} of its path                           *)
(***************************************************************************)
RequestType == [large : BOOLEAN, text : BOOLEAN, key : Keys, provider : Names]

\* An object's full key says whether its data is compressed (suffix .zst).
ObjectNames == Keys \X BOOLEAN

ASSUME AttrAssumption ==
    /\ Attr \in [Reqs -> RequestType]
    /\ \A r \in Reqs : Has(Attr[r].provider, "/")
ASSUME IdentityAssumption == NoReq \notin Reqs /\ Inline \notin ObjectNames
ASSUME BoundAssumption == MaxCrashes \in Nat

VARIABLES
    pc,        \* the next step of each request's handler
    zst,       \* requests whose data is compressed (local variable data)
    code,      \* the status the handler is about to answer
    answer,    \* what the client has learned
    connected, \* requests whose client still waits
    objects,   \* object storage: how the data under each name is encoded
    lake,      \* documents in the raw data lake
    origin,    \* the request each document ever stored was made from
    ref,       \* raw_ref of each document
    ready,     \* documents announced on the ready exchange
    crashes

storeVars == <<lake, origin, ref>>
vars == <<pc, zst, code, answer, connected, objects, lake, origin, ref, ready, crashes>>

Steps     == {"new", "prepare", "upload", "insert", "publish", "respond", "done"}
Codes     == {"none", "200", "400", "500"}
Answers   == Codes \cup {"lost"}
Encodings == {"absent", "plain", "zstd"}

\* Type invariant.
TypeOK ==
    /\ pc \in [Reqs -> Steps]
    /\ zst \subseteq Reqs
    /\ code \in [Reqs -> Codes]
    /\ answer \in [Reqs -> Answers]
    /\ connected \subseteq Reqs
    /\ objects \in [ObjectNames -> Encodings]
    /\ lake \subseteq Docs
    /\ origin \in [Docs -> Reqs \cup {NoReq}]
    /\ ref \in [Docs -> ObjectNames \cup {Inline}]
    /\ ready \subseteq Docs
    /\ crashes \in 0 .. MaxCrashes

Init ==
    /\ pc = [r \in Reqs |-> "new"]
    /\ zst = {}
    /\ code = [r \in Reqs |-> "none"]
    /\ answer = [r \in Reqs |-> "none"]
    /\ connected = Reqs
    /\ objects = [n \in ObjectNames |-> "absent"]
    /\ lake = {}
    /\ origin = [d \in Docs |-> NoReq]
    /\ ref = [d \in Docs |-> Inline]
    /\ ready = {}
    /\ crashes = 0

-----------------------------------------------------------------------------
Goto(r, step) ==
    /\ pc' = [pc EXCEPT ![r] = step]
    /\ UNCHANGED <<code, answer, connected, crashes>>

\* http.Error, or the JSON body of a 200, and return.
Answer(r, status) ==
    /\ pc' = [pc EXCEPT ![r] = "respond"]
    /\ code' = [code EXCEPT ![r] = status]
    /\ UNCHANGED <<answer, connected, crashes>>

\* Path and headers have what it takes, or the client hears 400.
parseMeta(r) ==
    /\ pc[r] = "new"
    /\ \/ Goto(r, "prepare")
       \/ Answer(r, "400")
    /\ UNCHANGED <<zst, objects, storeVars, ready>>

\* io.ReadAll fails: the client went away while it sent the body.
ReadBodyFails(r) ==
    /\ pc[r] = "prepare"
    /\ Answer(r, "500")
    /\ UNCHANGED <<zst, objects, storeVars, ready>>

\* A small payload goes straight to the lake.
TakeSmall(r) ==
    /\ pc[r] = "prepare"
    /\ ~Attr[r].large
    /\ Goto(r, "insert")
    /\ UNCHANGED <<zst, objects, storeVars, ready>>

\* A large one is compressed if it is text; when the encoder cannot be made
\* it is uploaded as it is, under the key without suffix.
TakeLarge(r) ==
    /\ pc[r] = "prepare"
    /\ Attr[r].large
    /\ \/ zst' = zst \cup {r} /\ Attr[r].text
       \/ zst' = zst
    /\ Goto(r, "upload")
    /\ UNCHANGED <<objects, storeVars, ready>>

-----------------------------------------------------------------------------
(***************************************************************************)
(* Object storage.                                                         *)
(***************************************************************************)
s3Key(r) == <<Attr[r].key, r \in zst>>
data(r)  == IF r \in zst THEN "zstd" ELSE "plain"

Upload(r) ==
    /\ pc[r] = "upload"
    /\ objects' = [objects EXCEPT ![s3Key(r)] = data(r)]
    /\ Goto(r, "insert")
    /\ UNCHANGED <<zst, storeVars, ready>>

\* MUTANT: no return after http.Error.
UploadFails_Continues(r) ==
    /\ pc[r] = "upload"
    /\ UNCHANGED objects
    /\ Goto(r, "insert")
    /\ UNCHANGED <<zst, storeVars, ready>>

\* PutObject fails, with or without having stored the object.
UploadFails(r) ==
    /\ pc[r] = "upload"
    /\ \/ UNCHANGED objects
       \/ objects' = [objects EXCEPT ![s3Key(r)] = data(r)]
    /\ Answer(r, "500")
    /\ UNCHANGED <<zst, storeVars, ready>>

(***************************************************************************)
(* The lake.  InsertOne runs under the request's context and may fail at   *)
(* any time, before or after the document was stored.  A provider that     *)
(* names no database fails before.                                         *)
(***************************************************************************)
buildDoc(r) == IF Attr[r].large THEN s3Key(r) ELSE Inline

InsertOne(r) ==
    \E d \in Docs :
        /\ origin[d] = NoReq
        /\ lake' = lake \cup {d}
        /\ origin' = [origin EXCEPT ![d] = r]
        /\ ref' = [ref EXCEPT ![d] = buildDoc(r)]

\* MUTANT: the client is answered before the announcement.
mongoWrite_Answers(r) ==
    /\ pc[r] = "insert"
    /\ InsertOne(r)
    /\ Answer(r, "200")
    /\ UNCHANGED <<zst, objects, ready>>

mongoWrite(r) ==
    /\ pc[r] = "insert"
    /\ InsertOne(r)
    /\ Goto(r, "publish")
    /\ UNCHANGED <<zst, objects, ready>>

\* MUTANT: no return after http.Error.
mongoWriteFails_Continues(r) ==
    /\ pc[r] = "insert"
    /\ Goto(r, "publish")
    /\ UNCHANGED <<zst, objects, storeVars, ready>>

mongoWriteFails(r) ==
    /\ pc[r] = "insert"
    /\ \/ UNCHANGED storeVars
       \/ InsertOne(r)
    /\ Answer(r, "500")
    /\ UNCHANGED <<zst, objects, ready>>

(***************************************************************************)
(* The announcement of the document that mongoWrite returned.              *)
(***************************************************************************)
Announce(r) == ready' = ready \cup {d \in Docs : origin[d] = r}

publishReady(r) ==
    /\ pc[r] = "publish"
    /\ Announce(r)
    /\ Answer(r, "200")
    /\ UNCHANGED <<zst, objects, storeVars>>

\* No URN, or Publish fails, with or without the broker having the message.
publishReadyFails(r) ==
    /\ pc[r] = "publish"
    /\ \/ UNCHANGED ready
       \/ Announce(r)
    /\ Answer(r, "500")
    /\ UNCHANGED <<zst, objects, storeVars>>

-----------------------------------------------------------------------------
\* The handler returns; the answer reaches a client that still waits.
Respond(r) ==
    /\ pc[r] = "respond"
    /\ pc' = [pc EXCEPT ![r] = "done"]
    /\ answer' = [answer EXCEPT ![r] = IF r \in connected THEN code[r] ELSE "lost"]
    /\ UNCHANGED <<zst, code, connected, objects, storeVars, ready, crashes>>

\* The client hangs up.  The handler learns of it only by a call that fails
\* because the request's context is cancelled.
Disconnect(r) ==
    /\ r \in connected
    /\ pc[r] # "done"
    /\ connected' = connected \ {r}
    /\ UNCHANGED <<pc, zst, code, answer, objects, storeVars, ready, crashes>>

\* The process is killed, or its 10 s of grace after a signal are over.
InFlight == {r \in Reqs : pc[r] \notin {"new", "done"}}

Crash ==
    /\ crashes < MaxCrashes
    /\ InFlight # {}
    /\ crashes' = crashes + 1
    /\ pc' = [r \in Reqs |-> IF r \in InFlight THEN "done" ELSE pc[r]]
    /\ answer' = [r \in Reqs |-> IF r \in InFlight THEN "lost" ELSE answer[r]]
    /\ UNCHANGED <<zst, code, connected, objects, storeVars, ready>>

handleIngest(r) ==
    \/ parseMeta(r) \/ ReadBodyFails(r) \/ TakeSmall(r) \/ TakeLarge(r)
    \/ Upload(r) \/ UploadFails(r)
    \/ mongoWrite(r) \/ mongoWriteFails(r)
    \/ publishReady(r) \/ publishReadyFails(r)
    \/ Respond(r)

Next ==
    \/ \E r \in Reqs : handleIngest(r) \/ Disconnect(r)
    \/ Crash

Spec == Init /\ [][Next]_vars

-----------------------------------------------------------------------------
(***************************************************************************)
(* Properties                                                              *)
(***************************************************************************)
\* The reader takes the encoding from the key (raw-data-bridge/s3/s3.go:97).
Readable(name) == objects[name] = IF name[2] THEN "zstd" ELSE "plain"

\* Whatever failed, and whoever else uploads the same payload meanwhile,
\* every document that refers to object storage refers to an object that is
\* there and is encoded as its key says.
ReferencesResolve ==
    \A d \in lake : ref[d] # Inline => Readable(ref[d])

(***************************************************************************)
(* What a transformer does with an announcement: it asks the bridge for    *)
(* the URN, or for the collection the announcement names.                  *)
(***************************************************************************)
provider(d) == Attr[origin[d]].provider
place(d)    == providerParts(provider(d))

\* The status of GET /urns/:urn, when none of the bridge's calls fail.
GetDocument(urn, d) ==
    CASE ~Has(urn, ":")                                -> "400"
      [] d \notin lake \/ place(d) # documentPlace(urn) -> "404"
      [] ref[d] # Inline /\ ~Readable(ref[d])           -> "500"
      [] OTHER                                         -> "200"

\* What GET /:db/:collection/documents lists.
Listed(db, coll) ==
    IF ValidDatabaseName(db) /\ ValidCollectionName(coll)
    THEN {d \in lake : place(d) = <<databaseName(db), coll>>} ELSE {}

\* A transformer that is told of a document can read it by its URN, unless
\* the provider has more than two parts: then raw-writer-2 stores it where
\* the bridge does not look.
AnnouncedIsReadable ==
    \A d \in ready :
        GetDocument(RawUrnFromProviderURI(provider(d)), d) =
            IF TwoParts(provider(d)) THEN "200" ELSE "404"

\* The views find the document under its logical database, if its names are
\* ones they admit.  The database that the announcement itself names is the
\* physical one; the bridge would prefix it again (its README.md:160).
AnnouncedIsListed ==
    \A d \in ready :
        LET logical  == Before(provider(d), "/")
            admitted == ValidDatabaseName(logical) /\ ValidCollectionName(place(d)[2])
        IN  /\ d \in Listed(logical, place(d)[2]) <=> admitted
            /\ d \in Listed(place(d)[1], place(d)[2]) =>
                  admitted /\ dbPrefix = NoPrefix

\* A client that hears 200 can forget the payload: one document holds it, is
\* announced, and can be read back.
OkMeansDurable ==
    \A r \in Reqs : answer[r] = "200" =>
        \E d \in lake \cap ready : origin[d] = r /\ (ref[d] # Inline <=> Attr[r].large)

\* What the contract calls announced, and its verdict on each request.
Announced == {r \in Reqs : \E d \in lake \cap ready : origin[d] = r}
Verdict   == [r \in Reqs |-> CASE answer[r] = "none" -> "pending"
                               [] answer[r] = "200"  -> "accepted"
                               [] OTHER              -> "refused"]

\* This writer implements the contract, and never withdraws.
Contract == INSTANCE IngestContract WITH
    Items <- Reqs, MayWithdraw <- FALSE, announced <- Announced, verdict <- Verdict

ImplementsContract == Contract!Spec
=============================================================================
