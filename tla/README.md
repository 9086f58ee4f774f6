# A verification project for the Open Data Hub core

TLA+ modules for the services under `infrastructure/` of this repository, the
TLC configurations that check them on small instances, and theorems about them
that TLAPS checks for every instance.  The source paths below are relative to
the repository's root.

    tlasany M.tla                            parse a module
    tlc -workers 2 -config X.cfg M           check a configuration (table below)
    tlapm M.tla                              check the proofs of a module

## The system

Collectors put messages on an ingress exchange.  A *raw writer* stores each of
them in the raw data lake (MongoDB) and announces the stored document on the
*ready* exchange.  The *router* turns every announcement into a message on the
*routed* topic exchange, under a routing key made from the document's URN.
*Transformers* (outside this repository) bind queues there and fetch the
documents they are told of from the *raw data bridge*.

    collector -> ingress queue -> raw-writer   --+
    client    -> HTTP          -> raw-writer-2 --+-> ready queue -> router -> routed exchange -> transformers
                                    |       |                                              \-> unroutable
                                 MongoDB    S3  <------------- raw-data-bridge <---------------- reads

### Inventory

| Component | Source | State it keeps | Operations | What makes it correct |
|---|---|---|---|---|
| RabbitMQ, as configured | `raw-writer/main.go:260-281`, `router/main.go:115-130`, `rabbitmq.conf` | queue, unacknowledged deliveries, dead letters, bindings | deliver, ack, nack, redeliver after a lost connection, consumer timeout | one owner per delivery; a verdict is final |
| raw-writer | `raw-writer/main.go`, `atomically.go` | goroutine per message; documents; announcements | validate, insert, announce, roll back, ack, nack, panic | nothing acked is lost; no announcement without document; no document without announcement; no duplicate |
| raw-writer-2 | `raw-writer-2/*.go` | one handler per HTTP request; objects, documents, announcements | parse, compress, upload, insert, announce, answer | references resolve; 200 means durable and announced |
| router | `router/main.go` | goroutine per message | derive routing key, publish, ack, nack, panic | what is acked is routed; no copy twice |
| raw-data-bridge, log view | `raw-data-bridge/rdt/rdt.go:410-545`, `server.go` | cursor of a page (in the client) | one page of `documents` | a walk over all pages is complete, without repetition, and ends |
| raw-data-bridge, compacted view | `rdt.go:297-408` | the same | one page of `compacted` | a walk yields the newest document of each key; a second walk never goes back |
| raw-data-bridge, documents and payloads | `server.go:119-152, 253-302, 312-354`, `retriever.go`, `s3/s3.go` | parallel fetches of a page | fetch, decompress, inline, refuse | all payloads or none; order kept; bounded parallelism |
| names and URNs | `rdt.go:55-183`, `raw-writer/main.go:175-195`, `raw-writer-2/mongo.go:21-27`, `encore/main.go:91` | none | name a database and a collection, make a URN and take it apart | reader and writers agree |
| delete_collection.sh | `devops/mongo/delete_collection.sh` | none | `deleteMany`, `drop` | readers cope |
| compact_after_delete.sh | `devops/mongo/compact_after_delete.sh` | roles of the replica set, read once | compact secondaries, step down, compact the former primary | never compacts a primary in non-blocking mode |
| encore | `devops/encore/main.go` | bounded channel between two goroutines | read rows in order, publish them, close in the deferred functions | every row once and in order; what "Job done!" is worth; it ends |
| rabbitmq_dev_route.py, detour | `devops/` | bindings in the broker | add, remove a queue | readers of other queues are unaffected |
| deployment, charts, secrets, CI, database scripts, log shipping | `deploy/`, `infrastructure/helm`, `infrastructure/db`, `infrastructure/filebeat`, `.github` | configuration | none that a model could step through | not modelled |

Components interact through three shared things only: queues, the lake and
object storage.  What is hard is between them: a crash between an insert and an
announcement, a confirm that is lost, a delivery that times out at the broker
while its goroutine still runs, a panic that takes all other goroutines along,
a client that hangs up and tries again, a collection that changes under a
walk.  `PROJECT.json` lists every such place with its line.

## The modules

| Module | Models | State and actions, and the code they stand for |
|---|---|---|
| `Consumer` | a queue and the goroutine-per-delivery loop `handleMq`, which raw-writer and router share | `where` is the broker's view of a message, `cur` the message of a goroutine, `owns` the goroutines whose delivery still counts.  `Deliver` starts a goroutine, `Settle` is `msg.Ack()`/`msg.Nack()`, `Disconnected` the death of the process, `TimedOut` the broker's `consumer_timeout`: the connection is closed but the goroutines go on. |
| `RawWriter` | `raw-writer` | `pc` is where `handleMqMsg` stands.  Each blocking call is an action with its outcomes: done, failed, done but reported as failed (`mongoWriteReplyLost`, `PublishConfirmLost`).  `mongoDelete` is the Atom's rollback, whose error is dropped.  `Panic` is one of the three unchecked conversions and restarts the process.  `origin` and `cause` are history: which message a document came from, and which fault parted it from its announcement. |
| `IngestContract` | what either writer promises: an accepted item is announced for good | abstract; `RawWriter` and `RawWriter2` implement it.  `announced` and `verdict` are read off the lake, the ready exchange and the broker or the client's answer (`Announced`, `Verdict`) |
| `RawWriter2` | `raw-writer-2`, and how the bridge finds what it stored | one handler per request, `pc` its next step; a refusal by `parseMeta` is a choice, since nothing after it depends on the headers it read; `objects` tells how the data under each S3 name is encoded; `answer` is what the client learned; `GetDocument` and `Listed` are the bridge's answers |
| `Router` | `router` and the exchanges behind it | `bound` are the bindings, changed at any time by `Rebind`, but for those of `Permanent` queues; `Route` is the topic exchange with its alternate exchange; `routed` and `resent` are the copies made |
| `Pipeline` | `RawWriter` and `Router` joined by the ready queue | an announcement of the writer is queued for the router in the same step |
| `Naming` | the ways from a provider to a place in the lake and a URN, and back, in four programs | pure operators, one for each function: `databaseName`, `constructTableTarget` (raw-writer), `providerParts` (raw-writer-2), `documentPlace` (bridge), `replayUrn` (encore), `ValidDatabaseName` and `ValidCollectionName` (the bridge's routes) |
| `Paging` | `parseLimit`, `decodeCursor`, `drain` and `finish` of the bridge | `limit` is the limit of the request, another one on each page; `Accepted` says which cursors a view takes for its own, `Strays` are those of other views; `page`, `total`; `WantsMore` is the query's limit (one row more than the page's), `Fits` the byte budget, `More` the continuation |
| `DocumentsWalk` | `GetDocuments`, walked by a client | the find reads row by row from a collection that changes; a page is served when `drain` returns |
| `CompactedWalk` | `GetCompacted`, walked again and again | the aggregation scans the collection first, and not in a snapshot: `lo` is what it must see, `hi` what it may |
| `InlinePage` | `respondPage`, `inlineRawData` and S3's `Retrieve` | `go` is where the goroutine of each document stands, `attempt` its failed tries, `err` the document whose error `g.Wait()` will return, `cancelled` the group's context.  `Go` is `g.Go` with its limit; it goes on starting goroutines after the page has failed, as the code does |
| `CompactScript` | `compact_after_delete.sh` and the replica set it runs against | `pc` is the line the script is at, `answered`, `PRIMARY_POD` and `remaining` what it believes, `role`, `starting` and `running` what is the case.  `CompactPod` launches a job, a `mongosh` in the background; `CompactStarts` and `CompactEnds` happen when they do, late or never included.  `Elect`, `Down`, `Up` happen behind the script's back; `Abort` is `set -e` or the operator.  `changed`, `refused` and `adrift`, the jobs no script waits for, are history |
| `Encore` | `encore` | `producer` and `main` are the lines the two goroutines are at, `msgs` the channel, `failed` a panic that runs the deferred functions, `wire` and `connection` what the broker may still lose, `queue` whether the queue is there: others delete it and declare it again (`DeleteQueue`, `ConsumerDeclares`) as `QueueDeclare` does.  `deleted` and `arrived` are history |
| `OperatorTools` | either of the two programs an operator starts | `tool` says which one |
| `ConsumerProofs`, `PipelineProofs` (`RawWriter` and `Pipeline`), `RawWriter2Proofs` (`Naming` and `RawWriter2`), `RouterProofs`, `InlinePageProofs`, `DocumentsWalkProofs`, `CompactedWalkProofs`, `OperatorToolsProofs` | | theorems, see below |

Each `MC` module gives the constants of its system their values.  A definition
whose comment begins with `MUTANT` is not part of the specification: it is the
definition next to it with a plausible bug, and shows that the property listed
with it in `PROJECT.json` would notice.

### Choices worth knowing

* **Messages are classes.**  What `handleMqMsg` makes of a payload is one of
  four things: accepted, accepted with an `_id` of its own, refused with an
  error, or a panic.  JSON and timestamps do not appear.
* **Names are segments and separators.**  What the programs do to a provider is
  split, join and replace at `/`, `:` and `.`, so a name is a sequence of
  segments and the separators between them, and no character appears.
* **Calls have three outcomes.**  MongoDB, S3 and RabbitMQ can do what they
  were asked and still have the caller see an error.
* **A panic is a restart.**  `handleMq` starts goroutines without `recover`, so
  a panic ends the process and all other handlers with it.
* **The ready queue is dead-lettered** because raw-writer declares it so
  (`raw-writer/main.go:271-276`); the router only names it
  (`router/main.go:115-117`).
* **A timed-out delivery has two lives.**  The services call MongoDB without a
  deadline (`context.TODO()`), while `consumer_timeout` is 60 s
  (`deploy/values/rabbitmq/values.yaml`, `rabbitmq.conf`).  The broker gives
  the message to another goroutine; the old one goes on, and its late answer
  has no effect.
* **The log is ordered by `_id`, and `_id`s are minted by several clients**, so
  a document inserted later may lie anywhere in the order.
* **An `_id` that is no ObjectID may sort on either side of the ObjectIDs.**
  BSON orders numbers and strings before them, booleans and dates after them,
  and raw-writer stores whatever the body brings (`raw-writer/main.go:236`).
  `Foreign` is any subset of the ids.
* **`deleteMany` is not atomic** for a reader: it is one deletion at a time.

## What is checked

| Configuration | Module | States | Shows |
|---|---|---|---|
| `RawWriter_safe` | `MCRawWriter` | 470 k | two well-formed messages and one that panics, two goroutines, any failures, one crash and one timeout: an acked message has a document that is stored and announced; a dangling announcement or an orphaned document has one of the named causes; no duplicate without redelivery; the contract is implemented.  Panics strike the other handler at each of its steps |
| `RawWriter_settles` | `MCRawWriter` | 841 k | a well-formed, a malformed message and one with an `_id` of its own are eventually acked or dead-lettered, across a crash, a timeout and the panic of the last one |
| `RawWriter2` | `MCRawWriter2` | 150 k | a client that sends a large payload twice (compressed and not) and another one whose path holds an escaped `/`, with a prefix configured: references resolve; what is announced can be read by its URN, and is listed under its logical database, exactly if its names allow it; 200 is durable; the contract is implemented and nothing withdrawn |
| `Router` | `MCRouter` | 882 k | an acked announcement is in a transformer's queue or in the unroutable one, whatever the bindings do, and in every queue that stays bound; no second copy without redelivery; dead letters can be replayed |
| `Pipeline` | `MCPipeline` | 88 k | nothing is lost between writer and router, a routed document can be read, and what the writer acked reaches a sink or the ready queue's dead letters |
| `DocumentsWalk` | `MCDocumentsWalk` | 41 k | a walk with another limit on each page serves all that was there all along, once, unless a page ended with the foreign id above the ObjectIDs; 404 is true at some moment; the walk ends |
| `CompactedWalk` | `MCCompactedWalk` | 410 k | a walk yields the current row of each key; the next one never goes back, backfills included; each key is served once; a cursor of another view is refused and makes no walk skip a row; both walks end |
| `InlinePage` | `InlinePage` | 38 k | a page is served with all its payloads or refused for the failure that brought it down, never for a cancellation that followed; no goroutine outlives the answer; each page is answered |
| `OperatorTools` | `MCOperatorTools` | 481 k | compact_after_delete.sh: in the non-blocking mode a compact begins on a primary only if its role changed behind the script's back or it refused to step down; the script never goes on while a compact runs that it has seen; no member is forgotten.  encore: the queue gets its rows in order, each once, and an initial part of them unless it was deleted for a while; what "Job done!" is worth; no replay waits for good |

A run has one type invariant at most.  All are proved; those of `RawWriter`,
`RawWriter2`, `Router` and `InlinePage` are not run any more.

Three configurations state what the documentation says and the code does not do;
TLC finds each violated:

* `RawWriter_doc_nack`: `docs/rabbitmq.md:63-64` says a nacked message is
  requeued because its error can be retried.  raw-writer (`main.go:265-266`)
  dead-letters every nacked message, also one that merely met an unreachable
  database.
* `RawWriter_doc_poison`: `docs/inbound.md:28` says what does not pass
  validation is dead-lettered.  A timestamp that is no string (`main.go:167`)
  or a null provider (`main.go:178`) panics instead.  The process dies before
  it answers, and the message is delivered again for ever, each time killing
  the handlers of the messages next to it.
* `DocumentsWalk_foreign`: `raw-data-bridge/README.md:51` calls the `documents`
  view the log of every revision.  raw-writer stores a body that brings its own
  `_id`.  MongoDB's `$lt` compares ObjectIDs with ObjectIDs only (`rdt.go:449`),
  so the log shows such a document on the first page or not at all; and a first
  page that ends with one has no cursor (`rdt.go:475-479`), so that if it sorts
  after the ObjectIDs, a boolean say, all of them are missed.  TLC's trace is
  the latter.

### Bounds

Every bound is a named constant.  Two messages and two goroutines are enough
for two handlers of *one* message (after a timeout) and for a handler killed by
another's panic; more goroutines add no new pair.  `Oids` is the number of
inserts a run can make; with three of them one message can be
stored twice while another one is stored too.
`MaxCrashes`, `MaxTimeouts`, `MaxFaults` and `MaxFailures` bound only what would
otherwise repeat for ever; failures of single calls are not bounded.  In the
walks the budget is 3, one document exceeds it alone, the default limit is 2
and the largest 3; in `DocumentsWalk` each request states no limit, one row, or a
limit that is refused (0 and 4), so that pages end in each of the four ways (by
limit, by budget, by an oversized document, by exhaustion) and in any order.
`CompactedWalk` has the default limit only, a backfill, a tie of timestamps and a document without key,
and strays from the log and from the same view by another field.  `RawWriter2`
has a provider of two parts and one whose second part holds a `/` and a segment
the bridge's routes refuse; `Router` has two queues that anybody may unbind and
one that stays bound, or unbound, for ever.  encore replays four rows through a
channel of two, so the producer blocks on it.
`InlinePage` takes every mix of four documents, two goroutines at a time, three
attempts and a cap of three: a goroutine waits for a slot, one is under way
while another fails, and pages lie on both sides of the cap.  The order of four
documents over two slots already has every overlap of a first failure with a
running, a waiting and a not yet started fetch.  `CompactScript` has three pods,
as the deployment does, two changes of role (`MaxChanges`: a primary that went
out of service is replaced, or the one that stepped down is elected again) and
two runs of the script (`MaxRuns`), so that jobs of the first may begin late, or
still run, in the second.  `DocumentsWalk` has its foreign id above all
ObjectIDs, where it does the most harm.
Each raw-writer run takes the message classes its question needs
(`SafeClass`, `SettlingClass`, ...): a malformed message changes nothing but its
own verdict and is left to `RawWriter_settles`.  `Pipeline` has one goroutine in
each service, one crash and no timeout: what two goroutines do to each other
inside a service is the business of `RawWriter_safe` and `Router`, and what is
left is the hand-over.  Symmetry is declared on ids, on goroutines and on
messages of the same class, in runs without liveness.  The one exception is
`OperatorTools`, symmetric in the pods: its liveness, `ReplayEnds`, is about
encore, no step of which touches a pod, so that merging states that differ in
their pods merges no two behaviours of encore; without symmetry the run passes
as well, in three minutes.  Deadlock is not
checked: a queue runs empty, a request is answered, and with the ids used up
nothing is left to do.

### Fairness

* Goroutines run and their calls return, with whatever outcome
  (`WF(Handle(h))`).  The drivers' own timeouts justify this; without them a
  hung MongoDB call would stop its goroutine, and only that one.
* The broker delivers what is queued to a free goroutine
  (`WF(Receive)` per message).
* A client that began a walk asks for the next page and the bridge answers
  (`WF(Walk)`).
* Both goroutines of encore are scheduled, and the broker reads what it was sent
  (`WF` on `Producer`, `Main` and `Route`): MongoDB and the broker answer or the
  driver gives up.  Nothing is assumed about the order in which a panic and the
  other goroutine proceed.
* `respondPage` and each goroutine of a page go on (`WF` per goroutine): calls
  to S3 return or fail, timers fire.  No fetch has to succeed.

`Router` has no liveness run of its own: `AckedIsDelivered` of `Pipeline` needs
the router's handlers to settle what they receive.

Nothing is assumed about outcomes: no call has to succeed eventually, clients
need not retry, and messages that panic need not stop doing so
(`EveryMessageIsSettled` is claimed only for those that do not panic on every
delivery).

## What is proved

| Module | About | Theorem | States |
|---|---|---|---|
| `PipelineProofs` | raw-writer | `Invariance`, `TypeCorrect` | `IInv`, `TypeOK` |
| | | `NoLoss` | `AckedIsStoredAndAnnounced` |
| | | `AnnouncementsResolve` | `DanglingOnlyAfterLostConfirm` |
| | | `AtomIsAtomic` | `OrphanHasCause` |
| | | `StoredOnce` | `StoredOnceUnlessRedelivered` |
| | | `DeadLettersAreUnannounced` | `DeadIsUnannounced` |
| | | `OneOwner` | `OneOwnerPerDelivery` |
| | | `VerdictIsFinal` | `SettledIsFinal` |
| | | `RefinesContract` | `ImplementsContract` |
| | with the router | `PipelineInvariance` | `PipelineInv` |
| | | `NoLossEndToEnd` | `NothingIsLost` |
| | | `TransformersFindIt` | `RoutedResolves` |
| `RawWriter2Proofs` | raw-writer-2 | `TypeCorrect` | `TypeOK` |
| | | `References` | `ReferencesResolve` |
| | | `OkIsDurable` | `OkMeansDurable` |
| | | `ReadableByUrn` | `AnnouncedIsReadable` |
| | | `ListedByPlace` | `AnnouncedIsListed` |
| | | `Implements` | `ImplementsContract` |
| | names | `ReadsWhatRawWriterWrote` | bridge and raw-writer agree on the place of a provider without `:` |
| | | `ReadsWhatRawWriter2Wrote` | bridge and raw-writer-2 agree exactly on providers of two parts |
| | | `ReplayIsReadWithoutPrefix` | encore's URNs lead to the document exactly if there is no prefix |
| `RouterProofs` | router | `Invariance`, `TypeCorrect` | `IInv`, `TypeOK` |
| | | `NothingIsDropped` | `AckedIsRouted` |
| | | `BoundQueuesGetAll` | `BoundQueueMissesNothing` |
| | | `NoSecondCopy` | `DuplicateOnlyAfterRedelivery` |
| | | `DeadLettersAreUnrouted` | `DeadIsUnrouted` |
| `InlinePageProofs` | a page's payloads | `Invariance`, `TypeCorrect` | `IInv`, `TypeOK` |
| | | `ServedWhole` | `PayloadsWhole` |
| | | `RefusedForItsCause` | `ErrorIsTheCause` |
| | | `NothingOutlivesAnswer` | `NoFetchOutlivesAnswer` |
| `DocumentsWalkProofs` | the log | `Invariance`, `TypeCorrect` | `IInv`, `TypeOK` |
| | | `MissedBehindForeignOnly` | `WalkIsComplete` |
| | | `NothingIsMissed` | `EveryRevisionIsServed`, if all `_id`s are ObjectIDs |
| | | `NoRowTwice` | `ServedOnce` |
| | | `NotFoundIsTrue` | `NotFoundOnlyIfAbsent` |
| `CompactedWalkProofs` | the compacted view | `Invariance`, `TypeCorrect` | `IInv`, `TypeOK` |
| | | `ClientIsCurrent` | `WalkIsCurrent` |
| | | `NoStepBack` | `RowsOnlyAdvance` |
| | | `NoKeyTwice` | `KeyServedOnce` |
| `OperatorToolsProofs` | compact_after_delete.sh | `CompactTypeCorrect` | `TypeOK` |
| | | `CompactsOneByOne` | `OneCompactAtATime` |
| | | `NoMemberIsForgotten` | `EveryMemberIsCompacted` |
| | | `PrimaryStaysInService` | `PrimaryIsSpared` |
| | encore | `ReplayTypeCorrect` | `ReplayTypeOK` |
| | | `ReplayedInOrder` | `PushedInOrder` |
| | | `DoneIsTrue` | `DoneMeansPushed` |
| | both | `ToolsImplementBoth` | `ToolsSpec => Spec /\ ReplaySpec` |
| | | `ToolsTypeCorrect` | `ToolsTypeOK` |

They hold for all values of the constants: any messages, ids, goroutines,
requests, names, queues, rows, pods, documents, keys, timestamps, limits and
budgets, and any number of faults.  They assume what the
modules assume of their constants (`ASSUME`, checked by TLC on each run): values
such as `NoMsg` and `NoDoc` are none of the things they stand beside, ObjectIDs
are no messages, bounds are natural numbers, classifications have the domain
they need; `_id`s, timestamps and keys are numbers, since all that is used of
them is their order; a collection is finite at first (and, as documents come
one at a time, ever after).  Only `NothingIsMissed` has a hypothesis of its own,
`Foreign = {}`, without which `DocumentsWalk_foreign` shows it false.  No theorem
assumes fairness.

### The queue

`ConsumerProofs` shows once and for all what the queue's operators preserve:
`QueueInv` (the broker waits for exactly one handler of each unacknowledged
message, and a handler it waits for has one) under delivery, settlement,
redelivery, and that a verdict stays.

### raw-writer

The first part of `PipelineProofs` proves `Spec => []IInv` of the writer alone,
where `IInv` is the conjunction of

* `TypeOK` and `QueueInv`;
* `PcInv`: a goroutine has a message exactly while it is not idle;
* `HoldingInv`: exactly the goroutines between insert and settlement hold a
  document; it is stored, it was made from their own message, nobody else holds
  it, and only documents with a minted id get as far as the announcement;
* `MintInv`: ids are used once, and what is stored, announced or blamed on a
  fault has an origin;
* `AtomInv`: what a goroutine knows of its document: not announced before
  "publish", announced without any fault before "ack", and in a rollback
  announced only if the confirm was lost;
* `AckedIsSafe`: an acked message has a document that is stored, announced, and
  met no fault;
* `OnceInv` and `DeadInv`: without redelivery a message has at most one
  document, and which announcement a dead one may have;
* `DanglingOnlyAfterLostConfirm` and `OrphanHasCause` themselves.

The properties alone are not inductive.  `AckedIsStoredAndAnnounced`, for one,
must rule out that a second goroutine of the same message, left over from a
delivery that timed out, deletes the document the ack relies on: a rollback
removes a document that was never announced or whose confirm was lost
(`AtomInv`), and the acked one met no fault (`AckedIsSafe`).  The proof has one
lemma per action of the specification and one step per conjunct the action can
disturb.

`RefinesContract` maps each step to the contract's: an announcement adds one
message, a rollback takes at most its own handler's message back and never an
acked one (`RollbackWithdraws`, from `AckedIsSafe`), an answer that counts is a
verdict on a message that had none (from `QueueInv`), and every other step
leaves `Announced` and `Verdict` alone.  `OneOwner` and `VerdictIsFinal` have no
run of their own; a goroutine that revived or re-judged a message would also
violate `ImplementsContract`.

### raw-writer-2

The invariant is `TypeOK` with

* `ObjectsOK`: an object that is there is encoded as its key says, whoever put
  it there; two uploads of one payload may write the same key at any time;
* `UploadedFirst`: a handler that is about to insert a reference has seen its
  object stored;
* `DocsOK`: a document is what its request made it, and nothing is taken back;
* `Ordered`: a 200 comes after an announcement and that after an insert.

`AnnouncedIsReadable` and `AnnouncedIsListed` then follow from `DocsOK` and the
theorems about names.

### router and pipeline

A goroutine of the router publishes before it answers, so the invariant carries
what it knows of the copies of its message: none before it publishes unless
another delivery made them (`UnroutedInv`); before an ack at least one, and one
for each permanent queue that is bound; before a nack none, or a confirm was
lost (`AnswerInv`).  That "unless redelivered" is what makes it inductive:
`QueueInv` says that a message that was never taken back has one goroutine.

The second part of `PipelineProofs` uses both services' invariants as they are,
the router's by `INSTANCE` with the ready queue in place of its own. What joins
them is `HandOver`: the ready queue has held exactly what the writer announced.
It needs that announcements are never taken back (`ReadyGrows`), that the router
makes no message appear or vanish (`AbsentStays`), and that it does not matter
to the router when messages arrive (`EnqueueStep`).

### Payloads of a page

`IInv` of `InlinePageProofs` adds to `TypeOK`:

* `SpawnInv`: goroutines are started in order, and none while the page is counted;
* `AnswerInv`: an answered page has no goroutine left, and what its status says
  of `err`;
* `PayloadInv`: a goroutine that returned without an error to show for it has
  left its document whole;
* `CancelInv`: the context is done only for an error or a client that is gone,
  and a fetch under way has an attempt left.  Without the former a cancellation
  could be the first error of a page, and `ErrorIsTheCause` would not be
  inductive.

### A walk of the log

While a client walks, documents are inserted and deleted anywhere.  `stable` is
the history the properties speak of: the documents that were there when the walk
began and were not deleted since.  Three statements about it carry the walk:

* `PageOK`: the page being drained is in descending order, lies below the
  cursor it was asked for, and the read position is its last row;
* `PageIsComplete`: every stable row below the cursor and not below that
  position is on the page;
* `CursorOK`: every stable row down to the cursor has been served, and no row
  beyond it has; a walk that ended has no cursor.

`finish` then has two cases.  With a continuation, the cursor is the last row it
serves, and the over-read row stays beyond it; without one, the page was neither
cut by the budget nor longer than the limit, so that the find was exhausted and
`PageIsComplete` covers all there is.  A foreign `_id` breaks the first case: a
page that ends with one has no cursor although there is more, and the walk ends
there.  What is left standing, wherever foreign ids lie in the order, is
`WalkIsComplete`: an ObjectID that was there all along is missed only below a
foreign id that was served.  It is part of `IInv`, and `NothingIsMissed`, the
promise of the bridge's README for a collection of ObjectIDs, follows from it.

### A walk of the compacted view

The aggregation reads the whole collection before its first row, so what has to
be carried along is what became of that reading:

* `ScanOK`: a running scan must see every document that stayed (`kept`), and
  what it may see is finite.  A finite set of documents has a newest one
  (`NewestExists`, by induction over the size of a least counterexample), which
  is what makes `$first` return a row for every key it saw;
* `RowsOK`: the rows have keys of their own, all beyond the cursor, and the
  page has the smallest of them in order;
* `RowsAreNewest`: for every kept document beyond the cursor, a row of the page
  or one still to be drained has its key and is at least as new;
* `CursorOK`: for keys up to the cursor the client's table is at least as new as
  every kept document, and a key served in this walk lies not beyond the cursor;
* `TableOK`: the table has each document under its key.

`ServedRows` says what a served page does to the table: the row of each of its
keys becomes the page's, and no kept document of that key is newer.
`NoStepBack` follows for a single step: the row that was there is either gone
from the collection or kept, and then the new one is at least as new, however
late a backfill was written.  `NoKeyTwice` follows from `CursorOK` and `RowsOK`.

### compact_after_delete.sh

The script asks each pod for its role once and acts on the answers.  `BeliefsOK`
says what they are worth: a pod whose role has not changed since it was asked is
what the script believes, unless it is the primary, which may have stepped down
as told.  `ListsOK` says where an answer put a pod: among the secondaries that
wait for their turn or have had it, or in `PRIMARY_POD`; and that no two pods are
primaries at a time, which is the replica set's business.  `StepsOK` gives the
order: the primary's turn comes when no secondary waits.  `SteppedDown` is the
exception of `PrimaryIsSpared` before it happens: a primary about to be compacted
changed its role or refused.  `JobsOK` carries it on to the job that is launched,
which may begin at any later step, also when the script is elsewhere: a job of
this run that is still to begin is on a pod the script has asked, and if that is
a primary by then, the pod changed its role or refused.

`WaitsForOne` says that what the script waits for is the job of its own run on
the pod whose turn it is, starting or running, and nothing while it does not
poll; every other job is `adrift`.  `OneCompactAtATime` is the part of it that
is about running ones.  The exceptions are real: the script launches a compact
in the background, looks for it once after 15 s and takes one that has not begun
for one that has ended (`compact_after_delete.sh:111-127`).  That compact may
then run beside the next member's.

`OperatorTools` interleaves nothing of the two programs; `ToolsImplementBoth`
shows that its every behaviour is one of each of them, whose theorems therefore
hold of `ToolsSpec` too.

### encore

A row is in one place at a time.  `RowsInside` says that main's hand, the channel
and the producer's hand hold consecutive rows; `RowsOutside` that the queue and
the wire do, as long as the queue was not deleted, and that no row is missing
from them as long as the connection stayed too; `RowsInOrder` that queue and wire
are in order whatever happened, for what a deleted and re-declared queue loses is
never sent again; `Progress` says what has happened
before each step.  "Job done!" then means: the queue has as many rows as were
counted, if connection and queue stayed, and these are all rows unless the
producer panicked.  The exception is real.  A panic runs the deferred
functions, the last of which closes the channel (`main.go:72`); main may see
the end of the rows and exit with 0 before the panic ends the process.

### Names

The proofs compare sequences position by position.  What `strings.Cut` and
`SplitN` find is the least position of a separator; `LeastNumber` proves by
well-founded induction that there is one.  The other
programs replace every separator, so that two names agree is a statement about
all positions at once, and no induction over names is needed.

### Only model-checked

Liveness, for which the prover has no rule (fairness, `ENABLED`):
`EveryMessageIsSettled`, `AckedIsDelivered`, `WalkEnds` of both walks,
`PageAnswered`, `ReplayEnds`.  Every other property of a passing run is the
statement of a theorem.  The modules declare no recursive operator.

## What is not modelled

* The content of messages: JSON, timestamps, headers; the lengths of names and
  the parsing of the S3 URNs in `raw_ref`.  A key of the compacted view is a
  number, so that MongoDB's `$gt` compares values of one type: raw-writer may
  store another (`rdt.go:342-346`, bridge `README.md:97-99`).
* A cursor names its ordering and not its collection: one of another collection
  is accepted by the code and the model alike.  `Strays` has cursors of other
  orderings, which are refused.
* Telemetry, logging, health checks, start-up, encore's ticker: they change no
  state that matters to the properties.
* MongoDB's replication: an insert that succeeded stays.
* The rest of the deployment (charts, secrets, CI, log shipping): no steps to
  model.
* More than one replica of raw-writer and router: replicas share nothing but
  the broker, so another replica is more goroutines, except that a panic does
  not end them.
* `delete_collection.sh` and `rabbitmq_dev_route.py` beyond what they do to the
  lake and to the bindings; the client of raw-writer-2's `example/`, beyond a
  client that hangs up.

## Observations

Met while modelling, and not stated by a configuration because no document
promises otherwise in a line that could be tested, or because it is only worth
knowing:

* raw-writer-2's announcement names the database with its prefix
  (`mongo.go:26`), and the bridge adds the prefix once more to the database of
  its routes (`README.md:160`).  `AnnouncedIsListed` says so: such a listing is
  found without a prefix only.
* encore builds URNs from the physical database (`main.go:91`), with the same
  effect on `GET /urns/...` (`ReplayIsReadWithoutPrefix`).
* A provider with an escaped `/` is stored by raw-writer-2 in a collection the
  bridge does not look in (`handler.go:67`, `AnnouncedIsReadable`).
* encore may report success after its reader has failed (see above).
* A compact that failed at once, or that has not begun after 15 s, is reported as
  finished (`compact_after_delete.sh:121-127`): the script looks only for one that
  runs.  One that begins late may run beside the next member's, or on a member
  that has become primary in the meantime (`OneCompactAtATime`,
  `PrimaryIsSpared`).
* raw-writer-2's `README.md:35` has small payloads of type `application/bson`
  stored as BSON objects; `buildDoc` (`mongo.go:45-52`) stores them as binary.

## What is left

`Pipeline` with raw-writer-2 as a second source of the ready queue, and its
theorem: both writers implement `IngestContract`, so the hand-over to the router
could be stated once for any of them.
