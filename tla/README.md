# A verification project for the chat system

The repository is a chat backend: clients create applications, chats of an
application and messages of a chat, and search messages.  Writes go through
Redis counters and RabbitMQ queues to workers, which store them in MySQL and
index them in Elasticsearch.  This directory holds TLA+ modules of its core, the
TLC configurations that check them, and theorems that TLAPS proves.  Paths below
are under `src/services/` unless they say otherwise.

Contents: 1 inventory, 2 modules and code, 3 runs, 4 bounds, 5 fairness,
6 proofs, 7 where code and documents disagree, 8 what is not modelled, 9 plan,
10 running it.

## 1. Inventory

| component | state | operations | talks to |
|---|---|---|---|
| go-chat handlers (`go-chat/internal/module/chat`, `.../queue/amqp.go`) | its AMQP channel, opened once | `CreateChatHandler`, `CreateMessageHandler`: INCR a counter, publish, answer; `SearchMessagesHandler` | Redis, RabbitMQ, Elasticsearch |
| go-worker consumer (`go-worker/internal/queue`) | one channel with a prefetch of one; per queue the delivery that its handler is at | `ConsumeQueue` (deliver, handle, Ack or Nack with requeue), `Publish`, `Close` | RabbitMQ, the workers |
| ChatWorker (`go-worker/internal/worker/chat_worker.go`) | none of its own | `HandleMessage`: find application, find chat, INSERT, INCR the delta | MySQL, Redis |
| MessageWorker (`message_worker.go`) | none of its own | `HandleMessage`: find application, chat (requeue if missing) and message, INSERT, INCR, publish for indexing | MySQL, Redis, RabbitMQ |
| IndexingWorker (`indexing_worker.go`) | `batch`, its mutex, the ticker's goroutine | `HandleMessage`, `flush` (three callers), `Stop` | Elasticsearch |
| ReconciliationWorker (`reconciliation_worker.go`) | `lock:reconciliation` in Redis, the ticker's goroutine | `reconcile`, `processKey`, `Stop` | Redis, MySQL |
| worker service (`service/worker_service.go`, `worker/workers.go`, `cmd/main.go`) | the process | `Start`, `Stop`: workers first, consumer last | the workers |
| Elasticsearch client of go-worker (`go-worker/internal/elasticsearch/client.go`) | the index | `NewClient` (`waitForConnection`, `EnsureIndex`), `BulkIndex` | Elasticsearch |
| search of go-chat (`go-chat/internal/elasticsearch/client.go`, `chat-handler.go`) | none | `SearchMessagesHandler`, `Client.Search` | Elasticsearch |
| applications API (`rails-api`) | a cache entry per application in Redis, for 30 minutes | `index`, `show`, `create` | MySQL, Redis |
| schema (`rails-api/db/schema.rb`) | applications, chats, messages | no unique index on numbers | |

The components share no memory across processes.  They meet in four places: the
counters and deltas in Redis, the three queues, the three tables, and the lock.

What is hard, and the property that makes each component correct:

* **Creating chats and messages.**  A row is looked for and inserted in two
  statements, without a unique index, by as many processes as there are; a
  channel that closes redelivers what its handler is still working on; go-redis
  repeats an INCR whose reply is lost; an INSERT that returns an error may have
  been carried out.  *An accepted chat or message is not lost, gets one row
  under its number, and that row is counted once.*
* **Messages before their chat.**  The two queues have different consumers, and
  a message often comes before its chat's row.  *It waits, and is stored some
  day; every row gets to the index.*
* **Publication before the answer.**  A request is answered after its message was
  published, so that a worker may be faster, and go-chat may die in between.  *What
  was answered with an error is never stored.*
* **Reconciliation.**  Deltas are taken, added and, on failure, put back in three
  commands, while the workers count on, the lock may expire under its holder,
  and a process may stop in the middle.  *No row is counted twice or lost; no
  failure blocks reconciliation for ever; the lock excludes.*
* **Indexing.**  Three goroutines flush one batch, and the mutex does not cover
  the flush.  *Overlapping and failing flushes lose nothing and send nothing
  twice; the batch is bounded.*
* **From end to end.**  A message's row and its document are written by two
  workers, with a queue and a batch between them.  *There is no document without
  its row; a row is on its way to the index, and gets there; when a process dies
  or is stopped in the middle of a handler, another one does its work.*
* **Search.**  The index must exist, with its mapping, before the first document;
  paging is clamped twice and multiplies without looking, while documents are
  added.  *The mapping is explicit; a client that reads all pages misses nothing.*
* **The applications' cache.**  Nothing invalidates an entry, and two fills may
  cross.  *An answer's age is bounded, and the count does not go back.*
* **Shutdown.**  Workers stop before the consumer does, and Stop takes the lock
  that it then asks for again.

`PROJECT.json` lists all components, and the hazards at their lines with the
properties that would catch each.

## 2. Modules and code

| module | what it is |
|---|---|
| `BrokerQueue` | a RabbitMQ queue: its ready messages, in order of publication; a requeued message keeps its place |
| `Failures` | which kinds of failure a behaviour may contain and how many; `happened` remembers the kinds, `Unless(kinds)` is how a property names its exceptions |
| `ChatCreation` | POST .../chats from the handler to the row and its count |
| `MessageCreation` | POST .../messages from the handler to the row, its count and indexing_queue |
| `Reconciliation` | from the deltas in Redis to the counters in MySQL |
| `Counter` | abstract: a counted row becomes visible once; `Reconciliation` implements it, `AppCache` uses it |
| `Indexing` | from indexing_queue to Elasticsearch |
| `Pipeline` | `MessageCreation` and `Indexing` composed: the workers of a process, on one channel, through its shutdown |
| `Delivery` | abstract: a request is answered once, what failed is not stored, what is searchable is stored; `Pipeline` implements it |
| `Search` | the index at start, and the pages of a result |
| `AppCache` | GET and POST .../applications, the cache entry and the counts behind it |
| `MC...` | small instances for TLC, one per module with runs |
| `ChatCreationProofs`, `MessageCreationProofs`, `ReconciliationProofs`, `IndexingProofs`, `SearchProofs`, `AppCacheProofs` | theorems about one component each |
| `PipelineProofs` | theorems about the composition; it instantiates the proofs of its parts |

Each component module has one action per call that the code makes to Redis,
RabbitMQ, MySQL or Elasticsearch (in `Indexing`, also per critical section), so
that every interleaving of processes between two calls is a behaviour.  A
variable `step` or `pc` says which call a handler or goroutine makes next.  Where
a call has an outcome besides the regular one, an action of its own stands for
it, named `...Fails` (an error and no effect, or an effect that may have been
carried out) or `...Disturbed` (a reply of Redis is lost, and go-redis sends the
command up to `Sends` times in all).  Failures are environment steps that
`Fault(kind)` counts.

Every property names the kinds of failure under which the code does not keep it.
That list is part of the result: it says what an operator must rule out, and
under each kind that is not in the list the property is checked.

**ChatCreation.**  `phase`, `number` and `apiLinked` are go-chat;
`chatCounter` and `deltaChats` are the Redis keys `app:<token>:chats_count` and
`delta:app:<id>:chats`; `saved` is Redis's last snapshot; `chatsQueue` is
chats_queue; `step`, `msg` and `linked` are the consumer of each process; `chats`
is the table.  `AppOf` is MySQL's comparison of tokens, which ignores case where
Redis does not.  `FindApp`, `FindChat`, `CreateChat`,
`IncrementCounter`, `Ack` and `Nack` are `HandleMessage` call by call.
`UniqueIndex` says whether the schema had the index that the worker's
duplicate-key branch expects; it has not, so the runs set it FALSE, and the
theorems hold for both.

**MessageCreation.**  As above, with `counter`, `delta`, `messagesQueue` and
`messages`.  A request is `"queued"` after its publication and `"accepted"` or `"cut"`
when go-chat has answered (`Answer`) or died before it (`ApiCrash`).  `content` is
what it carries: MySQL takes what `Fits` its TEXT column and refuses what is too
long on every try (`CreateMessageRefused`).  `UniqueIndex` is as above; without it the
duplicate-key branch (`Duplicate`) never runs.  The three SELECTs fail each with a
kind of its own, `"find_app"`, `"find_chat"` and `"find_message"`, because the handler
does three different things then.  `chatRows` are the chats that have their row: `ChatPersisted` is the
chat worker's INSERT, for the chats in `Created`; the chats in `Refused` name no
application or the number 0, and the worker drops their messages; any other chat
never comes, because go-chat numbers and accepts messages of any chat.
`QueueForIndexing` is the publication to indexing_queue; `indexing` keeps what was
published there.

**Reconciliation.**  Each process has a thread `"loop"` (`start`) and a thread
`"stop"` (`Stop` on SIGTERM); both run `reconcile`.  `pc`, `stage`, `todo`, `key`
and `taken` are the locals of `reconcile`, `reconcileEntity` and `processKey`.
`lock` is the Redis key; `LeakedLockExpires` and `LockExpires` are its time to live,
without and with a holder.  `CountRow` is a worker's INSERT and INCR together: what
may go wrong between them is `ChatCreation`'s subject.  `total` is what was counted.

**Indexing.**  Each process has a thread `"consumer"`, `"ticker"` and `"stop"`.
`batch` and `held` are the collected messages and the local copy of a `flush`;
`TakeBatch` is the section under the mutex at its start, `RestoreBatch` the one
after an error.  `docs` is the index.

**Counter.**  `total`, `visible` and `pending` per key: `Count`, `Show` and `Lose`.
`Reconciliation` maps `visible` to the column in MySQL and `pending` to what the
delta and the threads hold (`Pending`).  Where failures void the promise, `lossy`
(a process ended with a delta in hand) and `excused` (a reply was lost) say so.

**Pipeline.**  It instantiates `MessageCreation` (as `M`) and `Indexing` (as `I`) on
shared `linked` and failures.  `I`'s `Publish` is `M`'s `QueueForIndexing`:
`sent` remembers the row at each place of indexing_queue.  Losing the channel
requeues both deliveries; `Terminate` is the start of `Workers.Stop`,
after whose last flush the consumers go on, as `Reconciliation.Stop` may take
seconds and the consumer is closed last; `Exit` is the end of `main`, wherever
the handlers are.  `Delivery` is the view of clients: `accepted`, `failed`, `stored`,
`searchable`, each a set of requests.  It has no order between `Accept` and `Store`,
as the code has none; what it forbids is to store what was answered with an error,
to answer an error to what is stored, to index what has no row, and to take back
any of these.

**Search.**  `boot` and `tries` are `NewClient` in each process: health checks,
HEAD, PUT, and then bulk requests; `index` says whether the index is there, with the
explicit mapping or with the one that Elasticsearch makes up.
`HandlerPage`, `HandlerPerPage` and `ClientPageSize` are the two
clampings, `Offset` the product in Go's int (`Wrap`), `Answered` what
Elasticsearch refuses, `TotalPages` what the answer promises.  A client
(`page`, `wanted`, `seen`) reads page by page.  A document stands for a message that
matches the query and is identified with its number, by which hits are sorted;
`_id` is token, chat and number (`indexing_worker.go:90-91`), so that a
document that is sent again overwrites itself.

**AppCache.**  `request[h]` is what a Rails thread is doing between its commands to
Redis and MySQL; `cache` is the entry with its time to live; `total`, `chatsCount` and
`pending` are `Counter`'s variables, with `Lag` as a bound on how long a row is
pending.  `counted`, `told` and `overlapped` record what the properties speak of.

How they fit together: a row of `ChatCreation` or `MessageCreation` is a `CountRow`
of `Reconciliation`, whose promise `Counter` is what `AppCache` reads.
`ChatPersisted` in `MessageCreation` is what `ChatCreation`'s
`EventuallyPersisted` promises.  `Pipeline` joins `MessageCreation` to `Indexing`.

The operators whose comment begins with "Mutant" are not part of the models.
Each is a definition with a plausible bug in it; with it in place of the
original, TLC finds the property violated that `PROJECT.json` names.  They show
that the properties can fail.

## 3. Runs

| run | kind | what it shows |
|---|---|---|
| `ChatCreation` | safety, liveness | `UniqueNumbers`: a number names one chat, except after a failed SELECT, a lost worker channel, a restart of Redis, or two spellings of a token. `AcceptedNotLost`: a chat answered 201 is queued, unsettled or stored, except after a failed SELECT, a lost channel of go-chat or a restart of RabbitMQ. `NeverOvercounts`, `CountsExact`: deltas and rows stay together. `EventuallyPersisted`: an accepted chat is stored, in spite of crashes and failed INSERTs, as long as a process keeps its channel. |
| `ChatIdempotence` | disagreement | two rows with one number after a lost channel |
| `MessageCreation` | safety, liveness | the same for messages, but `AcceptedNotLost` needs only the SELECT on applications not to fail, and excepts a restart of Redis besides, after which a new message is taken for an old one; `RowsReachIndexing`: every row is published to indexing_queue, except when the handler or its channel ends in between; `EventuallyStored`: an accepted message that MySQL takes is stored, also when it precedes its chat, a SELECT or INSERT fails, or a process dies or loses its channel, unless a message that no try can store stands in the queue |
| `MessageDelivery` | disagreement | a message whose chat never comes, or whose content MySQL refuses, keeps the queue waiting |
| `Reconciliation` | safety, refinement, liveness | `MutualExclusion`; `NeverOvercounts`: whatever crashes, exits, expired locks and failed UPDATEs there are, no count is too high; `Conserved`: without crash and exit none is too low; `ImplementsCounter`: all of it is a counter that shows each row once. The exceptions are lost replies of Redis and of MySQL. `EventuallySynced`: counted rows reach MySQL; `EventuallyTaken`: no failure keeps a delta in Redis for good. |
| `ReconciliationStop` | disagreement | the reconciliation at shutdown does nothing |
| `Indexing` | safety, liveness | `NothingLost`, `SentOnce`, `RoomInBatch` under overlapping flushes; `EventuallyIndexed`: every message is indexed in spite of failed bulk requests and lost channels |
| `IndexingAck` | disagreement | messages are acknowledged before they are indexed |
| `Pipeline` | composition, refinement | `ImplementsDelivery`: no row of a request answered with an error, no document without a row, nothing taken back, under every failure of go-chat, of go-worker and of their calls; `RowsOnTheirWay`: a row is with its worker, in the queue, a batch, a flush or the index, except after the failures that end a worker |
| `PipelineFailover` | liveness | `FailuresLeaveNoTrace`: a message that is no row yet when a process is stopped, dies, loses its channel or its INSERT fails, becomes searchable by way of the other process |
| `Search` | safety | `MappingExplicit`: the index has its mapping, unless there was an outage of Elasticsearch; `NoneMissed`: reading all pages misses no message that was there at the first; `PagesAnswered`, `NothingBehindTheLast`: what `total_pages` promises is there, and nothing else, up to the result window and the width of int |
| `AppCache` | safety | `AnswersAreRecent`: no answer is older than lag, request and entry's life together; `NoStepBack`: the count never goes back, unless two fills overlap |

Each module has one type invariant, `TypeOK`, which also says what a thread
holds at which point (a worker that inserts has found an application; only a
thread between the script and the end of its UPDATE or INCRBY holds a delta).
Deadlock is not checked, as every model may stop: clients send no more requests,
rows and messages are bounded, a consumer whose channel is gone stays idle, and a
process that was told to stop exits.

## 4. Bounds

* Two processes (one in `IndexingAck`, `MessageDelivery` and `Pipeline`): all
  interleavings that matter are between two of them, a late handler and the one that
  got the redelivery, or two holders of the lock.  A third would play one of these
  parts again; the theorems hold for any number.  In `Pipeline` what is new is
  inside a process, between its handlers, goroutines and shutdown; two processes of
  each worker are checked in the two modules it is composed of.  `PipelineFailover`
  has both processes, the one that ends and the one that is left, and one message.
* Two requests (one in `PipelineFailover`): enough for two numbers of one counter, for one number drawn
  twice, and for a message that waits behind another.
* `ChatCreation` has one application with two spellings of its token and a token of
  none; `MessageCreation` a chat whose row comes, and content that fits or is too
  long; `MessageDelivery` also a chat that never comes; `Pipeline` a chat whose row
  comes and a URL that names no application, and content that fits;
  `Reconciliation` one key of either stage.
* `MaxFaults` is two in `Reconciliation` (a failed UPDATE and an expired lock in one
  behaviour), `Indexing`, `Pipeline`, `PipelineFailover`, `Search` and `AppCache`, and
  one in `ChatCreation` and `MessageCreation`; the invariants are proved for any
  number.  Faults are counted over the whole behaviour and may strike anywhere.
  `ChatCreation` and `MessageCreation` have all their kinds, `Pipeline` those that go
  beyond one of its parts, which leaves out restarts of RabbitMQ and Redis.
  `PipelineFailover` has the kinds that its property holds under.
* `Sends` is two, where go-redis has up to four: a command that is carried out not
  at all, once, or more often.
* `BatchSize` is two, where the code has 1000: a message can wait for another, fill
  the batch, or be flushed alone by the ticker, and a failed flush can meet a
  batch that has grown.  `MaxSent` is above what the requests of `Pipeline` can
  publish.
* `MaxRows` is two, over both keys: a row that is counted while another's delta is in
  flight, under the same key or the other one.
* `Search`: pages of up to four and a window of five stand for 100 and 10000, and an
  int of seven bits (`MaxInt` 63) lets the product of `PageParams` and a page
  size wrap around to a positive number, to zero and below it; five documents make
  up to three pages.  `MaxTries` is two: one health check that waits, and the last.
* `AppCache`: an entry lives for three units, lag and requests take up to one,
  and time runs for seven: two lives of an entry, and a fill that races each.
* Requests, processes and threads are interchangeable; `Symmetry` says so in runs
  without a liveness property.

The proved properties hold for all values of these constants.

## 5. Fairness

A goroutine that can go on does go on: the Go runtime schedules it, and every
call it waits for returns, with an answer or an error.  So `FairSpec` asks for
weak fairness of each consumer (`ChatWorker`, `MessageWorker`, `Consumer`), of each
thread in `Reconcile`, `Flush` and `Stop`, and of the ticks, which never end.
`LeakedLockExpires` is fair because Redis expires keys.  `ChatPersisted` is fair for
the chats in `Created`, which is the chat workers' `EventuallyPersisted`.  Nothing is
asked of clients, and no failure ever has to happen.  `Pipeline` asks for the same of
its parts' steps, and that a process which has stopped its workers exits.  Nothing is asked
of go-chat: the liveness properties speak of requests that it has answered.  `Search` and `AppCache` have safety properties only: nobody has to read a
page, and time is part of the state.  No action needs strong
fairness: the broker hands a message out when a consumer is idle, which is part of
the consumer's own steps.

`EventuallyStored` is weaker than one might wish.  It does not claim that a message
is stored while another one stands in the queue that no try can store (`Hopeless`),
because its chat never comes or MySQL refuses its content; with one consumer
that is false (`MessageDelivery`), and with several it depends on which of them
RabbitMQ picks.

`FailuresLeaveNoTrace` asks for a moment at which the failures of the run are over
(`FailuresOver`) and one process is whole.  It presupposes such a moment, and assumes
nothing about whether it comes.

## 6. Proofs

Seven modules prove, for any sets of processes (finite where rows or shares are
counted by process), requests, keys and messages, any batch size and page size, any
lag, time to live and width of an int, and any bounds, from the assumptions named in
the modules only.  Those of `AppCache` ask for at least one application, because an
idle thread is a record that names one, and for a time to live, because Redis
refuses an entry without.  `PipelineAssumption` is what its two parts assume, and that
`Nothing` is neither a message nor a row.

| theorem | property | argument |
|---|---|---|
| `ChatCreationProofs!TypeCorrect` | `TypeOK` | inductive, action by action |
| `NothingAcceptedIsLost` | `AcceptedNotLost` | with `AckJustified`: a worker that is about to acknowledge a message of a known application has seen its row, or the message was excused; without it, `Ack` could drop the only copy |
| `NumbersNameOneChat` | `UniqueNumbers` | along the way of a message: requests of a token hold different numbers below the counter (`Numbers`), every message comes from a request (`Origins`), there is one copy of it (`SingleCopy`), and so the row that a worker is about to insert is new (`InsertFresh`); with a unique index the INSERT sees to it |
| `RowsNeverOvercounted`, `RowsCountedExactly` | `NeverOvercounts`, `CountsExact` | rows have different ids (each INSERT takes the next), and each step changes the rows, the delta and the workers at "incr" by amounts that agree |
| `ReconciliationProofs!TypeCorrect` | `TypeOK` | inductive |
| `LockExcludes` | `MutualExclusion` | `Locked`: a holder finds the lock set and is alone, and `reconcile` is entered by loops only |
| `StopNeverReconciles` | | the third part of `Locked`: unless the lock expires under its holder or a reply is lost, Stop never gets into its reconciliation, in any instance |
| `ReconciliationCounts` | `ImplementsCounter` | `Init` maps to `Counter`'s; `PendingIs` says what `Pending` is from `Counting`, and `CounterStep` that each change of MySQL, of a delta and of a thread's share is `Count`, `Show`, `Lose` or no step at all |
| `NeverCountedTwice`, `NoDeltaIsLost` | `NeverOvercounts`, `Conserved` | `Counting`: what MySQL, Redis and the threads hold of a key is at most, or exactly, what was counted. What the threads hold is the set `InFlight(k)`, finite because one step adds or removes one thread's share; lemmas say how its cardinality changes when a thread keeps, takes, passes on or loses its share. `Stopping` says that a process which exits was told to stop |
| `IndexingProofs!TypeCorrect` | `TypeOK` | inductive; `Linking` and `Holding` tie a consumer to its delivery and a flush to its messages |
| `NothingIsLost` | `NothingLost` | with `AckJustified`: a delivery that is past its append is in some batch, some flush or the index (`Collected`), and so acknowledging it, requeueing it or losing the channel leaves it there. `FlushKeeps` and `AppendKeeps` say that no step but an excused one takes a message out of `Collected`, in whichever order the threads of a process take, send and restore |
| `BatchesAreBounded` | `RoomInBatch` | with: no thread is at "restore" as long as no request failed (`Room`), because only a restored flush makes a batch longer besides the consumer |
| `NothingIsSentTwice` | `SentOnce` | with `Single`: the queue, the consumers' hands, the batches, the flushes and the index share no message (`Apart`), and none has one twice (`Distinct`). The property alone is not inductive: it does not see the message that a consumer is about to append, which counts as the batch's already (`Mine`), and which stays in the consumer's hand after it. `Known` makes a new message differ from all |
| `MessageCreationProofs!TypeCorrect` | `TypeOK` | inductive; `WorkersOK` ties what a worker has to where it is in the handler |
| `MessageCreationProofs!NothingAcceptedIsLost` | `AcceptedNotLost` | with `AckJustified`, as in `ChatCreationProofs`; the steps of a worker are of three forms, it takes a message, goes on with it or settles it |
| `NumbersNameOneMessage` | `UniqueNumbers` | with `Numbers`, `Origins`, `SingleCopy` and `InsertFresh`; a message that goes back to wait for its chat is still the only copy; with a unique index the INSERT sees to it |
| `MessageCreationProofs!RowsCountedExactly` | `CountsExact` | with `RowIds`: an INSERT makes a new row; each step leaves a chat's count alone, adds a row to be counted, counts it or forgets it |
| `RowsArePublished` | `RowsReachIndexing` | with `RowsHeld` and `RowsPublished`: a worker has a row from its INSERT to its publication |
| `AppCacheProofs!TypeCorrect` | `TypeOK` | inductive as `Sound`, which says besides that no entry and no request shows chats that the row does not have |
| `RecentlyCounted` | `AnswersAreRecent` | with `Recent`, which follows a count along the way to the answer: rows are as recent as the lag allows, what a request has read is as recent as its own age allows on top, and an entry as its remaining life allows on top of that |
| `AnswersInOrder` | `NoStepBack` | with `Ordered`: for an application whose requests have not overlapped, one request at a time is filling the entry (`OneByOne`), a live entry beside it is its own (`OwnEntry`), and neither shows less than was told (`NoOlder`) |
| `PipelineProofs!TypeCorrect` | `TypeOK` | with `Sound`: the types of both parts, and what is in or behind indexing_queue is what was published |
| `NoRowIsForgotten` | `RowsOnTheirWay` | with `OnTheirWay`: the invariants behind `RowsArePublished` and `NothingIsLost`, joined at the queue |
| `PipelineImplementsDelivery` | `ImplementsDelivery` | `Init` maps to `Delivery`'s, and each step of go-chat, of either worker, of the environment and of a shutdown to a step or a stutter. Needs `Origins` of `MessageCreation`, for a row is of a message that was published, and so of a request that was not and will not be answered with an error, whether it has its answer or not; and `Known` of `Indexing`, for a document has a row |
| `DocumentsAreMapped` | `MappingExplicit` | with `Started`: a worker that is past its start has found or created the index |
| `SearchProofs!TypeCorrect` | `TypeOK` | inductive; there are no more pages than documents (`PagesAre`) |
| `PromisesAreKept`, `NoPageBehindTheLast` | `PagesAnswered`, `NothingBehindTheLast` | from the types and the arithmetic of pages: the offset of a promised page is below the total, so below the window and an int (`PromisedPages`), where `Wrap` changes nothing (`WrapIs`); the last page reaches the total (`PagesAre`), which is the number of hits or the window |
| `ReadersMissNothing` | `NoneMissed` | with `Reading`: what the client wants and has not seen is behind the pages that it has read. Documents that are added only push it further back (`RankGrows`) and make no page disappear (`PagesGrow`); a page that is read takes in everything up to its end (`ReadingPage`), and the last one leaves nothing but what is behind the window |

The proofs of `MessageCreation` and `Indexing` are not about `Next` alone but about
`Step`, which allows besides that the component stands still while failures happen
elsewhere, and that a process ends for good.  A step of `Pipeline` is a `Step` of each of
its parts, so that `PipelineProofs` takes their lemmas over with `INSTANCE` and proves
only what happens between them: the queue of the one is the publications of the other.
For the same reason `TypeOK` of these two modules is `StateOK` and the failures, which
`Pipeline` has one set of.

All invariants that TLC checks in passing runs are thereby proved, and so are both
refinements, of `Counter` and of `Delivery`.  Only model-checked are the liveness
properties (`EventuallyPersisted`, `EventuallyStored`, `EventuallySynced`,
`EventuallyTaken`, `EventuallyIndexed`, `FailuresLeaveNoTrace`), because the provers
here have no ENABLED and so cannot use fairness; and the four disagreements of
section 7, where one counterexample says all, but for `StopNeverReconciles`.

## 7. Where code and documents disagree

1. `ChatIdempotence`: the README (554, 89-90) calls the workers idempotent; look and
   INSERT are two statements (`chat_worker.go:55-67`) and no unique index exists
   (`schema.rb:23-30`).  A lost channel makes two rows with one number.
2. `MessageDelivery`: a message that no try can store is requeued at the head of the
   queue without end, before everything behind it.  Its chat may never come
   (`message_worker.go:64`), or its content be longer than MySQL's TEXT (`schema.rb:34`),
   so that every INSERT fails (`message_worker.go:85`); go-chat accepts both.
   The README (463) says "guaranteed delivery".
3. `ReconciliationStop`: Stop takes the lock and then calls `reconcile`, which asks
   for it again and returns (`reconciliation_worker.go:230-233`).  The "final
   reconciliation" of the code's own message (234) never happens.
4. `IndexingAck`: a message is acknowledged when it joins the batch in memory
   (`indexing_worker.go:64-68`).  The README (81-84, 205-211) indexes first.

Other weaknesses show only in the exceptions of properties.  go-chat publishes
transient messages without confirms (`go-chat/internal/queue/amqp.go:81`), so a
restart of RabbitMQ loses accepted chats and messages: `AcceptedNotLost` excepts
"broker".  Any error of the SELECT on applications drops the message: it excepts
"db_read" for chats and "find_app" for messages.  A crash, or an INSERT that fails after it was carried out, leaves a
message that is never counted or indexed, because the redelivery finds the row:
`CountsExact` and `RowsReachIndexing` except "crash" and "db_write".  The lock of
reconciliation lives 15 seconds and nothing renews it
(`reconciliation_worker.go:42,211`), so that two instances reconcile when a pass takes
longer, whereas the README (98) says that one runs at a time: `MutualExclusion`
excepts "slow", `NeverOvercounts` does not, and neither does `Conserved`.  A start
during an outage leaves an index without its mapping, in which the search finds
nothing, although `client.go:34` says "will retry on first index operation":
`MappingExplicit` excepts "es_down".  An application's count may be half an hour old
(`AnswersAreRecent`), whereas the README (109) says "Lag: Maximum 15 seconds".

Small ones, outside of any run: with a `per_page` that does not divide 10000 the last
page inside the result window ends behind it and is a 500 (`PagesAnswered` excepts
it); a page number above 2^63 / `per_page` wraps around and may show the first page
(`NothingBehindTheLast` excepts it); the README's search has a parameter `query`,
the handler reads `q` (`chat-handler.go:126`); a search, and a cache entry, are of
one spelling of a token, and documents bear the spelling of the application's row.

## 8. What is not modelled

* Messages that do not parse or lack a field: go-chat publishes none.  What content
  says, names, timestamps and the documents' text: no property tells them apart.
  Which messages match a query is Elasticsearch's, and so are its shards and
  the delay before a document can be found; messages that share a number, and their
  order in a result.
* A restart of Redis in `Reconciliation`, which would bring back deltas that were
  added already (it is in `ChatCreation` and `MessageCreation`, where it lowers
  counters).  Restarts of RabbitMQ and of Redis, and the two reconciling threads,
  in `Pipeline`.  The spelling of tokens is in `ChatCreation` only.
* The moment between the publication of a chat and its 201, and a crash of go-chat:
  they are in `MessageCreation` and `Pipeline`; no property of `ChatCreation` tells a
  chat that is queued from one that is answered, as its rows do not say of which
  request they are.
* The loss of indexing_queue at a restart of RabbitMQ: go-worker publishes
  persistent messages to a durable queue.
* `ApplicationsController#index`, which reads MySQL and changes nothing.
* The rate limiter of go-chat's server: a library that turns requests away.
* Configuration, logging, wiring, NGINX and the Rails skeleton: no state that
  correctness rests on.  `Repo.CreateMessage` of go-chat has no caller.

## 9. Plan

Done: the core (`ChatCreation`, `Reconciliation`, `Indexing`, `MessageCreation`), the
composition `Pipeline`, the abstractions `Counter` and `Delivery`, `Search`, `AppCache`,
and proofs of every invariant and of both refinements.  What comes next:

1. `Numbering`, an abstraction of `ChatCreation` and `MessageCreation`: numbers are
   handed out and stored once.  `ChatCreationProofs` and `MessageCreationProofs` have
   the invariants for its refinement (`Numbers`, `Origins`, `InsertFresh`).
2. The exceptions of the properties: which of the failures that a property excepts
   it really needs, each shown by a behaviour.
