# EasyGrid in TLA+

EasyGrid (`src/`) is a multi-dimensional table service: tables of records with typed and
computed fields, edited by many users at once and kept in step in every browser through
ShareDB messages, business events and server-sent events. The core is the Go server,
`src/server`; `src/packages/sdk` is its TypeScript client and `src/packages/grid` the grid
that uses it. This directory holds TLA+ models of the parts whose correctness depends on the
order of concurrent steps, the TLC configurations that check them, and proofs for TLAPS. Most
lines of the repository are none of these: `src/teable-dev`, which is another project's
TypeScript kept beside this one, and user interface.

Paths below are under `src/server/` unless they say otherwise.

## 1. Inventory

| Component | State | Operations | What is hard |
|---|---|---|---|
| Transaction context (`pkg/database/tx_context.go`, `event_queue.go`) | per request: attempt, `Events`, `Callbacks`; in the database: open transactions, locks | `Transaction`, `TransactionWithCallback`, `AddTxCallback`, `AddEvent`, `ExecuteCallbacks`, `Deduplicate`, `PublishEventsAfterTx` | one `TxContext` serves all attempts of the retry loop; nested calls; lost commit answers; a callback that panics; a crash between commit and callbacks |
| Record service and record repository (`internal/application/record_service.go`, `record/`, `calculation_service.go`, `infrastructure/repository/record_repository_dynamic.go`) | rows with `__version`; per request the record read | create, update, delete, batch create/update/delete, recalculation of computed fields | optimistic lock between a read outside and a write inside the transaction; whole-row writes; a version bumped twice; partial batches |
| Cached repositories (`cached_repository.go`, `infrastructure/cache`) | Redis entries and a local LRU | read-through, invalidation, TTL | a fill racing an invalidation; entries that decode to blank records; keys nobody invalidates |
| Link titles (`link_title_update_service.go`) | titles copied into the rows that link to a record | `UpdateLinkTitlesForRecord`, after the commit of the linked record | writes rows without touching `__version`, after commit, unordered |
| ShareDB service (`internal/sharedb/service.go`) | connections, websocket registry, per-connection subscriptions with cancel functions | connect, subscribe, unsubscribe, op, presence, shutdown | limits checked before registering; unsubscribe and cleanup act on one connection or on a channel |
| Local pub/sub (`internal/sharedb/local_pubsub.go`) | channel → list of Go channels | `Publish`, `Subscribe`, `Unsubscribe`, `removeSubscriber`, `Close` | copy-on-write lists, close while sending, double close, full buffers |
| Redis pub/sub (`internal/sharedb/redis_pubsub.go`) | one Redis subscription per channel | the same | the second subscription of a channel replaces the first |
| Business events (`internal/events/business_event.go`) | list of subscriber channels, Redis subscription | `Publish`, `Subscribe`, `Unsubscribe`, `Shutdown` | sends after unlock; events that come back from Redis |
| SSE (`internal/realtime/sse.go`, `manager.go`) | clients, broker, subscriptions | register, unregister, subscribe, broadcast, shutdown | reconnect with the same client id, send on a closed channel, `IsActive` lost for ever |
| Event bus and event store (`internal/application/event_bus.go`, `infrastructure/repository/event_store.go`) | handlers per type, stored events | publish, subscribe, retry, replay | partial failure between store and handlers |
| Fields and calculation (`internal/application/field_service.go`, `field/field_dependency_service.go`, `calculation_service.go`, `internal/domain/calculation/dependency`) | field table with `UpdatedAt`; per table a cached dependency graph, its version the latest `UpdatedAt` in seconds, which loading a field sets to the present | create, update, rename, delete a field; cycle check; recalculation of a record, or of what a change affects; a field that cannot be computed is saved with an error state | the check reads, the edit saves later; references are names, resolved by whoever builds a graph; the graph cache is checked, missed and stored by several calculations; searches range over maps in any order; a whole-row save of a field read earlier |
| Calculation orchestrator (`calculation_orchestrator.go`, `internal/application/calculation`) | task queues, worker pools | start and stop of workers, priority queue | closing channels under concurrent senders; the container builds the orchestrator, but its handlers are never registered |
| JS runtime pool (`internal/jsvm/pool.go`) | buffered channel of runtimes | `Get`, `Put`, `Close` | `closed` checked before the channel operation |
| LRU cache (`infrastructure/cache/lru_cache.go`) | map and list | `Get`, `Set`, `Delete`, `Clear`, `Cleanup` | check under a read lock, act under another lock |
| Worker pool (`infrastructure/worker/pool.go`) | job queue, workers, counters | start, submit, stop | `WaitGroup` and channel close races |
| Concurrency control (`internal/application/concurrency_control.go`) | locks, operation queue | acquire, release, detect, merge | shared locks, expiry, merge order |
| Link fields (`domain/table/service/link_service.go`, `link_integrity_service.go`, `symmetric_field_service.go`) | junction rows and JSON link cells, both ways | set links, derive symmetric changes | both sides of a link kept consistent |
| SDK client (`src/packages/sdk/src/sharedb`) | documents with data, version and `subscribed`; the connection | connect, reconnect, subscribe, submit | what is subscribed stays so in the client's eyes when the connection is lost; data are replaced by whatever message comes |
| Grid synchronisation (`src/packages/grid/src/components/grid/EasyGridView.tsx`, `hooks/use-sharedb-sync.ts`, `services/sharedbService.ts`) | rows as shown, rows of before each edit, subscribed records | edit with rollback, subscribe and refresh the rows, take over a document's data a frame later | answers, document events and edits of one row in any order; every change of the rows subscribes again |
| Everything else | | HTTP handlers, auth, permissions, formula parser, storage, config, UI, vendored `teable-dev` | sequential or not concurrent: not modelled (section 9) |

How they interact: an HTTP handler calls the record service; it opens a `Transaction`,
reads through the cached repositories, recalculates, writes through the dynamic
repository and registers callbacks. After the commit the callbacks publish the record
event (business events → SSE broker, ShareDB service → pub/sub → websockets) and update
link titles, which write other rows and publish again. ShareDB and SSE connections come
and go concurrently with all of this.

## 2. Plan

The order is that of what a user would lose: first whether the work of a request is
durable once and announced only then, then whether the change of one user survives that of
another, then whether everybody is told, then whether computed values are what their
definitions say.

| Step | Module | Composes / implements | State |
|---|---|---|---|
| 1 | `TxContext` | implements `UnitOfWork` | modelled, checked, proved but for the fairness in `Terminates` and `CallbacksDrain` |
| 2 | `RecordStore` (record service, repository, cache of `FindByIDs`, link titles) | implements `VersionedTable`; its callbacks are those of step 1 | modelled, checked; proved: types, that nothing uncommitted is seen and progress for all requests, the versions under `KeepsRows`, the rest under `SavesOnly` |
| 3 | `ShareDBSessions` (connections, subscriptions, local pub/sub) | | modelled, checked, proved but for liveness |
| 4 | `FieldCalculation` (field service, graph cache, searches, recalculation) | | modelled, checked, proved: searches and their end for all, checked edits under `SoleEditor`, recalculation under `EditsApart` |
| 5 | `Collaboration` (snapshots, announced operations, the SDK's documents and connection, the rows of a grid, edits of cells) | the buffers that `ShareDBSessions` counts hold operations in order here, for one document | modelled, checked, proved but for liveness |
| 6 | `Broadcast` (business events, their Redis round trip, the SSE manager and broker, shutdown) | takes the events that `RecordStore` announces | modelled, checked, proved but for liveness |
| 7 | batch create with its recalculation, link fields as derived changes of both sides | operations to add to `RecordStore` | left |
| 8 | Redis pub/sub in place of the local one | would take its place in `ShareDBSessions` | left |

What is worth having next: what is left of the record properties when rows are deleted (of a
row that is deleted and saved again from an old copy the version goes back, so that it is
not `AnnouncedVersionsDiffer`, see section 8); the measures of section 8 for
`ShareDBSessions`, `Collaboration` and `Broadcast`; several rows of one grid, whose
subscriptions are refreshed together.

## 3. What the modules model

Every definition that stands for code has its lines in `PROJECT.json`, "map". Operators
commented "Seeded fault" are not part of the specifications: each is a definition as a
plausible bug would have it, and putting it in place of the definition that follows it makes
one of the properties fail. "mutants" in `PROJECT.json` says which.

### TxContext and UnitOfWork

`pkg/database/tx_context.go` and `event_queue.go`. `Transaction(ctx, db, opts, fn)` opens
a database transaction, calls `fn` with a `TxContext` in the context, and on a deadlock
(`IsDeadlock`) calls it again, up to `MaxRetries` times. A call inside a transaction only
calls its function. After a commit `ExecuteCallbacks` calls the callbacks one by one, each
under `recover`.

- `attempt` is the loop variable, `events` and `callbacks` are the fields of the one
  `TxContext` all attempts share, `scopes` the nested calls that have not returned,
  `failed` the `afterCommit` callbacks whose own function failed.
- `fn` is arbitrary code of the services: `FnStep` lets it write rows, add events and
  callbacks, publish the queue after the commit, and nest, up to `MaxOps` operations per
  attempt. That it may swallow an error of a nested call is what `LeaveNested` allows.
- An attempt ends with `Commit`, `ReturnError` (which includes a commit that took place
  but whose answer was lost), `RetryOnDeadlock` or `RetriesExhausted`.
- `RunCallback` either has its effect or panics; `Crash` ends every request at once.
- The database is external: `Write` takes a row lock or waits, `LockGranted` grants it,
  `DeadlockVictim` picks any member of a cycle of waiting requests, and fails only its
  statement and its transaction.

`Open`, `Blocked` and `StepsLeft` are about progress, and stand for no code: `StepsLeft`
counts what a call has left at most, `MaxRetries - attempt` attempts of `MaxOps` operations
among it. `NeverStuck` says that somebody can always go on or be failed by the database, and
`StepsRunOut` that every step of a call makes its count smaller and no step of another makes
it larger. Together they are the reason of `Terminates`, less the fairness.

`UnitOfWork` is the promise: committed at most once, announced only when committed,
"ok" only when committed, and nothing announced after an error. The mapping takes
`durable` from `committed`, `told` from `ran` and `reply` from `pc`.

### RecordStore and VersionedTable

`application/record_service.go` on `record_repository_dynamic.go`. A request looks its
records up on the pool, outside of the transaction, and saves them inside it; `pc` follows
it: `find` (lookup and change in memory), `count` (`Save` counts the row to choose between
INSERT and UPDATE), `write` (the statement with `WHERE __version`), `end`, then the
callbacks `after`, `titles`, `retitle`. Deletes have a connection of their own and no
transaction.

- A row is its `version` and, as data, the set of the requests whose change it contains:
  a copy that is saved over a newer row is then seen to lack a request. `title` is what its
  link cell shows of the record it points to.
- `written` holds the rows of an open transaction; they are locked, invisible to others,
  and become the committed `rows` at `Commit`.
- `Bumps` is `{1}` where no computed field depends on what is changed, and contains 2
  where `CalculateAffectedFields` increments the version once more.
- `FindCached` returns what the cache entry of `FindByIDs` decodes to. The fields of
  `Record` are not exported, so JSON holds none of them and the entity is blank.
- `BatchUpdateRecords` goes on after an item that failed (`ItemFails`), and fails only
  when no item was saved. A deadlock or a violated unique constraint makes the database
  refuse the rest of the transaction (`aborted`).
- `announced` are the published events. Only an update sets `NewVersion`, and so `Event` gives
  creations and deletions version 0 and updates the version they have saved.
- `Connections` is the pool. A transaction keeps one connection while its lookups need
  another one.

`AwaitsRows` and `StepsLeft` are about progress, as in `TxContext`: a statement or a title
that waits for a row that another request has locked, and the steps left to a request at
most. `NeverStuck` speaks of states with a free connection: while there is none, transactions
may all wait for the connection of their lookup.

`VersionedTable` is what optimistic locking promises: a request takes effect at one
instant, on the rows as they are then, and moves the version of each row by one.

### ShareDBSessions

`internal/sharedb/service.go` and `local_pubsub.go`. `phase` and `busy` follow the
handler of a WebSocket: the limit is checked (`Check`) before the connection is registered
(`Register`), the read loop handles one message at a time. A subscription is a context, a
buffered Go channel and a goroutine: `HandleSubscribe` makes the context, cancels that of
the previous subscription of the document and keeps the new one; `Subscribe` then registers
the channel under the write lock. `HandleOperation`, `Offer`, `EndPublish` are `Publish`,
which copies the list under the read lock and skips full buffers. `Stop` and
`RemoveSubscriber` are the goroutine leaving; `HandleUnsubscribe` and `ClosePubSub` close
the channels of a whole document, or of all. A Go channel closed twice panics in a
goroutine nobody recovers: `dead` records it, and nothing happens any more.
`WriteLock` and `ReadLock` are the two sides of the `sync.RWMutex`, a waiting writer
keeping new readers out. The content and order of operations is left to `Collaboration`; a buffer only counts.

### FieldCalculation

`application/field_service.go`, `field/field_dependency_service.go`,
`calculation_service.go` and `domain/calculation/dependency`. The field table is `def`: kind,
name and references of each field. A formula refers to fields by id or by name (`Refer`), and
what it refers to is found anew whenever a graph is built (`GraphOf`): a rename changes the
graph of formulas that were not touched.

- Editors create, update, rename and delete fields, with names kept apart (`FreeName`).
  `UpdateField` has two ways: with Options the edit of a formula goes to the cycle check, else
  it is saved unchecked. `ListFields` builds the graph of the table with the edited field
  behind it (`GraphWith`: what is saved of that field is still in the list), or the list
  cannot be read and the check is skipped (`SkipCheck`); `Search` looks for a cycle, `Accept`
  finds none, `SaveEdit` writes the row some time later. `HandleBlank` is the request that
  found a blank field in the cache and changed nothing.
- A calculation reads the rows (`ReadFields`) and makes fields of them (`MapFields`), which
  sets their `UpdatedAt` to the present: the mapper calls `SetRequired` and `SetUnique`, and these
  take `time.Now()`. The version of a graph is then the second `now` in which the fields were
  mapped, whenever they were saved. The calculation takes the graph of the cache when its
  version is the same (`CacheHit`) or builds and stores one (`CacheMiss`, `CacheStore`, two
  steps, since the code releases the lock in between), checks it for cycles, sorts it, and
  computes the fields in that order. `ComputeFails` is a field that cannot be computed: the
  whole field that was read is saved back.
- The clock moves, or not, when fields are mapped and when the table changes (`Change`).
  `EditsApart` is a hypothesis, not code: an edit comes after everything that was mapped in
  its second, and not while somebody has read the rows and not mapped them.

The searches are modelled step by step: `stack` are the nodes being visited, `sorted` the
visited ones in order; `StartSearch` and `Descend` may take any node, since the code ranges
over maps; the check follows the edges, the sort goes against them. The same four actions
serve `DetectCyclePath`, `HasCycle` and `GetTopoOrders`. What a field evaluates to is left
out.

### Collaboration

One record, from the screen to the database and back: `EasyGridView.tsx`,
`use-sharedb-sync.ts` and `sharedbService.ts` of the grid, `ShareDBDoc.ts` and
`ShareDBConnection.ts` of the SDK, and of the server `sharedb/service.go`,
`local_pubsub.go` and what `RecordService` announces.

- An edit goes through `stage`. `EditCell` shows it at once and keeps the row of before
  (`before`); it is sent as a batch of one, which is stored (`Commit`) or refused, and the
  page learns of it (`Answer`, `Fail`) later, or never. Edits in `Single` are updates of
  one record over the API: only these are announced (`Publish`, `Offer`, `EndPublish`),
  after their commit. A value stands for the whole record: an announcement holds all fields.
- A subscription is a pair of a client and a number (`Lines`). `listed`, `live`,
  `cancelled`, `closed` and `gone` say where it is: in the list of the document, its
  goroutine running, its context cancelled, its Go channel closed, its connection lost.
  The read loop takes one message at a time (`busy`): `TakeSubscribe`, `Register`,
  `ReadSnapshot`, `Reply` are the steps of `handleSubscribe`, with a context of its own
  for each; `TakeUnsubscribe` closes the channels of all clients.
- The snapshot is the record (`ReadSnapshot`), or, where the database fails, an empty one of
  version 0 (`ReadFails`). It replaces the data of the document like any other message:
  `Empty` are data without fields, and a row that reads them keeps what it shows.
- The client keeps `subscribed` and `data`; `Receive` replaces the data by whatever message
  comes, and `ReadRow`, a frame later, brings to the row what the document holds by then.
  `SubscribeDoc` marks a document subscribed though the message is dropped for want of a
  connection; `LoadTimeout` is its three-second timer.
- A page subscribes whenever its rows were set (`SetRow`, then `RunEffect`): `recordIds` is
  computed from the rows, so that every `setData` renews `subscribeDocuments` and the effect
  that calls it. `SubscribeRecord` of a document that is subscribed already brings its data to
  the row at once. A connected page whose document has data hence goes round in a circle,
  effect, event, row, effect, and an edit is on the screen until the next turn of it: then
  the row has the document's old data again. `local` says that the page has written
  the row since it last took a document's data. `EndRefresh` is the end of
  `refreshSubscriptions`, 50 ms after it has unsubscribed.
- Faults: `Cut` (a connection is lost, with what is under way), `Crash` and the panic of
  `Stop` (the server's memory is lost), `Refuse`, `Fail` of an edit that was stored. A page
  does not reconnect by itself (in a browser `ReconnectingWebSocket` is not used), another
  SDK client does (`Reopen`), and `Reload` loads the page anew.
- `owed` is a history variable: from the subscription on, and at each announced edit, a
  document is owed the newest one, until it holds it (as a place in `log`, or 0); a full buffer,
  another client's unsubscription or a lost connection cancels the debt, and a failed read
  leaves of it only that some snapshot comes.

### Broadcast

`events/business_event.go` and `realtime/sse.go`, `manager.go`. An event is published
(`Begin`, then `PublishLocally`): first to Redis, from where it comes back to the same
server (`Relay`), then to the local subscribers, of whom the SSE manager is the one there
is. Its goroutine (`caster`) takes an event (`Take`), looks up the clients of each channel
under the lock (`LookUp`), ranges over them without it (`Reach`), and skips, fills or finds
full the buffer of each (`Skip`, `Cast`, `CastToFull`); `Write` is the handler of the
connection writing to it.

- The manager and the broker know clients by the id the browser chose: `idOf` may give one
  id to several connections. `registered` are the broker's clients by id, `lists` those of
  its channels. `Connect` replaces, `Unregister` removes by id, whoever has it by then.
- A request that sets subscriptions finds the client and goes on without the lock
  (`FindClient`, `Clear`, `Cleared`, `Add`, `EndRequest`).
- A map that is written while another goroutine ranges over it may be a fatal error of the
  Go runtime: `Racing` leaves it open, and after it nothing happens.
- `StopEvents` and `StopClients` are the shutdown, in the order of `Container.Close`.
- Faults: `RedisLoses` and a failed publication, `Lose` of a connection, `Offer` to a full
  bus. `lossy`, `due`, `heard`, `last` and `prior` are history.

## 4. The runs

| Run | Properties | What it shows |
|---|---|---|
| `tx_context` | `TypeOK`, `EffectsNeedCommit`, `CommitOnce`, `CommittedEventWins`, `ImplementsUnitOfWork`, `StepsRunOut` | One call, two attempts, two operations each, over every outcome: 785,103 states. What takes effect belongs to a committed request; no attempt follows a commit, not even one whose answer was lost; an event of an aborted attempt never hides that of the committed one; every step brings the end nearer, retries and callbacks left by other attempts included. |
| `tx_context_live` | `NeverStuck`, `Terminates`, `CallbacksDrain` | Two transactions over two rows: lock waits and deadlocks end, the retries are bounded, callbacks behind one that panics are called; no call that has returned leaves a lock behind, and all that wait, wait in a cycle. 27,897 states. |
| `tx_announce` | `OnlyCommittedWorkAnnounced` | Violated: see section 7. |
| `records` | `NoLostUpdate`, `AnnouncedVersionsDiffer`, `BatchAllOrNothing`, `ImplementsVersionedTable`, `ClientVersionRespected` | Two requests out of create, update and batches of two, three records, blank cache entries: 317,531 states. The change of a committed request stays in the row; no two requests announce one version of a record, 0 being that of a creation; a failed batch left nothing; one that named a version replaced that version. This is without recalculated fields, deletes and items keyed by name. |
| `records_live` | `TypeOK`, `UncommittedUnseen`, `NeverStuck`, `Terminates`, `StepsRunOut` | With deletes, batch items named by ids and by names, and one connection more than requests: every request is answered, each of its steps brings the answer nearer, whoever waits for a row waits for a transaction that goes on or is broken, and no row or title shows what has not been committed or has failed. 216,705 states. |
| `records_lostupdate`, `records_titles` | `ReplacesWhatWasRead`, `TitlesFollow` | Violated: see section 7. |
| `sharedb` | `TypeOK`, `PublishesToOpenChannels`, `DiesOnlyOfWholesaleClose`, `OneSubscriptionPerDoc`, `NoneForgotten`, `SubscriptionsEnd` | Two connections, two subscriptions to one document, buffers of one, a limit of one: 100,721 states. A publisher never sends to a closed channel; a subscription that has not been cancelled is one an open connection can cancel; the subscriptions of a connection that has gone end, so no publisher waits for one of them. |
| `collab` | `TypeOK`, `LatestArrives`, `HoldsCommitted`, `RowFollowsDocument`, `RefusedEditIsRemoved`, `AnnouncedEditsArrive` | A grid that subscribes again after every change of its rows and another SDK client, a cell edited in the grid and an update over the API, three events of users, network and host: 1,240,050 states. The registration of a subscription and its snapshot leave no gap; what is announced arrives but for a full buffer, another client's unsubscription or a lost connection; documents hold only what was committed, or nothing; a row goes back to what its document holds, and a refused edit leaves the screen. |
| `collab_documents` | `DocumentsHoldTheRecord` | Violated: see section 7. |
| `fields` | `TypeOK`, `CheckedEditsSaveNoCycle`, `SearchIsExact`, `RecalculatesAsDefined` | Two calculations and one edit (a formula, a name, a deletion, checked, unchecked or with the check skipped) of three fields, one of which refers to a name nobody has yet; every order of the searches: 678,048 states. An edit that was checked saves no cycle; a search fails exactly on a cycle; what is computed, and in which order, is what the definitions that were read call for although the graph may be a cached one. |
| `broadcast` | `TypeOK`, `NoGhosts`, `PanicsOnlyInShutdown`, `NewestLast`, `ReachesListeners` | Two events, each arriving twice, and two connections, of one id or of two, a request that sets subscriptions, losses, a shutdown: 1,010,523 states. Nothing stays listed of a connection that has ended; a closed channel is sent to in a shutdown only; the newest event is the last one heard, or is still to come; a listener gets its events whatever becomes of the other. |

Preconditions, in the open. `NoLostUpdate`: with a recalculated field or a concurrent delete
it is false, which is the finding of `records_lostupdate`. `AnnouncedVersionsDiffer`: no record
is deleted; a deletion is announced as version 0, like the creation of the same record.
`CheckedEditsSaveNoCycle`: one editor, and no calculation has failed; two editors can close a
circle together, each edit being fine alone. It is about what passed the check: that no
edit ever saves a circle is false in the code, for a rename is not checked, nor is anything
when the fields cannot be listed, and TLC finds such a table
after one edit. The check is of the table with
the edited field behind it, the saved row of that field included, so that its refusals are
exact for this list (`SearchIsExact`) and may be too many for the table: a circle that a
rename has closed cannot be opened by a checked update of its formulas, only by another rename
or a deletion. `RecalculatesAsDefined`: no edit between a reading of the fields and the end of the
second in which they are mapped (`EditsApart`). With `EditsApart = FALSE` TLC refutes it:
one calculation reads and maps, an edit follows in the same second, another calculation reads
the new fields in that second, and takes the graph of the first from the cache, or the other
way about. That contradicts `docs/virtual-fields.md:499` (the cache is invalidated
when a field is updated); `invalidateDependencyGraphCache` of the calculation service
is there for it, and the field service does not call it.
`RowFollowsDocument` says of an edit of a cell that it does not stay: the document of its own
page has the old data, since nothing announces the edit, and the row goes back to them.
`Terminates` of the records: a connection more than requests; with
as many transactions as connections each waits for the lookup of its own, and `NeverStuck`
says nothing of such a state. `LatestArrives` and
`AnnouncedEditsArrive`: about announced edits, up to the three reasons that cancel what is
owed, and of what was stored before a snapshot, up to a failed read; the edits of cells are not announced, which is `collab_documents`. `NewestLast`: as long
as no message was dropped on its way here (`lossy`). `ReachesListeners`: up to the fatal error
of the Go runtime.

## 5. Bounds

| Bound | Value | Why it is enough |
|---|---|---|
| `MaxRetries` | 1 (the code's default is 3) | One retry has what matters: an attempt that was rolled back, one that commits with what the first left behind, and the exhausted loop. The proofs hold for any number. |
| `MaxOps` | 2 per attempt | Two events of one row, or an event and a `publish`, or a nested call with something inside. |
| `Txs`, `Requests`, `Calcs` | 2 (1 in `tx_context`, whose properties are about one call) | The races are of pairs: one reads, the other commits, the first writes. Deadlock needs two. |
| `Recs`, `MaxItems` | 3 and 2 | Two batches over the same two records in opposite order, and a row to be created. |
| `Fresh` | one record | A created record that others then update. |
| `Subs` | 2, `Capacity` 1 | A client that subscribes twice, or two clients; a buffer that is full after one operation. |
| `MaxConnections` | 1 with two connections | Both may pass the check before either registers. |
| `Tables` | a stored field, a formula that refers to it and to a name nobody has, a formula to be created | Creating or renaming a field gives the name a meaning: a field then depends on another directly and by way of a third, so that the order matters, and edits close circles of one and of two fields, checked or not. |
| `MaxEdits` | 1 | One edit between the reads of two calculations. Two edits in sequence, so that a checked one follows an unchecked one, are too many beside two calculations; with one calculation TLC finds no error in their 252,066 states, and the theorems hold for any number. |
| `Edits`, `MaxLines` | one edit of each kind; 2 subscriptions of the grid, 1 of the other client | An announced edit that meets one that is not, on a record that is subscribed, unsubscribed and subscribed again while the other client listens. |
| `MaxEvents` | 3 | The grid subscribes by itself; the other client subscribes, or does not, and two edits, or an edit and a fault, a failed read or an unsubscription come after it. |
| `MaxPublished` | 2 | An older event that comes after a newer one. Publishers that never pause could keep a listener behind for ever; the bound is the pause. |
| `Starts`, `MaxHappens` | three beginnings, 3 | One connection that listens and may lose its place to another of its id (two things left to happen); the same after it has; two that listen beside each other (one left each). |
| `BusSize`, `QueueSize` | 1 | Full after one event. |
| versions, seconds | unbounded in type, bounded by the requests | Each request moves a version by two at most; each edit or failure the clock by one. |

Deadlock checking is off because requests end: a state in which all have been answered
has no successor. That nothing gets stuck earlier is what the liveness properties say.

## 6. Fairness

- `TxContext`: weak fairness of all steps of a call together. The goroutine is scheduled,
  the function of the caller ends (it has no loop of its own in the model, `MaxOps`), and
  the database grants free locks and breaks deadlocks after `deadlock_timeout`. Which
  outcome an attempt has is not fair: every attempt may deadlock.
- `RecordStore`: the same for the steps of a request. Which statement waits how long for a
  lock is not assumed, only that it is not passed over for ever while it could go on.
- `ShareDBSessions`: weak fairness of what a handler has begun (`Handling`), of a
  goroutine taking its cancellation (`Stop`) and of its removal. A Go `select` chooses at
  random among what is ready, so it does not prefer operations for ever; the mutex lets a
  waiting writer through. No fairness of messages: a client may fall silent.
- `FieldCalculation`: none. Nothing in it waits, and that its searches are finite is
  the theorem `FieldsStepsRunOut`, which needs no fairness.
- `Collaboration`: weak fairness of `Progress`, the steps of the server's handlers and
  goroutines and of a client that takes its messages, all together: without new events what
  there is to do comes to an end, so that one condition is enough. Commits, answers, users, the
  network, `Stop` and `Reopen` are not in it.
- `Broadcast`: the same, of the goroutines of the event manager, the SSE manager and the
  connections. Nothing is owed by publishers that have not begun, users, the network, or
  whoever shuts the server down.

## 7. What the runs found

Each is a run that must fail, on one property, and an entry of "findings".

- `tx_announce`: callbacks and events of an attempt the database rolled back stay in the
  `TxContext` and run after a later attempt commits, and those of a nested call that
  failed run at the outer commit.
- `records_lostupdate`: `CalculateAffectedFields` increments the version a second time, so
  that `Save` compares with one version later than was read. An update alone conflicts
  with itself; with exactly one other update in between it passes and overwrites that one.
- `records_titles`: titles are written after the commit, unordered and without the
  version: a slow callback or a save of the linking row leaves an old title for good.
- `collab_documents`: an edit of a cell is sent as a batch, and `BatchUpdateRecords` announces
  nothing: when all is quiet, subscribed documents, that of the page itself among them, hold
  the value of before. (Empty data after a failed read are not counted against the claim.)

## 8. What is proved

All for any values of the constants that satisfy the named assumptions (`TxAssumption`,
`RecordAssumption`, `AbsentAssumption`, `SessionAssumption`, `FieldAssumption`,
`TablesAssumption`, `CollaborationAssumption`, `BroadcastAssumption`), by TLAPS:

| Module | Theorems | Argument |
|---|---|---|
| `TxContextProofs` | `TxTypeOK`, `TxEffectsNeedCommit`, `TxCommitOnce`, `TxCommittedEventWins`, `TxRefinesUnitOfWork`, `TxStepsRunOut`; `TxNeverStuck` for finitely many requests | `IInv` adds to the properties what the phase says of the commits (`PhaseInv`): while an attempt runs, nothing has committed, and callbacks run only after a commit. Without it `CommitOnce` is not inductive, for an attempt that runs after a commit could commit again. `EventInv`: the queue is in the order of the attempts, none later than the current one, which is the one that commits; the last event of a row is then one of that attempt. The refinement takes one step per action: a commit maps to `Commit`, a callback to `Announce`, the answers to the answers, the rest stutters. Progress: locks belong to open calls (`LockInv`), so that whoever is blocked is blocked by another open call, and where all are, `CycleOfWaits` gives a cycle among them. `StepsLeft` falls since an operation, counted as three steps, opens at most one nested call or waits once, and leaves at most one callback, and since an attempt is worth more than the operations and the callback of the next (`LeftFalls`, `LeftRetry`); `NextInv` keeps the place in the list of callbacks. |
| `RecordStoreProofs` | `RecordsTypeOK`, `RecordsUncommittedUnseen`, `RecordsStepsRunOut`; `RecordsNeverStuck` for finitely many requests; `RecordsNoLostUpdate` under `SavesOnly` | `UInv`: the change of a request that has not committed, or has failed, is in no row or title and in no copy anybody else holds, in memory, in an open transaction or for a callback (`Known`); every step learns what a row shows or adds its own change, and shows what it knows only after the commit (`Flows`). `PInv`: row locks belong to transactions at an item or their end, those of a single request are taken with its only item, deletes hold none, and a request saves an item at most once (`ProgressAt`). Whoever waits for a row then waits for one that writes (`HoldersWrite`), and where all wait `CycleOfWaits` gives the cycle that `DeadlockVictim` breaks. `StepsLeft` falls at each kind of step; at a commit, because not more callbacks are left than there were items. `LInv`: a row that a transaction has written is locked (`Exclusive`), is the committed row with the request's own change, at the version after it (`WrittenAt`, `Follows`); what a request holds in memory is a copy of a row as it once was, so that at an equal version it is the row as it is (`ReadsPast`). The version check then passes only for a current copy. |
| `RecordStoreRefinement` | `RecordsRefineVersionedTable` under `SavesOnly`; `RecordsClientVersionRespected` and `RecordsBatchAllOrNothing` under `KeepsRows` and `NoRecalculation`; `RecordsAnnouncedVersionsDiffer` under `KeepsRows` | Every step is `Silent`, which leaves the rows but for their titles as they are, or a commit (`SilentOrCommit`). A commit is one `Update` or `Create` of the table, since all rows it replaces are those its statements saw, and an answer is a `Tell`. That a failed batch left nothing is `UInv` again. `CInv`: the versions announced or still owed by a callback are versions the rows have passed (`ClaimsPast`) and no two requests claim the same (`ClaimsDiffer`): without the ones still owed `AnnouncedVersionsDiffer` is not inductive. `VInv`: an update that names a version has read a row no newer than it, and its record is never older (`ExpectedAt`), so that the version check of `Save` leaves that version alone. |
| `ShareDBSessionsProofs` | `SessionsTypeOK`, `SessionsPublishToOpen`, `SessionsDieOnlyOfWholesaleClose`, `SessionsOneSubscription`, `SessionsNoneForgotten` | `SessionInv`: what a publisher has yet to send to is registered (`SendsToRegistered`), what is registered is open and its goroutine runs (`RegisteredIsOpen`), a channel closed by its own goroutine was closed last (`ClosesLast`), and what is being subscribed is kept (`Subscribing`). With `Subscribing` `NoneForgotten` is inductive: who subscribes again cancels the context before it is replaced, and who leaves cancels all. |
| `FieldCalculationProofs` | `FieldsTypeOK`, `FieldsSearchIsExact`, `FieldsStepsRunOut`; `FieldsCheckedEditsSaveNoCycle` under `SoleEditor`; `FieldsRecalculatesAsDefined` under `EditsApart` | `SearchInv`: the stack is a path (`PathOK`), a node is sorted after everything the search had to visit from it (`ClosedOK`), and whoever does not search yet has nothing on the stack (`CleanOK`). A neighbour that is on the stack then closes a cycle; the end of a search rules one out: of a set in which every node has a successor, the node sorted first would have one sorted before it. `EditInv`: while no calculation has failed, names differ (`NamesDiffer`) and no other field takes the name that an editor is about to save; the graph it checks has all edges that the table will have (`PendingOK`), for a name that no other field has is resolved in the list as it will be in the table (`ListedEdges`). The table itself need not be acyclic. For what is computed, `ReadInv`: what is about to be mapped is what the table holds (`RowsOK`); what was mapped or cached in the present second agrees with the table, and whoever has one version has one graph (`ReadersOK`, `CacheOK`), for an edit comes after everything that was mapped in its second; so the graph a calculation uses is that of the definitions it has read (`GraphsOK`), whatever becomes of the table afterwards, failed calculations included. The order comes from the search: all edges among the sorted are covered (`SortedAll`), so that what is computed is wanted, distinct, and after what it refers to (`DoneOK`). `StepsLeft` falls because a search marks what it is visiting: no field is on the stack twice or both there and sorted (`OnceOK`), so that entering a field and leaving it each take one off `ToVisit`; and each stage is worth more than all of the next (`SearchNearer`, `CalculateNearer`, `EditNearer`). |
| `CollaborationProofs` | `CollaborationTypeOK`, `CollaborationHoldsCommitted`, `CollaborationRowFollowsDocument`, `CollaborationRefusedEditIsRemoved`, `CollaborationLatestArrives` | Types need `Ready`: what is on its way to a row or a client are contents of a record, values or none (`Contents`), and an edit that is waited for has one to go back to. `Announced`: what is being published, in a Go channel, on the wire or about to be sent was committed, so that a document gets nothing else. `RowFollowsDocument` is inductive with the types: whatever changes the data leaves an event, the row reads the data, not the event, and whatever else writes the row has the effect run, which leaves an event again. `Shown`: an edit is in the log exactly when it was stored, and one that is not is shown by the page that waits for it, or underneath another edit. `Owing`: whoever is owed something is connected, listens or has asked to (`Listens`), and what it is owed, a place in the log, the first for what no commit precedes, has come, or approaches: in a snapshot that is not read yet, or as a value that is new enough and still to be announced, in the publication, in the Go channel of a subscription that goes on, or on the wire (`Coming`). A publication reads the list after its commit: who is not listed by then has asked, and the snapshot, read after the registration, is no older than anything owed (`SnapshotIsNew`, for which no edit is stored twice: `Once`); a failed read is owed no more than the first place. `LinesOK`: a new subscription is not a cancelled one. |
| `BroadcastProofs` | `BroadcastTypeOK`, `BroadcastNoGhosts`, `BroadcastPanicsOnlyInShutdown`, `BroadcastNewestLast` | Types need `Busy` (what the goroutine sends to is a connection, of a channel it ranges over) and `RequestsOK`. `Known`: whoever is registered under an id has that id and has not ended; `NoGhosts` is inductive with it, since an id leaves the channels with its registration. `Up`: while the server is up no channel is closed. Order needs `OInv`: an event has only published events before it (`Priors`); whoever is owed an event, or has heard it, still has a place in one of its channels (`Listed`), so that the goroutine has that connection ahead of it from the moment it takes the event until it sends it (`Ahead`); and at each stretch of the way from Redis over the bus to a connection an event comes after the last copy there of any one published before it, or a copy of it is still earlier on the way (`Ordered`). |

`Waiting` holds `CycleOfWaits`, which both progress proofs use: in a finite set in which
everyone waits for another of the set some wait in a cycle, for a smallest subset that is
closed under waiting is one. Finiteness is needed: infinitely many requests could each wait
for the next.

`SavesOnly` is `KeepsRows` (no deletes), `NoRecalculation` (`Bumps` is `{1}`) and `NamesByIds`
(batch items name fields by their ids). It is no convenience: with a second increment, a
delete, or items keyed by field names, `NoLostUpdate` and the refinement do not hold (section
7), which is why the run `records` has the same restriction. Each theorem has the weakest of
these hypotheses under which it is true, or the proof goes through:
`RecordsAnnouncedVersionsDiffer` allows recalculation and names, because a version is claimed
by whoever wrote it, right or wrong; with deletes it is false, as is `ClientVersionRespected`:
a record is read, deleted, and inserted again from the copy of before, at a
version that it has had already (five requests on one record; two, as in the runs, are too few to see it).
What is proved of types, of uncommitted work and of progress holds for all kinds of request.

Only model-checked: the liveness properties themselves (`Terminates`, `CallbacksDrain`,
`SubscriptionsEnd`, `AnnouncedEditsArrive`, `ReachesListeners`), for the prover does no
fairness. Of `Terminates` what does not need it is proved: `NeverStuck` (somebody can go on, in
terms of the locks; that this is when a step is enabled, the prover cannot say) and
`StepsRunOut` (no request goes on for ever). `FieldCalculation`, in which nothing waits, has no
liveness property; that its requests do not go on for ever is proved without a run
(`StepsRunOut` of `FieldCalculationProofs`).

## 9. What is not modelled

- ShareDB fetch and presence, operations submitted over ShareDB (the grid sends none for
  cells), heartbeats; in the SDK authentication and the HTTP client. That the confirmation of
  `HandleSubscription` may be written to a response whose handler has ended.
- In the grid: the data of an event whose document is unsubscribed before its frame comes (the
  row takes those then; the model has it take what the document holds), adding and deleting rows and columns, filters, everything that is drawn.
- Redis pub/sub, which takes the place of the local one where a cache client is configured:
  its goroutines and subscriptions are those of the Redis client library.
- `BroadcastToUser`, which nothing calls, filters of business events and subscribers other
  than the SSE manager.
- The domain event bus and its store: only the calculation workers, which are not started,
  publish to it. The calculation orchestrator and its workers, the background worker pool
  and the concurrency control: constructed or not, no request reaches them.
- Calls of `Transaction` helpers outside of a transaction (run at once, or dropped with a
  warning); the transaction manager, which wraps the same call.
- The recalculation of records that are read: with computed fields in the table a read computes
  them and saves the record on the pool (`record_service.go` 1004-1030,
  `calculation_service.go` 290-306). That write is none of the requests of `RecordStore`,
  and its properties are about tables without it.
- The second save of `BatchCreateRecords`, the derivation of link fields inside an update,
  and typecasts of values; the goroutine that looks a record up 100 ms after an update.
- The JavaScript runtime pool and the LRU cache: one channel and a flag, a map under a lock.
- The formula parser and its functions, permissions, users, spaces, views, HTTP handlers
  but for what they do to a record, the MCP server, the user interface, and the vendored
  `teable-dev`: sequential, generated, drawing, or one statement each.

## 10. Running it

```
tlc -workers 2 -config MCTxContext.cfg MCTxContext
tlapm TxContextProofs.tla
```

and likewise for the other configurations and proof modules; "runs" in `PROJECT.json` lists
which configuration belongs to which module and whether it must pass or fail.
