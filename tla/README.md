# TLA+ models of the Akonadi server core

These modules model the parts of the Akonadi storage server under `src/` that
have state worth model checking. Each one is checked with TLC. `PROJECT.json`
lists every component, run, mutant, source mapping, finding and hazard.

## The system and its parts

The Akonadi server is a daemon. Clients and resource agents connect to it, and
every connection gets its own thread (`AkonadiConnection`, started by
`AkonadiServer::incomingConnection`). A command's handler works as follows:

1. It resolves the command's scope to collections or items.
2. It opens a `Transaction` on the thread's `DataStore`.
3. It writes, and its `NotificationCollector` collects change notifications.
4. It commits.

The collector then hands its batch to the process-wide `NotificationManager`.
The manager lives in the main thread, compresses the batches into
`mNotifications`, and a timer emits them to every subscribed
`NotificationSource`. Resources sync items into collections on their own
connections. An `ItemRetriever` asks a resource for payloads the server has not
cached. `ProcessControl` starts the agents and the database process and
restarts them. `ResourceManager` registers and removes resource instances.

| Part | Source | State | Operations | Model |
|---|---|---|---|---|
| Range set | `src/libs/imapset.cpp` | list of intervals `[begin, end]`, 0 = undefined | `add(values)`, `add(set)`, `add(interval)`, `toImapSequenceSet()` | `ImapSet` |
| MODIFY handler and Transaction | `src/server/src/handler/modify.cpp` | in-memory collection, argument line, `changes`, the open transaction | scope lookup, PARENT look-ahead and retrieval, one branch per argument type, update/notify/commit | `ModifyHandler` |
| Collector and NotificationManager | `notificationmanager.h`, `notificationmessage_p.h` | collector list, queued batches, `mNotifications`, subscribers | `slotNotify`, `emitPendingNotifications`; `subscribe`/`unsubscribe` not yet | `ModifyHandler` (partly), refining `NotificationHub` |
| ItemRetriever | `storage/itemretriever.h` (header only) | none of its own | `exec()` for a collection subtree | one step of `ModifyHandler` |
| ProcessControl | `src/server/control/processcontrol.cpp` | `mFailedToStart`, `mCrashCount`, `mRestartOnceOnExit`, policy, process state | `start`, `stop`, `slotError`, `slotFinished`, `resetCrashCount` | `ProcessControl` |
| Server lifecycle | `src/server/src/akonadi.cpp` | database process, service threads, search manager, connection list, `mAlreadyShutdown` | constructor (database start-up), `quit`, `incomingConnection`, `serviceOwnerChanged` | `ServerLifecycle` |
| ResourceManager | `src/server/src/resourcemanager.cpp` | resources and their collections | `addResourceInstance`, `removeResourceInstance`, and CREATE adding a collection | `ResourceManager`, composed into `ServerLifecycle` |
| DbInitializer dialects | `storage/dbinitializer_p.cpp`, `dbinitializer.h` | none (pure) | `buildColumnStatement`, `buildCreateTableStatement` per dialect | `DbInitializer`, used by `ServerLifecycle` |
| QueryBuilder, other handlers, search, janitor | headers only | — | — | not modelled (see below) |

### The hard behaviours

- **Interleavings.** MODIFY commands on different connections overlap at
  statement granularity. The handler reads the collection object *before* its
  transaction and trusts it throughout. This affects the sibling-name check,
  the owner check and the move decision.
- **Steps outside the transaction.** The payload retrieval for a
  cross-resource move runs before the transaction. The search manager is
  updated before the commit.
- **Asynchronous notification.** A committed batch crosses threads to
  `slotNotify`, is merged into the pending list, and waits for the timer.
  Subscribers fetch what they are told changed.
- **Retry and restart.** `ProcessControl` keeps a crash counter with 60-second
  reset timers and two restart paths, crash and non-zero exit.
- **Shutdown ordering.** `AkonadiServer::quit()` stops the retrieval thread
  and deletes the search manager before it stops the connection threads.
- **Numeric edges.** `ImapSet::add` narrows a 64-bit id to `int`. An interval
  end of 0 means "undefined" and still takes part in `size()`.

## Modules

### `ImapSet` (`MCImapSet`)

- **State:** `intervals` models `d->intervals`. The ghost variable `covered`
  holds the ids the callers meant, and `lastAdd` holds the input and output of
  the last `add(values)`.
- **Actions:** `AddValues` models `add(QVector)`, which `add(QList)` and
  `add(QSet)` forward to. `AddInterval` models `add(ImapInterval)`. `NewSet`
  models a fresh `ImapSet`, as a handler builds one per command.
- **Operators:** `Runs` and `RunEnd` are the grouping loop, kept with its
  `--i` step-back and its lone-last-value branch. `ToInt` is the narrowing to a
  two's-complement int of `IntBits` bits. `ToImapSequence` and
  `ToImapSequenceSet` are the rendering. Rendered text is a sequence of tokens
  (number, `:`, `*`, `,`).
- **Reference definitions:** `MaximalRuns` is the reference grouping.
  `Decode` is a decoder of the wire grammar of spec section 6.

### `ModifyHandler` (`MCModifyHandler`)

**Connections.** Each connection in `Conns` runs MODIFY commands drawn from
`Commands`, which are sequences of argument pairs. A command moves through
these phases:

- `ModifyStart`: scope query, one collection or fail, read the collection,
  PARENT look-ahead.
- `RetrieveDone`: the retrieval succeeds or fails.
- One `Field*` action per argument pair. There is one action per branch of the
  loop, with the branch's guards and early exits; `FieldStatementFails` covers
  a backend statement of the pair failing.
- `ModifyFinish`: update, `collectionChanged`, commit, "MODIFY done".
- `ModifyFinishFails`: update or commit fails.

**The backend.** `DataStore`, the transaction and the collection entity are
not under `src/`. They are modelled from spec sections 3 and 5:

- A transaction's statements are a list `ops` of writes.
- Its own reads (`Visible`) see them; other transactions see them only after
  the commit, which applies them at once.
- `Fail` is the rollback on scope exit. It drops the writes and the collector
  contents.
- `work` is the in-memory `Collection`, and `dirty` is what `update()` writes.

**Notifications.**
- `notes` is a transaction's collector.
- `posted` holds the batches queued from connection threads to the manager.
- `pending` is `mNotifications`.
- `inbox` holds the batches emitted to each subscriber.
- A subscriber handles a notification by fetching the collection again
  (`SubscriberFetch`). Its copy is `view`.

**Environment.**
- `ItemSyncAdd` is a resource appending a payload-less item to one of its
  collections.
- `search` is the search manager's query per collection.
- `origin` is a ghost variable: the resource each item was created in.

**Data abstraction.** Names, remote ids, revisions, cache policies and queries
are small sets of model values. A query language and query string together are
one value. Attribute rows are kept as sequences, so duplicate rows can exist.
The constant `InitAttrs` gives the attribute rows the database may start with,
including a duplicate pair left by two concurrent first inserts.

**Refinement.** `HubSpec` says that the whole notification path implements
`NotificationHub`. The mapping:
- the hub's `store` is what `Fetch` reads from the database;
- the hub's `view` is the subscriber's copy;
- the hub's `owed` is the collections named by a notification still in the
  subscriber's inbox, in `mNotifications`, or in a batch posted to the
  manager (`InFlight`).

A commit is `Publish`. A subscriber fetching a collection is `Deliver`, or
`Redeliver` when another notice of that collection is still in flight. Every
other step is a stutter of the hub.

### `NotificationHub`

This is the abstract specification of change delivery (spec sections 4.4, 4.5
and 5). It knows nothing of collectors, queues, compression or timers.
- `store` is each collection's committed state.
- `view` is each subscriber's copy.
- `owed` is the collections each subscriber still has to hear about.

A commit (`Publish(C)`) changes only the collections in `C` and owes every
subscriber a notice of each of them. `Deliver(s, c)` hands over the last owed
notice, and the subscriber fetches `c`. Weak fairness on `Deliver` is the
promise that no owed notice is lost.

### `ResourceManager`

This module models `resourcemanager.cpp`, the D-Bus object through which
`akonadi_control` adds and removes resource instances.
- `resources` is the rows of the Resource table.
- `colRes` is the resource column of each collection slot. `NoCol` means the
  slot is free, and `NullRes` means the column was set to NULL.
- `removing` is a `removeResourceInstance()` in progress: the resource, and
  the snapshot of its collections not yet cleaned up.
- `onDelete` is the foreign key's ON DELETE action as the backend enforces
  it, or "None" when nothing enforces it. It is chosen in `Init` from the
  constant `OnDeleteActions`. Within `ServerLifecycle` the choice follows the
  driver (see `DbInitializer` below).

`AddResourceInstance` is one transaction, and its insert may fail.
`removeResourceInstance()` has no transaction, so it is three kinds of step:
1. `RemoveResourceInstance` reads the collections once.
2. `CleanupCollection` cleans up each collection of the snapshot. A failure
   is ignored.
3. `RemoveResourceRow` deletes the row, and its result is ignored. What
   happens to collections that still refer to it depends on `onDelete`.

`CreateCollection` is a CREATE command committing a collection of a
registered resource.

### `ServerLifecycle` (`MCServerLifecycle`)

This module models `AkonadiServer` in `akonadi.cpp`: the constructor, the
event loop's connection handling, and `quit()`.

**The main thread** is one program counter, `main`. A blocking wait is a
phase of that counter.
- The constructor phases are `Boot`, `OpenLoop`, `CreateDb` and `InitStore`.
  - `StartDatabaseProcess` aborts (akFatal) on an empty server path,
    whatever the driver. Otherwise it dispatches on the driver. It calls
    `StartMysqlDatabaseProcess` or `StartPostgresqlDatabaseProcess`, or does
    nothing for a driver without a server process.
  - Both start functions end in `LaunchServer`. A failed `waitForStarted()`
    there is akFatal.
  - For PostgreSQL, a data directory without `PG_VERSION` (`pgData` false)
    is first initialised by initdb. The code ignores initdb's exit status.
    When initdb fails, postgres exits at once.
  - `OpenAttempt` is one iteration of the 120-iteration `db.open()` loop.
    `OpenLoopExhausted` is the loop running out. `CreateDbIfMissing` is the
    `USE`/`CREATE DATABASE` step. A `CREATE DATABASE` that fails ends in
    `akFatal`, also when a failed `USE` (a query error) hides a database
    that exists. `CreateDatabase` is the path for an
    external server.
  - `InitStore` is the rest of the constructor: listen, the `DataStore`,
    and the service threads.
- The quit phases follow `quit()` line by line:
  - `StopServices` stops the service threads.
  - `DeleteSearchManager` deletes the search manager.
  - `QuitConnSignal` and `JoinConn` are the two halves of `quitThread()` for
    each entry of `mConnections`. `QuitConnsDone` ends that loop.
  - `CloseStore` closes the DataStore.
  - `StopDatabaseProcess` and `StopDbTerminate` make up
    `stopDatabaseProcess()`: terminate, then kill.
  - `DoQuit` is the final `QCoreApplication::exit()`.

**The environment.**
- `DbComesUp` and `DbDies` are the database server.
- `IncomingConnection` is a client connecting. It is refused once
  `mAlreadyShutdown` is set.
- `Quit` and `ServiceOwnerChanged` are the two ways `quit()` is requested.

**Connection threads** are abstracted to the command they run: `Busy`, or
`Search` (a MODIFY about to call `updateSearch`), or `Retrieve` (waiting on
an item retrieval).
- `UseSearch` records, in the ghost `searchUse`, the state of the search
  manager at the time of the call.
- A retrieval is answered (`RetrievalServed`) or times out
  (`RetrievalTimeout`), as spec section 5 requires.
- `ConnQuit` leaves the thread's event loop after `quit()` was signalled.
- A `Create` command ends in `CreateDone`, which commits a collection
  (`ResourceManager`'s `CreateCollection`) or fails.

**Composition with `ResourceManager`.** The module instantiates
`ResourceManager` as `RM`. Its D-Bus slots run in the main thread:
- `AddResourceInstance` and `RemoveResourceInstance` start only while the
  server is running and no other removal is in progress (`RM!Idle`).
- `RemovalStep` (the cleanup loop and the final row delete) is one of the
  main thread's steps.
- While a removal is in progress, the main thread is blocked. So
  `IncomingConnection` and `Quit` also wait for `RM!Idle`.

### `DbInitializer`

This module models the four dialect builders of `dbinitializer_p.cpp`
(MySQL, SQLite, PostgreSQL, Virtuoso). It has no state. A CREATE TABLE
statement is modelled by what it does for one column: the set of constraint
clauses it declares. The clauses are NOT NULL, AUTO_INCREMENT (SERIAL,
IDENTITY), PRIMARY KEY, UNIQUE, a part of a composite key, REFERENCES with
its ON DELETE action, and DEFAULT. Names, SQL types and layout are left out.
- `ColumnDescriptions` is every combination of the flags of
  `ColumnDescription`, a foreign key action or none, and a default (none, a
  value, or CURRENT_TIMESTAMP).
- `PkCounts(c)` is the `primaryKeyColumnCount()` of a table with column `c`.
- `MySqlColumn`, `SqliteColumn`, `PostgreSqlColumn` and `VirtuosoColumn` are
  the four `buildColumnStatement()` functions. `MySqlTable` and the other
  `...Table` operators add what `buildCreateTableStatement()` contributes:
  the composite key, and for MySQL the table-level FOREIGN KEY clauses.
- `Described(c, n)` is the reference: what the description asks for.
  `Implied` adds what SQL derives from a key (unique, not null).

**Composition.** `ServerLifecycle` uses `DialectOf(driver)` and `Declared` to
derive the enforced ON DELETE of the resource foreign key
(`EnforcedOnDelete`):
- SQLite's CREATE TABLE has no foreign key, so it enforces "None".
- PostgreSQL enforces the declared action.
- MySQL's CREATE TABLE names no storage engine. So it enforces the declared
  action (InnoDB) or none (MyISAM).

### `ProcessControl`

This module models one `ProcessControl` of `akonadi_control`, the supervisor
of one child process.

**State.** The variables are the members `mFailedToStart`, `mCrashCount`,
`mRestartOnceOnExit` and `mPolicy`, the process state, and `window`. The
`window` variable holds the failures under `RestartOnCrash` of the last 60
seconds, oldest first. An entry is TRUE when that failure armed a
`resetCrashCount` single shot (line 146). So the TRUE entries are the
pending single shots, in the order they will fire.

**The process.** QProcess delivers its signals synchronously. So a process
event is one step together with the slot that handles it:
- `ProcessCrashes` is `error(Crashed)` followed by `slotFinished(CrashExit)`.
- `ProcessExits(code)` is a normal exit.
- A failed start inside `StartProcess` only sets `mFailedToStart`, because
  no `finished()` follows it.

**`SlotFinished` branches.** Each branch of `slotFinished` is an operator:
- `CrashRestart`, `CrashGiveUp` and `CrashNoRestart` handle a crash.
- `ErrorExit` (count, then restart or give up) and `ErrorExitNoRestart`
  handle an exit with a non-zero code.
- `CleanExit` handles an exit with code 0.

**The supervisor.**
- `StartApp` is `start()`.
- `SetCrashPolicy` and `RestartOnceOnExit` set the policy and the
  restart-once flag.
- `Stop` is `stop()`. The process finishes within the wait, or the wait
  times out and `mFailedToStart` is set.
- Time is the window draining in order. Every failure leaves it 60
  seconds after it happened:
  - `ResetCrashCount` is the failure's own single shot firing, which sets
    `mCrashCount` to 0;
  - `FailureExpires` is a failure that armed no shot leaving the window.

**Ghost variables.** `lastExit` and `awaiting` record what the latest
termination led to. `lastExit.recent` is the number of failures in the 60
seconds before it (`Len(window)`): the window that one single shot per
failure suggests the count is meant to cover.

## Runs

| Run | Config | Expect | What it shows |
|---|---|---|---|
| imapset | `ImapSet.cfg` | pass | `add(values)` yields the maximal runs, and rendered text decodes to the added ids (`AddValuesMatchesRuns`, `EncodeRoundTrip`). |
| imapset_open_end | `ImapSetOpenEnd.cfg` | violation | `ImapInterval(1, 0)`, i.e. `1:*`, renders as empty text. |
| imapset_narrowing | `ImapSetNarrowing.cfg` | violation | An id above the int range renders negative (with 3-bit ints, id 4 becomes -4). |
| modify_fields | `ModifyHandler.cfg` | pass | Field changes and moves within and across resources, with retrieval, item sync and failing statements. See below. |
| modify_move_race | `ModifyMoveRace.cfg` | violation | `MovedItemsHavePayload`: an item synced after the retrieval is moved without payload. |
| modify_search_rollback | `ModifySearchRollback.cfg` | violation | `SearchMatchesStore`: a failed MODIFY leaves its search query in the search manager. |
| server_lifecycle | `ServerLifecycle.cfg` | pass | See below. |
| server_search_after_quit | `ServerSearchAfterQuit.cfg` | violation | `SearchNotUsedAfterDelete`: `quit()` deletes the search manager while a connection thread is about to call `updateSearch`. |
| server_orphan_collection | `ServerOrphanCollection.cfg` | violation | `NoOrphanCollections`: a CREATE commits between the collection snapshot of `removeResourceInstance()` and the row delete, leaving a collection of a removed resource. |
| process_control | `ProcessControl.cfg` | pass | `GiveUpIsFinal`: after `unableToStart()` nothing restarts the process until `start()` is called again. |
| pc_crash_budget | `PCCrashBudget.cfg` | violation | `CrashBudgetKept`: the crash branch does not keep the budget of the error-exit branch. The first crash gives up, and crashes alternating with error exits restart past the budget, and the first single shot to fire forgets the later failures. |
| pc_failure_unanswered | `PCFailureUnanswered.cfg` | violation | `FailureAnswered`: a restart whose start fails is neither retried nor reported. |

The modify_fields run covers every field branch, with failing statements.
It starts from attribute rows with and without a duplicate pair, so the "more
than one attribute" branch is reached. It checks four properties:
- `ChangesAnnounced`: every committed change carries a notification naming its
  parts.
- `SubscribersConverge`: once notifications drain, subscribers hold the store.
- `CommandsComplete`: every command answers.
- `HubSpec`: the notification path implements `NotificationHub`. No owed
  notice is dropped, a subscriber only ever fetches, and every owed notice is
  eventually delivered.

The server_lifecycle run checks three properties:
- `ConnectionsGoneBeforeClose`: `quit()` closes the DataStore and stops the
  database only after every connection thread has been joined.
- `QuitCompletes`: a started `quit()` ends in `exit()`.
- `SchemaKeepsColumns`: once the DataStore is open, its schema keeps every
  column constraint of the template, whichever driver built it. The only
  exceptions are SQLite's foreign keys and Virtuoso's CURRENT_TIMESTAMP
  defaults. This checks all four dialect builders over every column
  description and key size. TLC evaluates the constant part once.

Each property of a passing run has a mutant in `PROJECT.json`. The mutant is a
plausible bug of the code it mutates, and TLC finds the property violated when
the mutant replaces that code:
- a `changes.append` that is missing;
- a move that writes the parent id as the resource, or that is not announced;
- `collectionChanged` added after the dispatch;
- `slotNotify` replacing the pending list instead of merging into it;
- a flush that needs two pending messages;
- a `continue` that does not consume its pair;
- a do-while without its `--i`;
- a `quitThread()` that does not wait, or a connection accepted after
  `mAlreadyShutdown`;
- a `quitThread()` that does not signal `quit()`;
- an error exit that restarts after giving up;
- `size()` without its `+ 1`;
- a flush that waits for two pending messages (against `HubSpec`), and a
  `slotNotify` that replaces `mNotifications` instead of merging into it;
- a MySQL column that declares PRIMARY KEY for a part of a composite key.

### Bounds and why they are enough

**ImapSet.**
- Ids are 1..4 with at most 3 values per `add` and 3 intervals. That covers
  every gap pattern among runs of up to three values.
- Open intervals and narrowing have their own configurations. Those use
  `MaxIntervals = 1` or 2 and a 3-bit int, so that a wrap happens among small
  ids.

**ModifyHandler.**
- There are two connections: `k1` is the session of resource `r1`, and `k2` is
  a plain client.
- There are two top-level collections of different resources (`c1` in `r1`,
  `c2` in `r2`), so that name clashes, owner checks and cross-resource moves
  all happen.
- There is one item, one attribute type, one mime type and one subscriber.
  There are three values, so that a rename can both clash and succeed.
- The field run allows one command per connection and has backend failures
  on. Its initial attribute rows (`MCInitAttrs`) are either empty or a
  duplicate pair of one type, which is what two concurrent first inserts
  leave behind. So the "more than one attribute" error is reached without a
  second command per connection.
- Together the passing runs fire every action and every disjunct.
- The first commands are drawn from the full scope choice (`SUBSET Cols`).
  This gives the "no such collection" and "mass-modifying" answers.

**ServerLifecycle.**
- There are two connection threads, so that one can be mid-command while the
  other is joined.
- There are three drivers: MySQL and PostgreSQL, which start a server process,
  and SQLite, which does not.
- Every configuration flag takes both values: internal or external server,
  clean shutdown, cache cleaner, and an external server that is already up.
- The `db.open()` loop runs 2 iterations (`MaxOpenTries`) instead of 120.
  Two iterations are enough to reach both a success after a retry and
  running out.
- There is one resource `r1` and one collection slot `col1`. That is enough
  for a CREATE to commit between the collection snapshot and the row delete
  of a removal.
- The template's ON DELETE for the resource key is drawn from Cascade,
  Restrict and SetNull. With the three drivers, every branch of the row
  delete happens. The orphan run uses SQLite only.
- The passing run has 944,200 distinct states and takes under two minutes.
- `SchemaKeepsColumns` ranges over all 4 dialects, all 192 column
  descriptions and key sizes 0 to 2. That covers a single and a composite
  key.

**ProcessControl.**
- There are 5 process terminations (`MaxExits`) and 2 `start()` calls
  (`MaxStarts`).
- Five terminations are more than the crash budget of two error exits
  spends. So giving up, restarting after a reset, and the restart storm
  all occur.

### Fairness

- **Connection threads:** `WF` on each connection thread's own steps. The
  thread runs while it has work, and every backend statement returns. A
  retrieval ends in its result or, by the timeout of spec section 5, in a
  failure, so the two outcomes share one weakly fair action.
- **Manager:** `WF` on the manager's queued slot and on its timer.
- **Subscribers:** `WF` on each subscriber's reading.
- **No fairness for `ModifyStart` or `ItemSyncAdd`:** clients and resources
  are not obliged to send anything.
- **Server main thread:** `WF` on its steps. The constructor and `quit()`
  run without waiting on anyone except the threads they join.
- **ResourceManager:** the cleanup loop and the row delete are steps of the
  main thread, so they are under the main thread's `WF`. The D-Bus callers
  (`akonadi_control`) get no fairness.
- **Server connection threads:** `WF` on finishing a command, on a CREATE
  committing or failing, on the
  `updateSearch` call, on a retrieval being served or timing out, and on
  leaving the event loop after `quit()`. The database server and the clients
  get no fairness.
- **ProcessControl:** `WF` on `ResetCrashCount` and `FailureExpires`. Time
  passes, and a Qt single shot fires. The child process is not obliged to
  crash or exit.
- **Deadlock:** the runs use `CHECK_DEADLOCK FALSE`. Once the bounded clients
  have sent their commands, the server really does become idle. Liveness of
  every started command is checked by `CommandsComplete` instead.

## Findings

1. **`1:*` renders as nothing** (imapset.cpp:109). `size()` of begin 1 with
   the undefined end 0 is 0. Spec section 8 expects `<begin>:*`.
2. **An id of 2^31 or more renders negative** (imapset.cpp:205), through the
   `const int begin` narrowing.
3. **A cross-resource move can strand a payload-less item** (modify.cpp:70).
   The retrieval runs once, before the transaction. An item that the old
   resource syncs in before the commit is moved without payload.
4. **A failed MODIFY keeps its search update** (modify.cpp:169).
   `updateSearch` runs before the commit and survives a rollback, against the
   all-or-nothing rule of spec section 7.
5. **`quit()` deletes the search manager under running connections**
   (akonadi.cpp:183). The connection threads are joined only afterwards, so a
   MODIFY of a persistent search calls `updateSearch` on a deleted object.
6. **Crashes do not keep the crash budget** (processcontrol.cpp:99, 145).
   - The error-exit branch counts `mCrashCount` up and gives up at the
     fourth failure of a window.
   - The crash branch counts it down. `--mCrashCount >= 0`, with a count
     that starts and resets at 0, gives up on the first crash under
     `RestartOnCrash`.
   - Crashes alternating with error exits keep the count between 0 and 1.
     So the process is restarted past the budget, without end. The run
     reports the shorter first-crash trace. The alternating trace (exit,
     crash, exit, crash, then a restart at the fifth failure) was confirmed
     separately by restricting the property to its second half.
   - The window is not 60 seconds either (line 146). Each error exit arms
     its own single shot, but the first shot to fire sets the count to 0.
     That also forgets the later exits, whose shots are still pending. With
     `CrashExits = FALSE`, TLC finds this trace: three exits, the first
     shot fires, then a fourth and a fifth exit. The fifth is restarted
     although three failures lie within the 60 seconds before it.
7. **A failed restart is never answered** (processcontrol.cpp:192).
   - A restart whose `waitForStarted()` fails only sets `mFailedToStart`.
   - No `finished()` follows, so there is no further restart and no
     `unableToStart()`.

8. **Removing a resource can orphan a collection** (resourcemanager.cpp:64).
   - `removeResourceInstance()` has no transaction. It reads the resource's
     collections once, cleans those up, and then deletes the row, ignoring
     the result.
   - A CREATE on a connection thread that commits in between adds a
     collection the loop never sees.
   - On a backend that does not enforce the foreign key, the row is deleted
     and the collection is left referring to nothing. The storage janitor
     declares `findOrphanedCollections` for exactly this state
     (`storagejanitor.h`).
   - Under Restrict, `remove()` fails silently and the resource stays.
   - The run uses SQLite. Its CREATE TABLE has no foreign key clause at all
     (dbinitializer_p.cpp:118), so nothing stops the delete. MySQL under
     MyISAM behaves the same.

## The plan

Built so far: `ImapSet`, the MODIFY handler with notification delivery and
its refinement of `NotificationHub`, `ServerLifecycle` composed with `DbInitializer` and
`ResourceManager`, and `ProcessControl`. Still to do, most important first:

1. **Notification manager subscriptions.** Add `subscribe`/`unsubscribe`
   and channel failure as actions. Let `NotificationHub` owe notices only to
   subscribers present at the flush.
2. **Backend variants.** Add a constant for a unique `(parent, name)` index,
   to settle the sibling-name race at modify.cpp:118. Also state the owner
   check at modify.cpp:140 as a property. Both need a violation run, and the
   run list is full.
3. **Composition.** A `ServerLifecycle` connection thread is now an abstract
   command. It could instead run `ModifyHandler`'s steps, so that the
   shutdown races are checked against the real handler.

The run list is at twelve runs. New questions will need merged
configurations.

## Not modelled

- **Properties that would only restate the model.** The model checks
  nothing about these, because each statement would hold by the model's
  own structure:
  - a command never runs without its database: the database server only
    dies while starting, so this is `InitStore`'s guard;
  - the database process is stopped at exit: `stopDatabaseProcess()` is
    one step that always ends the child;
  - the constructor ends: its only loop has 120 iterations;
  - `removeResourceInstance()` returns: it loops over a finite snapshot.

  A database server that dies while the daemon runs is not modelled: the
  code has no handler for it. The `akFatal` paths after the database
  server was launched never call `stopDatabaseProcess()`
  (akonadi.cpp:322-353). `akFatal` is defined outside `src/`, so whether
  its exit takes the child process down is unknown.

- **DDL spelling** (`sqlType`, `sqlValue`, `buildInsertValuesStatement`,
  `dbconfigvirtuoso.h`): type names and the escaping of predefined rows.
  SQLite and Virtuoso replace the substrings `true` and `false` in every
  inserted value. MySQL and PostgreSQL double backslashes. Whether any
  of this corrupts a row depends on the template's predefined values.
  `DbInitializer::run()` and the template parsing are not under `src/`,
  so no property can be stated against them.
- **Stale owner check and sibling names** (modify.cpp:140, 118). The
  model reaches both paths, but no run checks them:
  - the owner check (line 140) is violated by the code and would need a
    violation run of its own;
  - the sibling-name race (line 118) depends on a unique index in the
    schema template, which is not under `src/`.
- **Declarations only** (`querybuilder.h`, `store.h`, `link.h`,
  `subscribe.h`, `uid.h`, `relationfetch.h`, `searchrequest.h`,
  `storagejanitor.h`): their code is not under `src/`. The janitor's
  orphan search is therefore not modelled, only the orphan it looks for.
- **`ResourceManager::resourceInstances()`:** a read with no state change.
- **Value types** (`clientcapabilities.h`, `exception.h`).
- **Start-up glue** (the agent server's `main.cpp`).
- **Process I/O details:** the MySQL configuration file merging, the paths, and the arguments. Only their failure (akFatal) is modelled.
- **Tests** (the unit tests).
