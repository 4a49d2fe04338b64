# A TLA+ model of MindX

MindX is a personal agent daemon written in Go. One process (`cmd`, `internal/svc`) serves
WebSocket clients through a JSON-RPC gateway, runs agents on their behalf, indexes the files of
their projects, runs scheduled prompts, keeps the conversations on disk and talks to MCP servers.
Most of what it keeps is shared by goroutines: message handlers, agent executions, the indexer's
worker, the scheduler's watch loop, the cron library's firings.

This directory holds TLA+ modules for the parts where those goroutines meet, TLC configurations
that check them on small instances, and TLAPS proofs of the main invariants for every instance.

    tlc -workers 2 -config Indexer_safety.cfg MCIndexer     # any run of PROJECT.json
    tlapm IndexerProofs.tla                                 # any *Proofs module

`PROJECT.json` lists the components, the runs, the source lines behind every definition, the
hazards and the properties that answer them, the findings and the theorems.

- [1. The system](#1-the-system): components, state, operations, interactions, what makes each correct
- [2. Modules](#2-modules): how state and actions correspond to the code
- [3. Runs](#3-runs): what is checked, with which bounds, and what it shows
- [4. Fairness](#4-fairness)
- [5. Proofs](#5-proofs)
- [6. Where code and documentation disagree](#6-where-code-and-documentation-disagree)
- [7. Not modelled](#7-not-modelled)
- [8. Plan](#8-plan)

## 1. The system

### Components that are modelled

**Project file indexer** (`pkg/indexing`). Per project: a bbolt manifest with one record per file
or directory (state, mtime and size, chunk ids), a graph indexer (external library) that stores
the chunks, one worker goroutine, a wake-up channel of capacity one, a stop channel and the field
`processing`. Operations: `Add`, `Enqueue`, `RemoveFile`, `ResetManifest`, `Stop`, and
`NewIndexer`, which turns stale Processing records into Failed and starts the worker. The
handlers of `internal/svc/handler_kb.go` and `handler_session.go` call them while the worker
runs. *Hard:* every bbolt transaction is atomic, but handlers and worker read a record in one,
keep a private copy, and write the copy back in another; the graph indexer may panic; the process
may die. *Correct when:* a record is Processing only while someone works on it and is settled in
the end; the worker never sleeps on a non-empty queue; what is enqueued is drained; `Stop` stops;
a file that is being processed is not removed.

**Scheduler** (`pkg/scheduler`, `internal/svc/handler_schedule.go`, `internal/tools/cron.go`,
`daemon.executeScheduleCommand`). One JSON file per job, the map `entries` from job to cron id,
the table of the cron library, the process's working directory, lent by `execMu`. Clients and the
Cron tool write the files; a watch goroutine compares files and table on a timer; each firing is
a goroutine that runs the prompt and records the outcome in the file. *Hard:* the list the watch
goroutine applies may be stale, runs overlap, jobs are edited and deleted while they run, the
working directory is one for the whole process. *Correct when:* the map and the table agree, the
table converges to the files as far as they can be scheduled (nobody validates a cron expression
before the library parses it), the directory is restored whatever happens, every run ends.

**Client executions** (`internal/svc/daemon.go`). The maps `clientCancels` (client to
CancelFunc) and `activeSessions` (session to Session). A message cancels the client's previous
execution, registers the new one, loads the session and starts a goroutine whose deferred
functions undo the registrations; a disconnect and `message.cancel` cancel too. *Hard:* the maps
are `sync.Map`s, so single accesses are atomic and sequences are not; the deferred deletes of an
old execution run after its successor has registered under the same key. *Correct when:* nothing
dead is registered, what is cancelled ends, a client has one execution at a time.

**Session store** (`pkg/session/file_store.go`, `session.create` and `session.delete`). Per
session a directory with `session.yml` (messages) and `meta.json` (agent, project directory,
counters, cursor). Calls that write messages hold `ioMu`; `SetCursor`, `Create` and `GetMeta` do
not. Files are written in place. *Hard:* read-modify-write by goroutines of several clients and
of scheduled runs, two writers of `meta.json` with different locks, a crash or a failure between
truncation and write. *Correct when:* no appended message is lost to another call, nobody sees a half-written
`session.yml` but after a crash or a failed write, the lock is released on error paths, a project directory has one
session.

**MCP pool** (`internal/mcp/pool.go`). The configured servers, one pooled client per server with
the time of its last use, and a mutex over both. Tool calls of all executions and the `mcp.*`
handlers connect, call and disconnect; a reap loop closes what has been idle; `CloseAll` ends it.
*Hard:* a client is dialed between two critical sections, and in that time the server may be
dialed by someone else, removed, reaped or shut down. *Correct when:* no client stays open that
nobody can close, what is pooled lives and is one server's, and the pool drains when nobody calls.

**Registry of project indexers** (`getIndexer`, `kb.reset` and `Restart` of `internal/svc`). The
maps `indexers` and `indexerErrors` under a read-write lock; every indexer holds the file lock of
its manifest until the process ends. *Hard:* two first requests for a project, a failure after the
manifest was opened, a walk while an indexer is made, a new process that starts before the old one
has exited. *Correct when:* a manifest is opened once, is open only for an indexer that can be
found, `kb.reset` sees every indexer, every request is answered, and `getIndexer` returns the
indexer there is (it does not always: section 6).

**Hot reload and the runtime cache** (`internal/svc/hotreload_watcher.go`, `internal/core/app.go`).
The registries of agents and skills, the cache of runtimes built from them, the watcher's loop
with its two pending flags, its `Start` and `Stop`. *Hard:* `agent.reload` and `skill.reload` run
the same reload as the loop, at the same time; registries are replaced without a lock; a runtime
is built with none; `Stop` may come before the loop has begun to run or in the middle of a reload.
*Correct when:* no replaced registry survives in the cache, no reported change is forgotten, `Stop`
returns and nothing is reloaded after it.

### Components that are not modelled

| Component | State and operations | Hard part, and what would make it correct |
|---|---|---|
| Token usage store (`pkg/session/file_token_usage_store.go`) | one file of records under a mutex; append, query | rewritten in place although a comment says atomically (`:126`, `:136`): a crash in the middle makes every later append fail. Nothing interleaves |
| MCP clients and manager (`internal/mcp/client.go`, `rpc.go`, `manager.go`) | protocol over http, stdio or SSE; pending requests; two files | an answer whose id was an `int64` and comes back as a `float64` is never matched (`rpc.go:144`), one test shows it; the server list is loaded, changed and saved without a lock (`manager.go:92`) |
| Other RPC handlers (`internal/svc/handler_*.go`), terminal manager | terminals per client; otherwise wrappers around files | a terminal started after its client is gone |
| File versions, settings, credentials, workspace (`internal/core`) | version files, encrypted store, runtime assets with checksums | version names sorted as text, read-modify-write without lock, overwriting what a user changed |
| Memory (`pkg/memory`) | adapter of an external retrieval library | none of its own |
| Rules and logging (`pkg/rules`, `pkg/logging`) | files read by one caller | none |
| Terminal client (`internal/client`) | user interface state, single-threaded | layout, not state |
| Setup, update, commands (`internal/setup`, `internal/update`, `internal/commands`, `cmd`) | sequential installers and front ends | input and output |
| Web user interface (`runtime/web/assets`) | minified bundles of the interface and of libraries; no source | a client of the daemon's handlers, like any other |
| HNSW index (`third_party/hnsw`) | vendored | its panic is an outcome of `Indexer!WorkerPanic` |

### How the components interact

Handlers run one at a time per connection and concurrently between connections. They call the
indexer and the session store directly. An execution's goroutine runs an agent of the external
`goharness` library, which appends to the session store and uses the tools of `internal/tools`
(the Cron tool writes job files). The scheduler's runs do the same from the cron library's
goroutines, with the process's working directory moved. `session.delete` stops the indexer of the
session's project; `kb.reset` empties the indexer's two stores one after the other, walking the
registry of indexers. Every handler that needs an indexer gets it from the registry, and every
execution and scheduled run gets its runtime from the cache; the watcher, started with the daemon and
stopped first when it ends, replaces what that cache was built from. The agents' MCP tools call the pool.

## 2. Modules

    Indexer         <- MCIndexer,         IndexerProofs            implements WorkQueue
    SessionStore    <- MCSessionStore,    SessionStoreProofs       implements MessageLog
    Scheduler       <- MCScheduler,       SchedulerProofs          implements JobTable
    Execution       <- MCExecution,       ExecutionProofs
    MCPPool         <- MCMCPPool,         MCPPoolProofs            implements ClientLife
    IndexerRegistry <- MCIndexerRegistry, IndexerRegistryProofs    implements LazyTable
    HotReload       <- MCHotReload,       HotReloadProofs

Each component is one module: variables, `Init`, one action per operation or per atomic step of an
operation, `Next`, `Spec`, `FairSpec`, properties. An `MC` module adds the symmetry sets TLC uses, if any,
a `Proofs` module the theorems. The modules share no variable; the places where a component
touches another one are actions of the module whose state changes (`session.delete` is
`Indexer!Stop` and `SessionStore!Remove`; `kb.reset` is `ResetStore` and `ResetManifest` of one
project in `Indexer`, and the walk over all of them, without their contents, in `IndexerRegistry`).

A definition whose name has a suffix (`addJob_Always`, `Append_Unlocked`) is not part of the
specification: it is the definition of the same name with a plausible bug. Section 3 lists them,
one for each property; with the bug in place the property is violated.

### Indexer

| Model | Code |
|---|---|
| `manifest`, `put`, `firstEnqueued`, `moveToEnqueued` | `pkg/indexing/manifest.go`, one bbolt transaction each |
| `store` | chunks in the graph indexer; a chunk is (path, version) |
| `disk` | version of each file; stands for the mtime and size the code compares |
| `notify`, `stopped`, `processing`, `worker` | the channels and the field of `Indexer`, the worker goroutine with its copy |
| `AddStat` ... `AddPutDir` | `Add` and `upsertParentDirs` |
| `EnqueueMove`, `EnqueueNotify` | `Enqueue`: one transaction, a non-blocking send |
| `RemoveRead`, `RemoveChunks`, `RemoveDelete` | `RemoveFile` |
| `ResetStore`, `ResetManifest` | `kb.reset` |
| `WorkerCheck`, `WorkerWake`, `WorkerExit`, `WorkerSkip` | `workerLoop` and the head of `processNext` |
| `WorkerClaim` ... `WorkerClear` | `processNext`, `processFile`, `processDir`, `indexFile` |
| `WorkerPanic`, `WorkerRecover` | a panic anywhere in `processNext`, its last callbacks included, and its deferred function |
| `Restart` | death of the process, then `NewIndexer` |

The project has one directory, sorted before its files as bbolt sorts keys: nested directories add
repetitions of the same read-then-write. Region summaries, ignore rules, costs and queries are
left out: they change no record's state or chunks. Content that yields no chunks, an error at each stage
and a panic before or after the chunks were stored are all outcomes. A directory's README has one
version. A stat, a transaction, a change of the graph indexer is a step each; what touches only the
actor's own copy belongs to the step before it.

### Scheduler

| Model | Code |
|---|---|
| `file` | `FileSchedulerStore`, one JSON file per job, written atomically (temporary file and rename) |
| `entries`, `cron` | `Scheduler.entries`, the table of the cron library with the captured prompt |
| `watch` | the goroutine of `Start`: `reloadAll` lists, applies job by job, sweeps what was deleted |
| `addJob`, `removeJob` | the methods of that name, under `s.mu`; `addJob` of what cannot be parsed fails after the old row was removed |
| `parses`, `OddJobs` | whether `AddFunc` parses the job's expression; the jobs that may be given one it does not |
| `run`, `execMu`, `cwd` | `executeJob` and `executeScheduleCommand`; `cwd` stands for the directory and `MINDX_PROJECT_DIR` |
| `editor` | the Cron tool's update between its `Load` and its `Save` |
| `UpdateLastRun` | the method of that name, which decodes without `Load`'s migration |

A prompt is a number, the empty one is 0. `WatchSweep` models that the sweep of `reloadAll` holds
`s.mu` while it calls `removeJob`, which locks it again: `sync.Mutex` is not reentrant, so the
goroutine waits for itself (`"blocked"`). Changing back to the daemon's own directory is assumed
to succeed (the directory exists as long as the daemon was started in it), and a job has at most
one directory of its own, its number.

### Execution

| Model | Code |
|---|---|
| `clientCancels`, `activeSessions` | the `sync.Map`s of that name |
| `Receive`, `CancelOld`, `DropOld`, `StoreCancel`, `LoadSession` | `defaultHandler`, `cancelClientExecution` |
| `Finish`, `Release`, `Forget` | the goroutine and its deferred functions, in the order Go runs them |
| `Disconnect`, `DropGone` | the disconnect handler |
| `CancelAllStart`, `CancelAllVisit`, `CancelAllDrop` | `message.cancel`: `Range` over the map |

`Range` visits each key at most once, with the value it has at that time. The gateway (external)
delivers the messages of a connection one at a time and reports the disconnect after the last.
Permission and question channels (`pendingInteractions`) are never filled by the code and left out.

### SessionStore

| Model | Code |
|---|---|
| `yml`, `meta` | `session.yml` and `meta.json`: missing, unreadable (`"torn"`) or readable |
| `ioMu`, `call` | the mutex; each caller's next step and what it has read |
| `Append`, `AppendFails`, `Delete`, `Truncate`, `UpdateMessages` | the methods of that name: lock and read |
| `EmptyYml`, `FillYml`, `YmlFails` | `os.WriteFile` of `session.yml`: truncate, then write; it fails before or in between |
| `LoadMeta`, `EmptyMeta`, `FillMeta`, `MetaFails` | load and `SaveSessionMeta` of `meta.json` |
| `SetCursor`, `CreateCheck`, `Create` | the paths to `meta.json` that do not take `ioMu` |
| `ListSessions`, `Listed` | the listing, which repairs what it cannot read with a blank record |
| `Remove` | `DeleteSession` and `Clear` |
| `Crash` | the process dies; a file being filled keeps a prefix of its bytes |
| `kept`, `broken` | history: the messages that no call, crash or failed write was to remove; the sessions whose `session.yml` one of the latter two left half-written |

Of `meta.json` only the project directory is kept: it is what another component reads. `RemoveAll`
is one step. A crash is one of the process, not of the machine, so what was written is there
afterwards. The back-fill of titles loads and saves `meta.json` once more and is left out.

### MCPPool

| Model | Code |
|---|---|
| `servers`, `connections` | the maps of `ConnectionPool`, by name |
| `client` | every client object ever dialed: alive from its handshake to `Close` |
| `caller` | a goroutine in `Call`, `DiscoverTools` or `TestConnection`, and the client it holds |
| `CallLookup`, `CallAlive`, `Reread`, `Use` | `Call`; `DiscoverTools` enters at `Connect` |
| `Connect`, `Dial`, `DialFails`, `Store` | `Connect`: first critical section, dialing without the lock, second one |
| `Disconnect`, `RemoveServer`, `Reap`, `CloseAll`, `AddServer` | the methods of that name, each one critical section |

Clients are of type http: alive until closed, and a request on a closed one is still sent. Time is
left out, so the reap loop may close any set of clients at any tick, used or not; credentials can
only make the dial fail. A call that dereferences nil in `Reread` ends there.

### IndexerRegistry

| Model | Code |
|---|---|
| `indexers`, `errors` | `Daemon.indexers`, `indexerErrors` |
| `writer`, `readers` | `indexersMu`: a writer that waits keeps new readers out, as Go's `RWMutex` does |
| `manifest` | the bbolt file lock of each project: free, ours, or that of the process before us |
| `Lookup`, `Errors`, `Lock`, `SecondLook`, `Open`, `OpenFails`, `Publish` | `getIndexer`, in the order of its locks |
| `Return` | the caller has the indexer (`"found"`) or an error (`"refused"`): opening failed, or an error is remembered |
| `BeginReset`, `RLock`, `ResetManifest`, `EndReset` | `kb.reset`'s walk |
| `Restart`, `OldExits` | a crash, a shutdown, or `Restart`, which starts the new process before the old one exits |

What `NewIndexer` does besides the manifest, and what is done to an indexer afterwards, is the
subject of `Indexer`. The projects of `kb.reset` are visited in any order, as Go's `range` does.

### HotReload

| Model | Code |
|---|---|
| `files`, `reported`, `due` | version of each directory; changes fsnotify has to tell; history: those no reload has looked at |
| `registry`, `runtimeCache` | `App.agents` and `skillReg`; `runtimeCache` |
| `Load`, `LoadFails`, `Publish`, `Invalidate` | `ReloadAgents` and `ReloadSkills`, by the loop or a handler |
| `Miss`, `ReadAgents`, `ReadSkills`, `CreateFails`, `Store` | `ResolveRuntime` and `createRuntime` |
| `StartStep`, `Enter`, `Receive`, `Tick`, `Flush`, `EndFlush`, `Cancelled`, `Closed` | `Start` and `eventLoop` with its `select` |
| `StopEarly`, `StopCancel`, `StopClose`, `StopCheck`, `StopDone` | `Stop`, which reads the watcher's fields without a lock |

A runtime records the versions it was built from. Its field `crossed` is history: a registry was
replaced between the runtime's reading it and its storing in the cache. A pointer read or written
without a lock is taken to be atomic, as it is on the platforms the daemon is built for.

### Abstract specifications

`WorkQueue` is what the indexer promises to those who give it files: clients change any record at
any time, one worker claims a record only when it has none, and reports one outcome for it before it lets
it go. A panic after the outcome was written overwrites it with a failure, once, and the worker lets
go in the same step (`GiveUp`). The refinement maps `status` to the state of the record, `active` to the
path the worker has claimed and not let go, and `told` to whether its outcome is in the manifest;
reading, indexing, panicking and waking up are stutters.

`MessageLog` is what the session store promises to its callers: each call that changes a session
takes effect in one step on what the session holds at that moment, what took effect is written down
before the next one does, and a crash or a failed write takes, besides the calls in flight, messages
only of the session that is being written down. The refinement maps `log` to the file's contents, those about to be
written once the file has been emptied, `asked` to the call that has read and not yet begun to write, and
`writing` to the session whose file is empty at the moment; everything about `meta.json` is a stutter.

`JobTable` is what the scheduler promises to those who wrote the jobs: at most one prompt per job,
which stays as it was scheduled until the job is taken out; runs of what the table held when they
fired; one working directory, lent to one run at a time. The refinement maps `scheduled` to the rows
of the cron library, `doing` to what a run was given, `lent` and `place` to `execMu` and the
directory; files, lists, updates and the blocked watch goroutine are stutters. That a prompt
does not follow the file is what the code does and `ref-automation.md:60` documents.

`ClientLife` is what the MCP pool means by a client: dialed by one goroutine, handed to the pool once
and for one server, closed in the step in which it leaves the pool, by nobody else and for good. The
refinement maps `held` to the clients between the two critical sections of `Connect`; lookups,
requests and the configuration are stutters.

`LazyTable` is what the registry of indexers does for its callers: the entry for a project is made
once, by a request that did not find it and did not fail; whoever finds it gets it, *unless* a request for
the project has failed in this process, before the entry was made: then everyone who finds the entry is
refused, and only the request that made it got it. A walk sees each entry there was when it began, and no
entry is made meanwhile; a new process starts with an empty table. The refinement maps `made` and `failed` to
the two maps of the daemon, `asked` to the calls of `getIndexer` that have not decided, the reading
of the remembered error included, `answer` to what a call that has decided returns, and `seen` to what
`kb.reset` has gone through. So the double-checked lookup, with its two locks and the
error that is read after them, is one step. That the remembered error wins over the indexer is what the
code does and not what its comment says: `GetReturnsIndexer` in section 6.

## 3. Runs

Distinct states are rounded; the times are for two workers.

| Run | Instance | States | Properties |
|---|---|---|---|
| `Indexer_safety` | 1 file, edited up to once or deleted, and its directory; 1 handler and the worker; 1 crash | 3.0 M, 110 s | `TypeOK`, `ProcessingOwned`, `NoLostWakeup`, `ImplementsQueue` |
| `Indexer_liveness` | the same, the file may be deleted but not edited | 326 k, 70 s | `ProcessingEnds`, `QuiescentDrain` |
| `Scheduler_safety` | 2 jobs with directories, one in the old file format, 2 overlapping runs, 2 firings | 875 k, 85 s | `TypeOK`, `OneCronPerEntry`, `CwdDiscipline`, `ImplementsTable` |
| `Scheduler_liveness` | 1 job with a directory, whose expression may not parse, 2 overlapping runs, 1 update in flight, 1 restart | 122 k, 115 s | `RunsEnd`, `EnabledScheduled`, `DisabledUnscheduled` |
| `Execution` | 2 clients, 2 sessions, 2 messages | 68 k, 10 s | `TypeOK`, `RegisteredIsOwn`, `ActiveIsLive`, `CalledBeforeDropped`, `CancelledEnds` |
| `SessionStore` | 3 callers, 1 session, 1 directory, 2 appends, 1 crash or failed write | 175 k, 90 s | `TypeOK`, `MessagesKept`, `TornWhileWriting`, `ImplementsLog`, `LockReleased` |
| `MCPPool` | 2 servers, 2 callers, 3 dials | 605 k, 90 s | `TypeOK`, `NoLeak`, `PooledAlive`, `FollowsLife`, `QuietPoolDrains` |
| `IndexerRegistry` | 2 projects, 3 callers, any number of restarts | 79 k, 75 s | `TypeOK`, `OpensOnce`, `NoOrphan`, `ResetCovers`, `ImplementsLazyTable`, `EveryCallAnswered` |
| `HotReload` | the loop, 1 handler, 1 resolution, 1 agent, 1 change of each directory | 258 k, 65 s | `TypeOK`, `CacheFresh`, `StopIsQuiet`, `NothingForgotten`, `ChangeLoaded`, `StopReturns` |
| `Indexer_StopEndsWorker`, `Scheduler_DeletedJobStops`, `IndexerRegistry_GetReturnsIndexer` | smallest that shows it | | one each, violated: section 6 |

`CHECK_DEADLOCK FALSE` is set only for `Execution`: when all messages have
been handled and every client is gone, nothing is left to happen.

### What each property says, and the bug it was tried against

| Property | In words | Bug that breaks it |
|---|---|---|
| `Indexer!ProcessingOwned` | a Processing record belongs to the worker's current entry, through panics, restarts and handlers that write back old copies | `resetStaleProcessing_Kept`: a restart leaves stale records |
| `Indexer!NoLostWakeup` | the worker waits on a non-empty queue only with a token in the channel or a sender about to put one | `EnqueueNotify_Unbuffered`: the channel has no buffer |
| `Indexer!ProcessingEnds` | a Processing record is settled | `WorkerRecover_NoPut`: a panic is swallowed |
| `Indexer!QuiescentDrain` | when handlers fall silent the queue empties | `WorkerPut_RetryFailed`: failures are put back |
| `Scheduler!OneCronPerEntry` | map and cron table are inverse to each other, so no job fires twice or escapes removal | `addJob_Always`: an already scheduled job is added again |
| `Scheduler!CwdDiscipline` | the directory is the lock holder's, and the daemon's own when nobody holds it | `RunChdir_Unlocked` |
| `Scheduler!ImplementsTable` | a job has one row, whose prompt does not change in place; a run does what its row held when it fired; nobody moves the directory while a run has it | `Fire_Reloads`: a firing reads the job's file again |
| `Scheduler!RunsEnd` | every run ends, also when its directory is gone | `RunNoDir_KeepLock`: the error path keeps the lock |
| `Scheduler!EnabledScheduled` | a job that stays enabled, with an expression that parses, is scheduled for good | `addJob_AtStart`: only the first list adds jobs |
| `Scheduler!DisabledUnscheduled` | a job that stays disabled leaves the table for good | `removeJob_Skipped` |
| `Execution!RegisteredIsOwn` | what is registered for a client is its own, unreleased execution | `Release_NoDelete` |
| `Execution!ActiveIsLive` | no session of an ended goroutine is registered | `Forget_OnPanicOnly` |
| `Execution!CalledBeforeDropped` | a new message and a disconnect remove no CancelFunc that was not called; only a superseded execution and `message.cancel` do | `CancelOld_NotCalled`: the old execution is only unregistered |
| `Execution!CancelledEnds` | a cancelled execution ends, however it was cancelled | `Finish_NoContext`: Run ignores its context |
| `SessionStore!MessagesKept` | a readable `session.yml` has every message that no call, crash or failed write was to remove | `Append_Unlocked` |
| `SessionStore!TornWhileWriting` | `session.yml` is unreadable only in the hands of the lock's holder, or where a crash or a failed write left it half-written and nobody has rewritten it since | `EmptyYml_Released` |
| `SessionStore!LockReleased` | `ioMu` is released on every path | `AppendFails_KeepsLock` |
| `Indexer!ImplementsQueue` | one record at a time is claimed, and an outcome is written only for a claimed one, once, unless a panic then makes it a failure | `WorkerClaim_Unmarked`: the claim is not written to the manifest |
| `SessionStore!ImplementsLog` | each call acts on what the session holds when it takes effect, not on what it held before another call; a crash or a failed write takes nothing of a file that nobody was filling | `Delete_Unlocked` |
| `MCPPool!NoLeak` | a live client is in the pool or in the hands of the goroutine that dialed it | `Store_KeepOld`: the client stored meanwhile is not closed |
| `MCPPool!PooledAlive` | what is pooled lives and is one server's | `RemoveServer_NotDeleted`: closed and left in the map |
| `MCPPool!FollowsLife` | a client is handed to the pool once and closed exactly when it leaves it | `Disconnect_Own`: a test closes the client it dialed instead of the pooled one |
| `MCPPool!QuietPoolDrains` | when nobody calls every client is closed in the end, that of a server removed during the dial too | `Reap_Replaced`: only configured servers are looked at |
| `IndexerRegistry!OpensOnce` | `NewIndexer` is never called for a manifest this process has open | `SecondLook_Skipped`: no double check |
| `IndexerRegistry!NoOrphan` | an open manifest has an indexer that can be found, or is being wired | `OpenFails_NotClosed` |
| `IndexerRegistry!ResetCovers` | nothing is published while `kb.reset` walks | `SecondLook_AmongReaders`: the writer does not wait for readers |
| `IndexerRegistry!ImplementsLazyTable` | each call of `getIndexer` decides at one instant: it makes the only indexer, fails to, finds the one there is, or is refused although there is one, and the last only if a call for the project has failed; `kb.reset` goes through exactly the indexers there are | `SecondLook_NoErrors`: the second look does not look at the remembered errors |
| `IndexerRegistry!EveryCallAnswered` | no failure leaves the lock taken | `OpenFails_NotUnlocked` |
| `HotReload!CacheFresh` | a cached runtime that no reload overtook is current or about to be thrown away | `Invalidate_OnlyAgents` |
| `HotReload!StopIsQuiet` | nothing is reloaded once `Stop` has returned | `StopCheck_NoWait` |
| `HotReload!NothingForgotten` | until a reload has read its directory, a reported change is in fsnotify, flagged, or about to be read by the loop | `Receive_Replaces`: one flag for both kinds |
| `HotReload!ChangeLoaded` | a reported change is looked at by a later reload | `Flush_ClearsBoth`: one flag's reload clears the other |
| `HotReload!StopReturns` | `Stop` returns | `EndFlush_NoReturn`: after the last reload the loop goes on |

Besides types, the type invariants say what the values mean to those who use them, and that is what
they are tried with:

| Type invariant | Says besides types | Bug that breaks it |
|---|---|---|
| `Execution!TypeOK` | an execution that is over has its context cancelled (`Released`) | `Release_NoCancel` |
| `SessionStore!TypeOK` | whoever is going to write `session.yml` holds `ioMu` (`Holding`) | `Truncate_Unlocked` |
| `MCPPool!TypeOK` | nobody asks, calls or stores a nil client (`Dialed`) | `CallLookup_Configured`: a configured server is taken for a connected one |
| `IndexerRegistry!TypeOK` | the lock has one writer or readers | `SecondLook_AmongReaders` |
| `Indexer!TypeOK`, `Scheduler!TypeOK`, `HotReload!TypeOK` | | `resetStaleProcessing_NewState`, `RunChdir_NoGetwd`, `LoadFails_Overlooked` |

### Why these bounds are enough to find what there is to find

The counters (`MaxVersion`, `MaxCrashes`, `MaxFires`, `MaxRestarts`, `MaxContent`, `MaxAppends`, `MaxFaults`,
`MaxConns`)
bound what the environment does and appear in guards, so liveness is checked without a state
constraint. A fault of the session store is a crash or a failed write; one is enough to break a file, and
what is done to a broken file needs no second. An expression that does not parse is given to the
job of `Scheduler_liveness` only: it keeps a row from being made, which the safety properties are
proved about anyway. The races are between two actors on one record, so a handler and the worker, two runs,
two messages of one client, three callers, two dials of a server, a
reload and a resolution reach them; one file and its directory give two
entries in the queue. Two handlers at once are left to the proofs: with edits and a crash they are
beyond TLC. That a crash spares the other sessions needs two of them, which is five minutes of TLC with
two callers and left to the proof too, and so is the reboot in `JobTable`. Old copies survive one other operation, a crash needs one restart to show
its leftovers. Three dials are the two that race and one that follows. Restarts of the registry need no
bound: they bring it back to few states. The safety properties do not rest on these bounds: they are proved for all values
(section 5). The liveness properties do.

`QuiescentDrain`, `EnabledScheduled` and `DisabledUnscheduled` have hypotheses about the future
(handlers fall silent, a job stays as it is, the watch goroutine has not been stopped or blocked).
They are not empty: every handler may stop calling at any time, and the mutants above violate
each of them.

## 4. Fairness

- **Indexer.** A handler that has begun (`ClientStep`) and the worker are goroutines the Go runtime
  schedules: weak fairness, for the worker without panics and without exit. `select` picks a ready channel at random,
  so a worker that waits again and again with both channels ready leaves in the end: strong
  fairness of `WorkerExit`. Starting a handler, `Stop`, edits, panics and crashes are never required.
- **Scheduler.** Weak fairness of the watch goroutine (its ticker fires) and of a run's own steps;
  `Ask` returns because its context has a deadline of five minutes; strong fairness of taking
  `execMu`, since `sync.Mutex` hands itself to a waiter that starved for a millisecond. Nothing is
  assumed of clients, of firings, of `Stop` or of restarts.
- **Execution.** Weak fairness of handler steps and of the deferred functions. `Finish` is fair
  only when the execution is cancelled: a run that nobody cancels may go on for ever.
- **SessionStore.** A call that has begun goes on (`Continue`). Nobody is required to call.
- **MCPPool.** A caller that has begun goes on: requests over http end in 30 seconds. The reaper is
  fair only while nobody uses the pool, since only then does everything grow older than its ttl.
- **IndexerRegistry.** Weak fairness of a call's steps (bbolt gives up a file lock after two seconds);
  strong fairness of taking `indexersMu`: a waiting writer keeps new readers out, and the readers that
  waited go before the next writer. Nobody is required to call, reset, restart or exit.
- **HotReload.** Weak fairness of `Start`, of the loop (its ticker fires, a directory is read in
  finite time) and of `Stop` once it was called. Handlers and resolutions are not required to go on.

## 5. Proofs

TLAPS proves the following from the named assumptions of each module (`ConstantsAssumption`: bounds
are natural numbers, null values are not members of the sets they extend, at least one file, job,
project and version) and nothing else. Each `Proofs` module has `InitIInv`, one lemma or step per action,
`Inductive == Spec => []IInv`, and the theorems below as consequences.

| Module | `IInv` | Theorems |
|---|---|---|
| `IndexerProofs` | `TypeOK /\ WorkerShape /\ HandlerShape /\ ProcessingOwned /\ NoLostWakeup` | `TypeCorrect`, `Owned`, `Wakeup`, `Refines` |
| `SchedulerProofs` | `TypeOK /\ OneCronPerEntry /\ CwdDiscipline` | `TypeCorrect`, `OneCron`, `Cwd`, `Refines` |
| `ExecutionProofs` | `TypeOK /\ RegisteredIsOwn /\ ActiveIsLive`; `Alone /\ Calling` | `TypeCorrect`, `Registered`, `Active`, `CalledFirst` |
| `SessionStoreProofs` | `TypeOK /\ Placed /\ Pending /\ MessagesKept /\ TornWhileWriting`; `Fresh` | `TypeCorrect`, `Kept`, `Torn`, `Refines` |
| `MCPPoolProofs` | `TypeOK /\ NoLeak /\ PooledAlive` | `TypeCorrect`, `NothingLeaks`, `PoolAlive`, `Refines` |
| `IndexerRegistryProofs` | `TypeOK /\ Locks /\ Fresh /\ NoOrphan`; `Making` | `TypeCorrect`, `OpenOnce`, `NoneOrphaned`, `ResetSeesAll`, `Refines` |
| `HotReloadProofs` | `TypeOK /\ Current /\ CacheFresh`, `Shape /\ StopIsQuiet` and `NothingForgotten`, in three parts | `TypeCorrect`, `CacheIsFresh`, `StoppedIsQuiet`, `NoneForgotten` |

*Indexer.* `ProcessingOwned` alone is not inductive: that the worker's write leaves no Processing
record needs that its copy says indexed or failed by then, that a panic's recovery writes failed,
and that the field `processing` names the worker's path at every step in between. `WorkerShape`
says that, and `HandlerShape` that a handler about to read a record has a file's path. Handlers cannot disturb it because none of the three things they write (pending,
enqueued, deleted) is Processing. `NoLostWakeup` rests on the order in `Enqueue` (move, then
notify) and in the worker (take the token, then look).

*Scheduler.* Types on the cron table are needed because a run takes its job from the row that
fires; the two properties are then inductive. The cron table has one row more than there are jobs,
enough for `addJob` to find a free one as long as each job has at most one.

*Execution.* The two registries are bounded by where each execution stands, and no strengthening is
needed for the invariants: every store happens before the goroutine starts, every delete after it
ended. An execution is over only by the deferred cancel, and nothing is uncancelled (`NextReleased`). `CalledFirst`, an action property, needs more, because calling and deleting are two steps and
`clientCancels` may change between them. `Alone`: the gateway runs one handler per client, and no
handler runs once the link is closed. `Calling`: from the step that calls until the one that
deletes, whatever is registered for the client has been called. Another handler cannot store there (`Alone`), and
what the deferred deletes and `message.cancel` do is only to remove. `Deletions` then goes through the
steps that change the map.

*SessionStore.* `MessagesKept` needs what is about to be written: between read and write the caller
holds `ioMu` (`Holding`), so what it will write (`new`) still has everything that must be kept
(`Pending`). The history variable `kept` loses what a call means to remove only when the write is
complete, and what a crash or a failed write destroys in the middle of a write; at any other step
they take nothing. `TornWhileWriting` names the sessions that were broken that way (`broken`), so it still
says something of all others after a fault, and of a broken one as soon as it is written again.

*MCPPool.* A client that is being stored has one owner and is not pooled, so storing it closes
exactly the one it replaces; whether the server is still configured does not matter to the argument.

*IndexerRegistry.* `Locks` tells from a call's next step which lock it holds. While a call is between
its second look and its end it is the only one there, so what it did not find is still not there
(`Fresh`), and with `NoOrphan` its manifest is not open. `ResetCovers` follows because publishing
needs the write lock and the walk the read lock.

*HotReload.* The three parts have nothing to do with each other. `Current`: a runtime being built that
nothing crossed holds what is loaded, so storing it preserves `CacheFresh`. `Shape`: how far
`Start`, the loop and `Stop` can be apart; a loop that has not begun has nothing pending, which is
why `Stop` may return without waiting for it. `NothingForgotten` is inductive with the types: the flag
is taken down in the step that has the loop read the directory, and what is reported in the meantime
waits in fsnotify. It is the safety half of `ChangeLoaded`.

*Refinements.* Each `Refines` shows, with the invariants above, that the first state maps to a first
state and every step to a step of the abstract specification or to a stutter.

- *Indexer, WorkQueue.* That the worker's write is the outcome of the one record claimed is
  `WorkerShape` and `ProcessingOwned`; that it writes a second one only as the failure with which it
  lets go is the order of the worker's steps.
- *SessionStore, MessageLog.* `Fresh` says that what a caller with `ioMu` is about to write is what it
  asked for applied to what the file holds now. The step that empties the file is where the call takes
  effect, the one that fills it where it is written down. A write that fails before it empties the file is a
  call refused, one that fails midway takes of that file only (`FailStep`); a crash at any other step
  finds no file that is being filled, so it must take nothing.
- *Scheduler, JobTable.* By `OneCronPerEntry` the rows of a job are the one its id names or none
  (`JobRows`), so `addJob` and `removeJob` schedule and unschedule in one step, and by `CwdDiscipline`
  the run that gives the directory back gives back the daemon's own.
- *MCPPool, ClientLife.* `Dialed` and `PooledAlive` make a dialed client new and a stored one its
  dialer's alone; the five places that close a client close what they take out of the pool (`CloseLife`).
- *IndexerRegistry, LazyTable.* `Making` says that what is being wired is not in the registry, and
  that a call about to look at the remembered errors has found an indexer, and that a walk has only
  entries still to go through: with `Alone`, which gives whoever opens or wires the registry for itself,
  publishing makes an entry that was not there while nobody walks, failing refuses a request for one
  that is not there, and a call that has found one is refused exactly when an error is remembered.

*Only model-checked.* The liveness properties (the prover has neither fairness nor `ENABLED`), and
the three violations, which are counterexamples. Every invariant and every action property that a
passing run checks is a theorem, and so is every refinement.

## 6. Where code and documentation disagree

Three runs state what a comment or document says, and TLC finds a behaviour of the code that does not:

1. `Indexer_StopEndsWorker`. "Stop signals the worker to stop gracefully" (`indexer.go:142`). With
   an entry enqueued, `processNext` refuses because stop is closed, `workerLoop` ignores that and
   dequeues the same entry again: the worker spins for ever.
2. `Scheduler_DeletedJobStops`. Deleting is "permanent" (`ref-automation.md:16`). The sweep of
   `reloadAll` locks `s.mu` twice: the watch goroutine stops for ever at the first deleted job,
   which keeps firing, as does every later change unseen.
3. `IndexerRegistry_GetReturnsIndexer`. "getIndexer lazily creates or returns an Indexer"
   (`daemon.go:643`). The error of a first attempt stays in `indexerErrors`. The next call does not
   look at it, makes the indexer and returns it; every later call finds the indexer and returns the
   old error. Two seconds of the old process still holding the manifest after a restart suffice.

The models contain more that a maintainer may want to know and that no run is spent on:

- **Indexer.** `manifest.go:139` and `:182` say iteration stops at the first enqueued record; the
  callback's false becomes a nil error for bbolt, which goes on, and the *last* record is taken, so
  files come before their directory and the order is reversed (`manifest.go:149`). "If it's
  Processing, skip" (`indexer.go:384`): the state is read in one transaction and the record deleted
  in another, and the worker claims it in between (`indexer.go:407`). The stat that dates a record comes after the content was read (`indexer.go:895`): a
  file edited in between is recorded as current with old chunks, and `Add` then skips it. A Failed
  record with unchanged mtime is skipped by `Add` as well (`indexer.go:226`). `kb.reset` while the
  worker indexes leaves a record Indexed whose chunks are gone, or chunks without a record
  (`handler_kb.go:457`). An `Add` during Processing is overwritten by the worker's write. A panic in a
  callback after the outcome was written makes an indexed record failed (`indexer.go:941`, `:678`). A panic
  or crash between storing chunks and writing the record inserts the chunks twice.
  `session.delete` stops an indexer and keeps it in the daemon's map.
- **Scheduler.** Neither `schedule.add` (`handler_schedule.go:52`) nor the Cron tool (`cron.go:135`,
  `:201`) looks at the cron expression. An enabled job whose expression does not parse is accepted,
  saved and listed, and never scheduled: `addJob` fails at each tick (`scheduler.go:132`) and
  `reloadAll` logs it (`scheduler.go:91`). `EnabledScheduled` is about jobs that parse. A scheduled job edited
  to be unparsable keeps its old row until the daemon restarts. The Cron tool's update brings back a job deleted meanwhile and overwrites the
  run counters (`cron.go:222`). `UpdateLastRun` decodes an old file without the migration and
  saves an empty prompt (`store.go:151`). An edited job keeps the prompt and time it was added
  with until the daemon restarts (documented in `ref-automation.md:60`). A job without a directory
  runs wherever the process is, even in another job's project (`daemon.go:1378`). The five minutes
  of a run start before it waits for `execMu`.
- **Execution.** "Cancel any existing execution for this client" (`daemon.go:1054`): the deferred
  delete of a superseded execution removes its successor's CancelFunc (`daemon.go:1147`), the third
  message finds nothing to cancel, and two executions of one client run. A session shared by two executions disappears from `activeSessions` when the first
  ends (`daemon.go:1138`). A session that fails to load leaves its CancelFunc registered. The
  properties of `Execution` allow all three: they say what holds in spite of them.
- **Session store.** The comment at `file_store.go:91` says `ioMu` protects all file I/O; `SetCursor`,
  `Create` and `GetMeta` are outside it. Lost counters and cursors, a project directory replaced by a
  blank one, a `meta.json` made of two writers' bytes and a deleted session whose directory comes
  back follow. A crash while `session.yml` is rewritten loses acknowledged messages: an empty file
  parses as no messages, one cut in the middle makes every later `Append` fail until
  `UpdateMessages` replaces it. A failed `os.WriteFile` does the same without a crash (`file_store.go:184`);
  the caller is told of its own call only. `Truncate` leaves cursor and message count behind; messages of one
  millisecond are deleted together. "Only one session per (agent, project_dir) pair"
  (`handler_session.go:220`): two calls of `session.create` both list before either creates.
- **MCP pool.** "RemoveServer disconnects" (`pool.go:86`): a dial that was under way stores its client
  afterwards, for a server that is gone, until the reaper finds it idle; after `CloseAll` nothing
  finds it. `Call` and `DiscoverTools` dereference nil when the client they connected is removed
  before they look it up again (`pool.go:176`, `:278`). `TestConnection` closes the client that
  calls of others are using (`pool.go:297`).
- **Registry of indexers.** `kb.reset` clears the graph of all projects and the manifests of those
  whose indexer was made since the daemon started; the others stay "indexed" with nothing in
  the graph, which is what `handler_kb.go:462-463` wants to prevent. The remembered error is read
  after the lock was released, while others may write the map (`daemon.go:648`). A project's entity
  definitions are applied when the worker runs already, and may overwrite newer ones that
  `entity_tags.save` applies meanwhile (`daemon.go:774`). `session.delete` stops the indexer
  other sessions of the project use (`handler_session.go:183`).
- **Hot reload.** "Cached runtimes are invalidated so they pick up the new config on next
  ResolveRuntime() call" (`app.go:388`): a runtime that was being built when the registry was
  replaced is cached after the invalidation, and is used until the next reload. `CacheFresh` excepts it
  (`crossed`) and says that no other stale runtime stays. Of two
  reloads that overlap the one that read first may publish last, and the older contents stay until the
  next change. A reload that fails is not tried again, and the tick of the loop forgets it.
  `Stop` before `Start` is done stops nothing, and the loop starts afterwards.

## 7. Not modelled

Inside the modelled components: queries, listings and statistics (they change nothing); ignore
rules, cost accounting, region summaries (no record's state depends on them); message contents,
titles, counters and the compaction cursor; `modify_files.yml`; wiring, start and shutdown order
of the daemon; time (a job may fire whenever it is scheduled, `Ask` may end at any moment) and of a cron
expression all but whether it parses. Whole components: see the table
of section 1. They are input and output without shared state, sequential, or vendored.

*JavaScript.* The implementation is Go, about 46 000 lines, and that is what the modules and the
line map describe. The repository's only `.js` files are in `runtime/web/assets`: the minified output
of the web interface's build and of third-party libraries (cytoscape, mermaid, KaTeX). Their
source is not part of the repository, their names and lines carry no structure to map, and nothing of the
daemon's logic is in them, so the map has no line of them and the share of JavaScript it covers is zero.

*Composition.* The modules are not conjoined into one specification. The components meet in single
calls under a lock of one of them, and a product of two state spaces of this size is beyond TLC; where one
component's step matters to another it is an action there.

## 8. Plan

The order follows what is most likely to be wrong and hardest to test.

1. **Done:** `Indexer`, `Scheduler`, `Execution`, `SessionStore`, `MCPPool`, `IndexerRegistry` and
   `HotReload` with their runs and invariant proofs; the refinements of `WorkQueue`, `MessageLog`,
   `JobTable`, `ClientLife` and `LazyTable`, checked and proved; the action properties of
   `Execution` and `IndexerRegistry`.
2. **Composition** of `IndexerRegistry` with an indexer reduced to `WorkQueue`: `session.delete` and
   `kb.reset` over several projects and a restart.
3. **Abstract specifications** of the two components without one: what a client sees of its executions, what
   `ResolveRuntime` may return while registries are replaced.
4. **MCP requests**: the stdio and SSE clients with pending requests, time-outs and process exits.
5. **Terminal manager**: terminals whose client has gone.
6. **Pure algorithms**: order of file versions against its reference (`file_version.go`), three-way
   asset synchronisation (`workspace.go`), over bounded inputs.

Safety and liveness of a component share a run where its size allows, so that the project stays at about a
dozen runs, each with a question of its own.
