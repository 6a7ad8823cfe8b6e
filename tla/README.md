# CodeGraph in TLA+

CodeGraph indexes a source tree into a SQLite graph of symbols and references,
keeps that index in step with the disk, and serves it to coding agents over MCP.
This directory models how the index is *kept* (who may write it, how an edit
reaches it, how a bulk run parses in parallel without losing a file, what
happens to edges when a file is indexed again), how it is *served* (one daemon
per project, its sessions, the proxy before it, the query threads behind it)
and how it is *walked*. The modules are translated from the code in `src/`,
model-checked by TLC and, for what matters most, proved by TLAPS for every value
of the constants.

Paths below are relative to the repository (`src/utils.ts`, ...).

## 1. Inventory

What each part keeps, does, talks to, and what makes it hard. "Module" names
the module here, or says *left out*.

| Part (code) | State | Operations | Hard behaviour | What makes it correct | Module |
|---|---|---|---|---|---|
| Database write lock (`utils.ts`, `FileLock`) | a lock file with a PID | `acquire`, `release` | every system call interleaves with other processes'; crashes; the staleness timeout | one holder at a time; a dead holder's file goes away | `FileLock` |
| Index gate (`utils.ts` `Mutex`, `index.ts`) | `locked`, `waitQueue`, the open database | `indexAll`, `indexFiles`, `sync`, `close` | promise wake-ups, calls that overlap, `close` in mid-work | whoever writes holds the file; no lost wake-up | `IndexGate` |
| File watcher (`sync/watcher.ts`) | `pendingFiles`, debounce timer, `syncing`, `lockRetryCount`, `degradedReason` | `start`, `stop`, events, `flush`, `degrade` | events during a sync, wall-clock stamps, retries, restart with a sync in flight | an edit is never silently missing; pending work has a trigger | `Watcher`, `StalenessPromise` |
| Per-directory watches (`sync/watcher.ts`, Linux) | `dirWatchers`, caps | `watchTree`, `handleDirEvent` | the disk changes between `fs.watch` and `readdir`; inotify limits | every directory is watched, no write is missed | `WatchTree` |
| Sync and bulk index (`extraction/index.ts`, `index.ts`, `db/queries.ts`) | the `files`, `nodes`, `unresolved_refs` tables | `sync`, `indexAll`, `indexFile`, `storeExtractionResult` | several transactions per file, crashes between them, stat against content | an edit stays detectable; a quiet sync ends exact | `SyncReconcile` |
| Parse pool (`extraction/parse-pool.ts`) | workers: pending, idle, in flight; queue; crash budget | `requestParse`, messages, exits, timeouts, `recycleAll`, `destroy` | late messages of removed threads, crash storms, throttled growth | no worker leaks, no promise is forgotten, no work is stranded | `ParsePool` |
| Bulk index loop (`extraction/index.ts`, `indexAll`) | window, `completed`, cursor `nextToStore`, errors | read batches, feed, `flushOrdered`, abort, two retry passes | out-of-order results, stores that throw, aborts | commits in file order, bounded window, every file accounted for, it returns | `BulkIndex` |
| Reference resolution (`resolution/index.ts`) | `unresolved_refs`, `edges`, the deferred list | `resolveAndPersist`, `resolveAndPersistBatched`, the second pass | loops that must shrink a table, deletes by key, two no-progress tests | no use is lost, a row goes when its edge comes, the loop ends | `Links`; which symbol a name means is left open |
| Edges between files (`extraction/index.ts`, `db/queries.ts`) | edges into a re-indexed file | cascade, re-attaching by name (#899), re-resolution of changed files | edges deleted with their target; files cut short | a caller in an unchanged file keeps its edge | `Links` |
| MCP daemon lock and registry (`mcp/daemon.ts`, `mcp/daemon-registry.ts`) | pid file, socket, registry record | acquire by `link`, clear stale, bind, register, stop | read–test–unlink, shutdown against a successor | at most one daemon; a live daemon's artefacts stay | `DaemonLock` |
| MCP daemon lifecycle (`mcp/daemon.ts`) | clients, idle timer, backstop, sweep | connect, hello, drop, reap, `stop` | a client in its hello phase, peers that die without a close | the daemon leaves when, and only when, nobody needs it | `Daemon` |
| MCP proxy (`mcp/proxy.ts`) | `pending`, `inflight`, daemon status | route, answer locally, re-serve | loss of the daemon at any point | exactly one reply per request | `Proxy`, `ReplyPromise` |
| MCP engine and sessions (`mcp/engine.ts`, `mcp/session.ts`, gate in `mcp/tools.ts`) | the open project, `initPromise`, catch-up gate | `ensureInitialized`, `retryInitializeSync`, `stop` | `stop` during an open, two opens, a catch-up that never ends | a call is answered, and not before the gate | `Engine`, run by `Daemon` |
| Query pool (`mcp/query-pool.ts`) | idle, starting and busy workers, a queue, timers per call | `run`, messages, exits, `destroy` | late messages are not filtered; retries; the crash budget | a call gets its own answer, and one | `QueryPool` |
| Graph walks (`graph/`) | the stack, `visited`, the answer | BFS, DFS, callers, impact, types, path, cycles | limits, two different visited tests, cycles of calls and of containment | equals reachability within limits | `Traversal` |
| `LRUCache` (`resolution/lru-cache.ts`) | a `Map` in insertion order | `get`, `set` | – | a miss costs time only | left out |
| Extractors (`extraction/tree-sitter.ts`) | `nodeStack`, `nodes`, `edges`, references | `visitNode`, `visitFunctionBody` and a dozen extractors | two walkers, each extractor decides who goes on below it; a throw in mid-walk | nothing is visited twice, each thing has its owner, no call is passed over unknown | `Extraction` over `Syntax`, for TypeScript; other languages, frameworks and text are left out |
| MCP read tools (`mcp/tools.ts`) | the node cache of each connection (`db/queries.ts`) | `execute`: await the rows, then the staleness notice | edits and syncs during the await; rows that another connection replaces under the cache | an answer warns of what it shows old | `ToolCalls` over `Watcher` |
| Context builder, search, tools' text (`context/`, `search/`, `mcp/tools.ts`) | none | scoring, formatting | – | – | left out: pure functions of the database |
| Watchdogs (`mcp/liveness-watchdog.ts`, `mcp/ppid-watchdog.ts`) | timers | kill or exit | – | – | left out; to the rest they are crashes |
| Telemetry (`telemetry/index.ts`) | one queue file and choice per user, claims by PID, lines in memory | record, flush, recover claims, exit, on/off | processes interleave on files without a lock; crashes with a claim on the disk; answers that get lost | a line is sent once, none gets lost, off is off | `Telemetry` |
| CLI, installer, git hooks, upgrade, reasoning client, site | files edited by a command | – | – | – | left out: I/O with no promise about order |

How the modelled parts interact:

```
 agents ──> Proxy ──socket──> Daemon ──> Engine (gate) ──> QueryPool ──> Traversal
              │ none answers     │ DaemonLock decides which process is the daemon
              └─> in-process     │ opens the project
                                 ▼
 disk events ──> Watcher (WatchTree feeds it on Linux)
                   │ debounce / retry timer
                   ▼
 CLI, MCP ──> IndexGate: promise mutex, then FileLock
                   │ one operation at a time
                   ▼
          sync / indexAll: SyncReconcile (what is stored), Links (what is joined)
                   │ indexAll only
                   ▼
          BulkIndex (window, order) ──> ParsePool (threads)
```

Each module takes its neighbours as their interface: the watcher's sync
succeeds, is refused the lock or fails; the gate makes the system calls of
FileLock (by `EXTENDS`); SyncReconcile is the one operation the gate lets run, with a single file
in hand; BulkIndex is composed with ParsePool itself, and Daemon with Engine,
by `EXTENDS`. Proxy has the daemon as a peer that takes lines, works, replies
and may vanish; Daemon has the proxies as connections that open, say hello and
close.

The hazards of the code, each with its line, the properties that cover it and
what they leave out, are the `hazards` of `PROJECT.json`.

## 2. Modules and code

| Module | Code | State and actions |
|---|---|---|
| `FileLock` | `utils.ts` 220–347 | `file` is the lock file with its creator, PID and age; `syscall[i]` the system call an object is at. One action per call: `Exists, ReadPid, Stat, UnlinkStale, UnlinkAgain, Create, WritePid` for `acquire`, `Release, RelRead, RelUnlink` for `release`; `Age` is the two-minute timeout, `Crash` the death of a process. Objects of one process share its thread (`HasThread`). |
| `IndexGate` | `utils.ts` `Mutex`; `index.ts` `indexAll`, `indexFiles`, `sync`, `close` | Extends `FileLock`: each object of the gate has one, staleness timeout and empty file included. `locked`, `queue` are the mutex; `pc` the call's place. `Call`/`Wake` are `acquire()` before and after its await; `TryFileLock` and `Locks` make the first and the further system calls of the file lock, `Refuse` is the catch block, `GiveBack`, `Unlocks` and `Finish` the `finally` (`YieldsAtOnce` that of `indexFiles`), `Leave` the release function. `Close` and `CloseGoesOn` are `close()`, which may come at any time; `Die` is a process's death. |
| `Watcher` | `sync/watcher.ts` | fields of the object, plus the sync in flight per file (`progress`). A stamp is only ever compared with the start of the sync in flight, so an entry is `before` or `after` it: no counter, any number of edits, syncs and restarts. `OtherStores` is the sync of a git hook, of the command line or of the engine's catch-up. |
| `StalenessPromise` | what the tools rely on | the abstract specification: a lagging file is flagged, or its event is on the way. `Watcher` implements it under the mapping in `Promise`. |
| `WatchTree` | `sync/watcher.ts` 400–600 | `walk` and `reading` are the recursion of `watchTree()` between its system calls, `watch[d]` is none, live or dead. The disk moves between any two calls; events wait until the walk is over. |
| `SyncReconcile` | `extraction/index.ts` `sync`, `indexAll`, `indexFile`, `storeExtractionResult`; `db/queries.ts` | `record` is the row of `files`, `symbols` the contents whose nodes are stored, `pend` unresolved references, `hand` the file being indexed. Each transaction of `storeExtractionResult` is an action; `Cut` is a crash or a statement that throws between two. |
| `ParsePool` | `extraction/parse-pool.ts` | the pool's fields; each handler is an action that ends in the operator `Drain` (grow, hand out, give up), as each handler in the code ends in `drain()`. `sent` holds the one message of a thread not yet delivered, of a removed thread too. |
| `BulkIndex` | `extraction/index.ts` 1190–1500 | `phase` is where `indexAll` awaits; `fed`, `arrived`, `cursor` are the window, `completed` and `nextToStore`. Continuations run before the event loop does (`Ripe`, `Awaiting`). |
| `Links` | `resolution/index.ts` 520–1000; `extraction/index.ts` 1694–1800; `db/queries.ts` | `symbols`, `edges`, `pending` are the tables, `deferred` the resolver's list. An operation is a `phase`: storing files (`StoreUpTo` says how far a store got when it was cut), `Resolve` after a sync, `Batch` until `NothingPlaced` or `NoProgress` after a bulk run, each a transaction for the edges, then `DeleteResolved` and `DeleteUnresolved` with theirs; `SecondPass`. `outcome` is what the resolver said of the rows in hand. `Cut` and `Die` are a throw and a crash, between any two transactions; `unswept` remembers (for the properties only) whose edge was in before the row went. |
| `DaemonLock` | `mcp/daemon.ts` 540–640, `mcp/daemon-registry.ts` | `pc[p]` is the file operation a candidate is at, `lock`, `sock`, `reg` the three artefacts, `seen` what it has read. `Stop*` is `codegraph stop` in a further process; `robbed` remembers (for the properties only) whose file somebody else removed. |
| `Engine`, `Daemon` | `mcp/engine.ts`, `mcp/session.ts`, `mcp/tools.ts`; `mcp/daemon.ts` | `Engine` has the calls: `ses[s]` is where a call awaits, `at[s]` the instance it serves from, `default` and `open` the instances. `Daemon` adds connections (`conn`, `peer`), `clients`, the idle timer and `stop`, and says which event comes next. |
| `Proxy`, `ReplyPromise` | `mcp/proxy.ts` | `pending`, `drain`, `inflight`, `serving` are where a request may be; `wire`, `working`, `back` the daemon's side. `ReplyPromise` is the abstract specification: a request said, one reply. |
| `QueryPool` | `mcp/query-pool.ts`, `mcp/query-worker.ts` | the pool's fields, `job[w]` in flight, `mail[w]` the thread's message under way; handlers end in the operator for `drain()`. The soft timer runs from `run()` on and may fire at any time or never (it has no fairness). `late` remembers the threads whose message came after their removal. |
| `Traversal` | `graph/traversal.ts`, `graph/queries.ts` 225–263 | a graph and a question are chosen at first; `queue` or `stack` is the walk, one action per row, rows in any order. |
| `Syntax`, `Extraction` | `extraction/tree-sitter.ts` (`visitNode` 1000–1290, `visitFunctionBody` and the extractors they call) | a syntax tree is chosen at first. `todo` is the stack of pending calls, each of the walker "visit" or "scan"; `nodeStack` says who owns what is met next. One action per node handed to a walker, the fields of Java's anonymous classes, which `extractField` takes, apart from the properties of TypeScript (`ExtractField`); `MaxNesting` is the depth to which a store call is searched for the object it returns (4 in the code). `Throws` is an exception, after which `extract()` returns what there is. |
| `ToolCalls` | `mcp/tools.ts` `execute`, `withStalenessNotice` | extends `Watcher` by one connection and one read call at a time: `cited` are the files whose rows the result holds, `old` those of them not on disk as shown, `cache` the nodes kept by `getNodeById`, `aged` those replaced under it. `thread` says whose connection it is; it decides which writes the cache forgets. |
| `Telemetry` | `telemetry/index.ts` | `queue`, `claim[p]` and `config` are the files, `pc[p]` the next call of a process on them, `mem` its counts and events, `air` the flush that awaits `send()`. `twice`, `gone`, `loose` and `moved` remember (for the properties only) which lines a race, a crash or a lost answer touched. |
| `MCWatching`, `MCSync`, `MCLocks` | – | have `IndexGate` and `Watcher`, `SyncReconcile` and `WatchTree`, and `FileLock` and `DaemonLock`, side by side, one of the two moving per behaviour. |
| `MCDaemon` | – | has the daemon's main thread (`Daemon`) and the pool of query threads (`QueryPool`) side by side, one of them moving per behaviour while the other is at its end. |
| `MCWalks` | – | chooses one of the two walks, `Traversal` or `Extraction`, per behaviour: they share no state and meet only in the database. |

`PROJECT.json`'s `map` gives the lines of every definition. `MC*` modules only
give constants their values; `*_proofs` modules hold theorems.

Definitions named for a mistake (`CreateOver`, `SurvivorsNone`, ...) stand beside
the action they would replace: each is a plausible bug, and the `mutants` of
`PROJECT.json` say which property notices it.

## 3. Runs

| Run | Shows | Size |
|---|---|---|
| `watching_live` | the gate, over every system call of its file lock, with crashes, the timeout and `close()` at any time: whoever writes has taken the lock and not given it back, and keeps a settled file until the timeout (the work of `indexFiles` excepted), one call of an object at a time, no lost wake-up, every call returns. The watcher: no silently stale file, flags that tell the truth, pending work with a trigger, the refinement of `StalenessPromise`, and that it catches up | 2 processes, 4 calls, 161 K; 2 files, 25 K |
| `toolcalls_safe` | an answer warns of what it shows old, whatever edits, syncs of the watcher or of others, look-ups and evictions come between its reads and its notice, on the main connection and on a worker's | 2 files, a cache of one, 1.1 M up to symmetry |
| `sync_safe` | an edit stays detectable, a sync in which nothing is written ends exact, symbols are those of the record, no reference is left for nobody. On Linux: every directory is watched or will be visited, no write is missed, the cap holds, while directories come and go during the walk | 2 files, 3 contents, 2.2 M up to symmetry; 4 directories, cap 3, 331 K |
| `bulkindex_live` | pool and loop together: no worker or job lost, growth not stalled, commits in file order, a bounded window, every file accounted for, nothing stored after an abort, `indexAll` returns | 3 files, 3 threads, 875 K |
| `links_live` | over syncs and bulk runs, some cut short: an edge joins a stored use and a stored symbol, no use is lost, no row outlives its edge unless a crash came between their transactions, unchanged callers keep their edges, and the operation ends | 2 files, 427 K |
| `locks_live` | the database's lock: a settled holder keeps it whatever contenders do, with crashes and the timeout; a dead process's file is removed by whoever keeps trying. The daemon's: two candidates nobody robbed are never both the daemon; a settled daemon keeps its pid file, socket and record; a project without a daemon gets one again | 3 processes, 139 K; 2 processes and a stop command, 203 K |
| `daemon_live` | the idle timer runs whenever no client is counted, a deserted daemon stops, no call runs on a closed index or slips past its gate, every call is answered; in the pool a result is the result of the call in hand, a call is in one place, waiting calls have workers, only late threads are misused, and without the soft timer too a call is on its way to its answer | 2 connections; 3 threads, 2 calls; 322 K |
| `proxy_live` | one reply per request, each request in one place, lines in order, the refinement of `ReplyPromise`, every request answered | 5 messages, 376 K |
| `walks_live` | each walk over the graph against reachability, shortest paths and strongly connected parts, for every order of rows; the extractors: no node visited twice or owned wrongly, and each call recorded unless it stands in a named place; both walks end | graphs of 4 nodes, trees of 4 and more, 755 K |
| `walks_hierarchy` | expects a violation: the type hierarchy of a class shows no class that extends it (section 5) | the same, found at once |
| `telemetry_safe` | a line is sent twice only after a lost answer, a crash or a named race; what is in the air is claimed on the disk; no line vanishes but in the named cases; who knows that telemetry is off queues and sends nothing | 2 processes, 2 lines, 2.6 M up to symmetry |
| `telemetry_choice` | expects a violation: a process that looked for a choice before there was one replaces `telemetry off` by the default when it first sends (section 5) | the same, found at once |

Invariants that together say that one thing is sound are one property of a run,
and its name says of what: `WatcherIsSound` is the type invariant with
`NoSilentStale`, `IndexingIsAbsorbed` and `PendingHasTrigger`; `TreeIsSound` with
`EveryDirCovered`, `NoMissedWrite` and `WithinCap`; `QueueIsSound` with `ClaimsAreKept`,
`NoneVanishes` and `OffIsOff`; `GateIsSound` with `OneCallPerInstance` and
`WaitersHaveWaker`; `StoredIsRecorded` with `SymbolsAreRecorded` and
`NoReferenceLeftBehind`; `PoolIsSound` with `WorkersAccounted`, `JobsAccounted` and
`PoolIsServing`; `FilesAccounted` with `StoredInOrder`, `GrowthIsDone`,
`WindowIsBounded` and `EveryFileAccounted`; and so on: each is defined as a
conjunction of its named parts, and each part has its comment.

### Bounds, and why they are enough

- `FileLock`: the races need a holder, a contender that has judged an older
  file, and a third process that creates one in between. No counter.
- `IndexGate`: three calls on an object give a holder, a woken waiter and a
  newcomer; a call in a second process contends for the file, judges it and takes it
  after the timeout or a crash. Calls are made once.
- `Watcher`: two files tell "this entry" from "another". Only `retries` counts
  (`MaxLockRetries` = 1: below, at and past the budget). `ToolCalls` adds one call
  at a time, again and again: a call changes nothing that another one reads but the
  cache, and a cache of one node makes two files hit, miss and drive each other out. Its run
  takes the two files as interchangeable (it checks no liveness).
- `WatchTree`: a chain and a fork (`root/a/b`, `root/c`), the cap below the
  number of directories. That the directories are a tree below the root is
  `WatchTreeAssumption`. A file stands for all source files of its directory.
- `SyncReconcile`: `MaxStat` bounds the writes to a file (4 and 2): an edit
  before, during and after an operation, and back to an old content. Contents
  are two that parse and one that does not. A file and a bystander are enough,
  as files meet only in the sets a sync collects.
- `Links`: a file that uses names and one that defines them, each in a few
  versions (a symbol moves to another line, is doubled, changes its name, goes
  away); one name whose row the keyed delete misses (`Aliased`) and one that only the
  second pass places (`Late`); batches of two rows; two writes, before, during or
  between operations.
- `ParsePool` in `BulkIndex`: two workers with one starting at a time, a third
  thread for a successor or a late message, crash budget 2, recycle interval 2,
  batches and window of 2 for three files: the window fills, a batch ends in
  mid-window, the budget runs out with work queued, a worker is recycled.
  `Threads` bounds only how many live at once, removed ones with a message under
  way included.
- `QueryPool`: the same shape with two calls: both may be under way, one may be
  queued behind a dying worker, retried once (`MaxRetries`), or left over when the
  budget of 3 crashes is spent.
- `DaemonLock`: a holder and a candidate, each of which may start over
  (`MaxTries` = 2) and be spawned again, with one kill and one stop command. Three
  processes make more than 26 M states, too many for a run of minutes; the
  theorems of section 4 hold for any number.
- `Daemon`: two connections, so that one may leave while the other is in its
  hello phase or waits for an open; at most two opens that arrive, and two that fail:
  before, between and after them, so that a call is asked with no instance, a first
  and a second one.
- `Proxy`: two calls, so that one may be answered while the other is lost, a
  probe, a local request and a notification around them; one poll without a daemon.
- `Traversal`: four nodes and at most four uses hold a diamond, a cycle with a
  tail and two disjoint cycles; containment is absent, a fork, a cycle, or below a node
  that is not where the walk starts.
  Sixteen questions: each walk, those with limits at depths below, at and above
  the longest way, both directions.
- `Extraction`: `MaxNesting` = 1, so that a store call within a store call is looked into and
  the third is not (4 in the code; the theorems hold for any). All files of four nodes, all continuations by five nodes of
  `export const x = create(…)`, and by four of a class (TypeScript's and Java's): each extractor stands
  below and above each other one at least once.
- `Telemetry`: a sender and a process that appends, recovers or dies beside it; an
  event and a count, which waits for its day to end. A file is a bag of lines in which
  two stands for many; each line is recorded once, a process has one flush under way,
  and the last process does not end. An hour passes between flushes, never
  within one, and one is enough (`MaxHours` = 1) for a queue or a claim to be old; with any number of
  hours the invariants hold too, in 3.7 M states.

`CHECK_DEADLOCK FALSE` is given where the system may really stop: processes all
crashed, calls all made, an index that returned, a disk nobody writes to.

### Fairness

- `FileLock`: a synchronous call runs to its end, and as long as a process is alive
  somebody tries for the lock again, as the watcher's retry timer and repeated commands do:
  one condition for all objects, not one for each.
- `IndexGate`: microtasks and system calls run, and the work of a call ends; a `close` that
  began goes on. That `close` or a new call is made is not fair.
- `Watcher`: timers fire, the OS delivers events, the clock moves, and a sync
  that began reaches each file and commits when it has stored everything. A
  failing sync is not forced to succeed: `CatchesUp` has as its premise that
  edits pause and failures stop (`Quiet`). `ToolCalls` states safety only.
- `BulkIndex`: weak fairness of the event loop as a whole: while something is due
  (a continuation, a start, a message, a timer) the loop does something. A parse
  may hang for ever (its timer is due), a thread that loads its grammars reports
  or dies.
- `Links`: an operation under way goes on; only its own statements hold it up.
- `DaemonLock`: a process that runs makes its next system call; a launcher that
  reaches no daemon goes on to start one; a daemon that no launcher reaches loses its clients
  and stops in the end; the stop command goes on. Kills are not fair.
- `Daemon`: timers fire, handlers run, an open ends, well or not. A catch-up sync
  may take for ever, and clients need not send anything or leave: it is the gate's
  own timer that must let their calls through.
- `Proxy`: the proxy's event loop runs; a session takes its lines and ends each
  call, or its connection breaks. Nothing makes a daemon start.
- `QueryPool` states safety only: `NoCallIsStranded` says that a call would get its answer
  without its soft timer, and in which cases it would not.
- `Telemetry` states safety only.
- `Traversal`: the loop goes on. `Extraction` has no liveness property: each of its steps
  takes the walk further down a finite tree.

### Running them

`tlc -workers 2 -config Links_live.cfg MCLinks`, and likewise for the
other configurations (each is named after its `MC` module without the `MC`; `Telemetry_choice.cfg`
is of `MCTelemetry`, and `Walks_hierarchy.cfg` of `MCWalks`, too);
`tlapm Proxy_proofs.tla` and likewise for the proofs. The largest run takes about three
minutes on two workers.

## 4. Proofs

| Theorem | Module | Says, for every value of the constants |
|---|---|---|
| `Typing`, `LockTyping`, `PoolTyping`, `LockTypeCorrect` | `Watching_proofs`, `Sync_proofs`; `Watching_proofs`; `BulkIndex_proofs`; `Daemon_proofs` | the type invariants |
| `SettledHolderKeepsLock` | `Watching_proofs` | `SettledIsStable` for any processes and objects |
| `NeverSilentlyStale`, `IndexingFlagIsTrue`, `NoLostWakeup`, `WatcherStaysSound` | `Watching_proofs` | the parts of `WatcherIsSound`, and all of it, for any files and retry budget |
| `WatcherKeepsPromise` | `Watching_proofs` | `Watcher` implements `StalenessPromise` |
| `EveryAnswerWarns` | `Watching_proofs` | `AnswersWarn` for calls made at any time, of any files, with a cache of any size |
| `MutexExcludes`, `GateStaysSound`, `WriterStaysLockHolder` | `Watching_proofs` | `OneCallPerInstance`, `GateIsSound` and `WriterKeepsFile` for any objects, processes and calls |
| `TreeStaysSound` | `Sync_proofs` | `TreeIsSound` for any tree of directories, cap and failures of the kernel, while no removed directory comes back (`DirsReappear = FALSE`) |
| `NoEditHides`, `StoredAsRecorded`, `QuietSyncsAreExact` | `Sync_proofs` | `EditsAreDetectable`, `StoredIsRecorded` and `QuietSyncIsExact` for any files, contents and number of writes |
| `NoWorkerLeaks`, `NoJobIsLost`, `NoWorkIsStranded`, `GrowthNeverLags`, `PoolStaysSound` | `BulkIndex_proofs` | the parts of `PoolIsSound`, and all of it, for a pool of any threads, jobs and budget, whatever its client asks |
| `PoolServesTheIndex`, `FilesStayAccounted`, `NothingAfterTheEnd` | `BulkIndex_proofs` | `PoolIsSound`, `FilesAccounted` and `AbortIsFinal` of the loop and its pool together, for any number of files, any window and batch |
| `EdgesStayBacked`, `RowsStayAccounted`, `CallersStayLinked` | `Building_proofs` | `EdgesAreBacked`, `RowsAccounted` and `CallersKeepTheirEdges` for any files, versions and batch size |
| `HoldersExcludeAlways`, `SettledDaemonKeepsAllAlways` | `Daemon_proofs` | `HoldersExclude` and `SettledDaemonKeepsAll` for any processes, attempts, kills and stops |
| `ClientsStayServed`, `GateIsPassed` | `Daemon_proofs` | `ClientsAreServed` and `CallsPassTheGate` for any connections and any number of opens, well or failed |
| `AnswersAreTheirOwn`, `CallsStayAccounted`, `NoneIsStranded` | `Daemon_proofs` | `AnswerIsItsOwn`, `CallsAccounted` and `NoCallIsStranded` for any threads, calls, size, budget and retries |
| `Accounted` | `Proxy_proofs` | `RequestsAccounted`: one reply per request, each in one place, in order, for any messages |
| `Implements` | `Proxy_proofs` | `Proxy` implements `ReplyPromise` |
| `WalkStaysSound` | `Building_proofs` | `ExtractionIsSound` for any syntax trees of any size, wherever a throw ends the walk |
| `CallsStaySeen` | `Building_proofs` | `CallsAreSeen`: of any syntax trees, a finished walk records every call and `new` outside of the parts it leaves out, and none within |
| `AnswersStaySound`, `WalksAnswer` | `Traversal_proofs` | `AnswersAreSound`: of any finite graph, any question and any order of rows, each answer in reach, exact or complete as far as its walk is, shortest paths, real cycles, and one for every tangle |
| `LinesAreSentOnce`, `QueueStaysSound` | `Telemetry_proofs` | `SentOnce` and `QueueIsSound` for any processes and lines, and hours without end |

Assumptions and arguments:

- `Watching_proofs`, the lock file. Only `FileLockAssumption`. `OthersGiveUp`: an object that
  reads a settled file finds a live PID and a young file, so each of its calls
  leaves the holder settled.
- `Watching_proofs`, the watcher. `NoSilentStale` and what depends on it assume
  `~CoarseClock`: the clock moves between the start of a sync and its first read;
  with `CoarseClock = TRUE` in `Watching_live.cfg` TLC shows that this is needed.
  `NoSilentStale` is not inductive: whether a commit may drop an entry depends on
  how far the sync is with that file (`IndexingIsAbsorbed`), and that on a stamp
  being "before" only while nothing has been read (`NothingReadYet`);
  `InstalledRuns` carries both over `stop` and restart. `NoLostWakeup` and `Typing`
  need no such assumption; they rest on `LatchInv`, that a degraded watcher stays
  stopped.
- `Watching_proofs`, the tool calls. To the watcher a call is nothing (`CallsLeaveTheWatcher`:
  `ToolSpec` implies `Spec`), so all that is proved of the watcher holds when the
  notice is made. `OldLags` says that what a result shows old still lags behind the disk
  then, unless `passed` has it; it rests on `OthersAged`, that a connection forgets what
  it writes itself. With the same `~CoarseClock`, for any size of the cache.
- `Watching_proofs`, the gate. `QueueInv` (a waiter stands in its own object's queue
  once and is nowhere else) and `MutexInv` (whoever is inside keeps the mutex
  locked) strengthen `OneCallPerInstance`. Each step of the gate is one of the lock or leaves
  it alone (`GateCallsTheLock`), so what is proved of the lock holds of the gate.
  `WriterKeepsFile` then goes by who may release: of a settled holder's ways to end its tenure
  the release is made by the call itself or by a `close`, after which it does not write, and
  a death ends the call too (`TenureStep`). What is left is the timeout. The work of
  `indexFiles`, which goes on after the lock is given back, is excepted.
- `Sync_proofs`. `StatOrder` (a stat in the record or in hand is never
  ahead of the disk's) and `HandInv` (the content in hand is the disk's for as
  long as the stat in hand is) strengthen `EditsAreDetectable`: a record whose
  stat equals the disk's then has its content. What is stored goes by where the
  operation is (`StoreInv`: `PhaseInv`, `SymbolsInv`, `ReferencesInv`), since the
  symbols and the record of a file differ between two transactions of its store.
  `QuietInv` says of a sync in which nothing is written which files are exact so
  far; at its end that is all of them.
- `Sync_proofs`, the tree of watches. `EveryDirCovered` follows from `Frontier`: a directory
  without a live watch has one above it, or is itself one, that the walk or an event
  is to visit. The way up ends because the directories are finite and a tree
  (`UncoveredIsApproached`). The premise that no removed directory comes back is the
  code's own limit: its dead entry in `dirWatchers` keeps `watchTree()` away
  (section 5), and TLC shows it with `DirsReappear = TRUE`.
- `BulkIndex_proofs`. Every handler of the pool changes it a little and then drains,
  so there is one lemma about `Drain` (`DrainStep`) and one small step per
  handler. `PoolInv` adds two facts: a worker that is not parsing has not reached
  its recycle interval (`Rested`), and `grammars-loaded` of a live worker comes
  from a starting one (`Heard`), or a late message would make a busy worker idle.
  Growth is behind by one worker at most when `drain()` looks (`Near`), as a handler
  brings at most one more to be wanted. The loop is one client of the pool: each of its
  steps is a step of `ParsePool` or leaves the pool alone, so the pool's
  invariant holds of the composition; `LoopInv` (what is fed, the cursor, what
  each file's fate is, errors, the database) is then preserved whatever the pool does.
- `Building_proofs`, the edges. An edge is backed because what made it is traced: each use of the
  table and each symbol belongs to a stored file (`SymbolsTraced`, `UsesTraced`), and a
  use is an edge, a row or deferred, in as many places as the operation's phase allows
  (`UsesAccounted`, `RowsServedOnce`, `DeferredInv`): between two transactions of a resolution
  it is an edge and a row (`Unfinished`), and stays both if the operation dies there. A store and a store that was cut
  replace a file up to some step (`Replaces`), so both are one lemma. That rows have
  a last one to resolve (`MaxIsElement`) comes from the well-foundedness of finite
  sets, without induction.
- `Proxy_proofs`. The places a request may be in hold pairwise disjoint sets of requests
  (`Distinct`), in the order in which they were said (`InTurn`); what each may
  hold goes by the daemon's status (`StatusInv`, `RemoteInv`, `DrainInv`), and a reply
  stands for what was said and is in no place any more (`AnswersInv`). The refinement
  follows step by step: a step that answers is a reply of `ReplyPromise`, any other
  a request or a stutter.
- `Telemetry_proofs`. A count: `Hand` is how often a process has a line to send, where a
  claim stands for its lines while nobody works on them, and else the lines in the
  air or to be appended again do. Each call of the code moves lines or is known to
  double or drop them (`Moved`), so that a line is in one place (`AtMostOnce`,
  `AtLeastOnce`) in spite of every interleaving. It needs that a claim which was read is
  as it was unless somebody is known to have moved it (`ReadInv`), and that the claim of
  a flush holds what is in the air (`Claiming`, `Flight`).
- `Daemon_proofs`. `HoldersExclude` compares two processes that share nothing
  but the pid file; `PidFileNamesHolder` says that the file names any holder nobody
  robbed, so that two would be named at once. A clearing step adds the owner to the
  robbed ones (`RobsTheOwner`). `SettledDaemonKeepsAll` goes by actions: a process
  that decides anew finds a live PID that is not its own and leaves.
- `Daemon_proofs`, the daemon. `LifeInv` joins the engine's instances to the daemon's life:
  until its server has closed, the default instance is open and so is the one a
  call serves from. `GateInv`: the gate is that of the default instance or has been
  passed, so a call that finds none comes after one that waited; it needs that no
  two opens ran at once (`~doubled`), and so does `CallsPassTheGate` itself.
- `Daemon_proofs`, the pool of query threads. As in the parse pool each handler ends in `drain()`,
  here with a lemma about what it leaves (`DrainIsDrained`): the calls handed out are
  the first of the queue, each to a thread of its own (`ServedPlaces`, `HandedOut`).
  `ThreadInv` says what a thread in each of its states may hold: a late one may hold the
  call it was given and nothing newer, so its message can answer no other's;
  `PlaceInv` that a call is in the queue or with one thread. `NoCallIsStranded` follows from
  these: queued calls have workers, and a thread that has a call will speak or be buried. It uses that
  `Threads` is finite: `Size` workers have to be counted.
- `Building_proofs`, the syntax. Only `TreesAssumption`, that each file is a syntax tree. The
  invariant is `Books`, kept between what is pending, the stack and what is recorded: the
  pending nodes do not overlap, none of them is known or has anything known in it, and
  the owners around one are the file and the declarations whose "leave" is still to come
  after it (`Anchors`). Handling the first of them keeps the books if what is walked of it
  lies below it in parts that do not overlap (`Fits`, `BooksKept`): one lemma for each way
  in which an extractor goes on, among them the three special cases of `extractVariable`
  (`DeclaratorFits`). The owner of what is met is then the greatest of the owners around it
  (`OwnerIsHome`). That a node has an innermost owner at all rests on sets of numbers having
  a greatest element, and nodes in source order on finite sets being countable in order
  (`GreatestElement`, `SortedExists`), which are proved by well-founded sets of subsets.
- `Building_proofs`, the calls. `Seen` is added to the books: every call is recorded, or
  lies in a part cut off by a node around it (`Skipped`), or is below a pending node; and
  nothing recorded or pending lies in a part cut off. An extractor keeps this if what it
  leaves to be walked and what it cuts are all there is below its node, and do not meet
  (`Follows`; the grammar gives a variable one child, and calls and functions between it and
  the object it returns, `ObjectBetween`). What is cut off depends on the walker: of a
  pattern it is the value at the top of a file only. So the invariant also says which walker
  is where: the body walker below something that is no statement, and `visitNode` in a class
  or below what declares nothing (`Outer`, `Guided`, `PlainAround`).

- `Traversal_proofs`. Only `AskedAssumption`: the graph is finite, and its rows lead to its
  nodes. The answers are measured by `Within(n, k)`, a recursive function. What it is for
  every `k` needs no induction over data: a sequence of growing sets agrees with each of its
  beginnings (`GrowthExists`), is the least one closed under a step (`GrowthLeast`), and stands
  still after as many steps as there are nodes, because a set of nodes that grows at each
  step has no room to (`AllFacts`). Each of these takes a least counterexample among
  the numbers. The invariant is `Kept`, a part for each way to walk, with `Shape` the types
  and `FramesApart` that no two frames are of one node:
  - `Walked`, of the recursive walks: a member of a visited node is visited, a neighbour is in
    the answer, or else it waits in that node's frame. A frame's node lies as near as its depth says
    (`GoodFrame`), and its depth is below its place in the stack (`FramesApart`), so a walk as
    deep as there are nodes is never cut. When the stack is empty nothing waits.
  - `Chained`, of `getAncestors`: what the answer lacks is above the last link.
  - `Searched`, of the two queues: the visited nodes can be given levels (`Layered`) such that
    the queue is sorted, its paths end on the last level or on the next, and each neighbour is
    visited, at most one level on, or at the end of a queued path no longer than that. A node's
    level is the length of the path it was reached by, so that length is its distance.
  - `PathKept` and `BfsKept`, of what they hand back: a queued path follows the edges, and each
    visited node but `Start` has one edge of the answer.
  - `Trailed`, of the cycle search: the stack is a path, each file a dependency of the one
    below it, so a file found on it closes a cycle of distinct files.
  - `Tangled`: a dependency is settled (`Settled`) when the file was done before the one
    that depends on it, is the next one on the stack, or lies with it on a reported cycle; others
    are rows still to take. Of the files of a tangle one is done first; the next one
    in the tangle was not done then, so a cycle is among the reports (`TangleReported`).
- `NearestAreComplete` turned out to ask too much while it was being proved. Of an impact it
  wanted all of `Within(Start, 1)`, where the members of what is one step away count too;
  the code does not enter a node met at the limit (`graph/traversal.ts` 506–508). TLC shows it
  where such a node is a container; no graph of the run had one, and now some have. The
  property now asks for the node, its members at any depth, and what any of these leads to.

Only model-checked: all liveness, which is out of the prover's reach. Every invariant that the
runs check is stated by a theorem.

## 5. What the models leave out, and what was noticed

Abstractions that a reader should know:

- `(size, mtime)` is one number that every write changes. An edit that keeps
  both is invisible to `sync` by design and outside `EditsAreDetectable`.
- A file that a sync passes over because it would not read or parse is
  `excused` from the watcher's promise. In the code its entry is dropped like any
  other once that sync succeeds.
- Resolution is one step of `SyncReconcile`; edges between files are in `Links`,
  where a store is one step that may be cut short.
- In `Links` a use resolves to any symbol of its name, or to none: how the resolver
  chooses is left out.
- The in-process fallback of `indexAll` without workers, progress callbacks and
  framework detection are not in `BulkIndex`.
- The watcher is one object that may be started again; `start()` returns true when
  the root's own watch fails with `ENOENT` or `EACCES`, and a directory that fails with
  `EACCES` later is skipped without a word.
- `DaemonLock` has no reuse of PIDs, and a rename or link is one step. `Daemon` is
  one process; `roots/list`, line parsing and the transport's buffers are not in it.
- In `Telemetry` the environment variables leave the decision to the file, and a claim is
  looked at and read in one step.
- In `Proxy` a daemon that vanishes loses what it has not sent; half a line is no line.
- `Extraction` knows a node of the graph by the syntax it comes from. Names, lines,
  texts, value references, interfaces, enums, type aliases, imports and decorators
  are left out, and so are the other languages (but for Java's anonymous classes).

### Where the code departs from what its comments say

Each of these can be seen with the models as described.

- Two holders of the file lock, against the class comment (`utils.ts` 220): the file
  is empty between its creation and the write of the PID. Check `MutualExclusion`
  of `FileLock`.
- `acquire()` is documented to throw when a live process holds the lock
  (`utils.ts` 235); after two minutes (247) it takes the lock from a live one
  too, and a bulk run may last longer. `WriterKeepsFile` ends where the file grows old (`Age`)
  and begins where it is settled: before its PID is written it may be taken as well. In both
  cases the robbed writer does not notice (`syscall` stays "held") and goes on, so two
  operations write at once: check that no two objects have a `Writing` call to see it.
- `indexFiles` returns its promise out of `try`/`finally` (`index.ts` 481), so the
  lock file goes back before the work is done. Drop the exception in
  `WriterKeepsFile`.
- Wall-clock readings that are equal or run backwards let the watcher drop the entry
  of a later edit (`watcher.ts` 773): `CoarseClock = TRUE` in `Watching_live.cfg`.
- A directory removed and created again keeps its dead entry in `dirWatchers`
  (`watcher.ts` 441): `DirsReappear = TRUE` in `Sync_safe.cfg`.
- The batch reader of `indexAll` reads a file and then takes its stat
  (`extraction/index.ts` 1320): an edit in between leaves the old content under the
  new size and mtime, and no later sync looks again (`raced` in `SyncReconcile`).
- `withStalenessNotice` looks at the pending entries after the awaited read
  (`mcp/tools.ts` 1224, 1379): rows of a file absorbed in between go unmarked, against
  "The rest of this response is fresh." (365). `AnswersWarn` excepts them.
- The node cache of a connection (`db/queries.ts` 186, 417) is dropped by its own writes
  only: a query worker may go on serving a node that the watcher's sync replaced, and the
  daemon one that a git hook's sync replaced, as long as its id (file, kind, name, line)
  stays; nothing is pending then, so nothing warns. `mcp/query-worker.ts` 15–16 says that a
  worker reader sees the main writer's committed writes. `passed` excepts it in
  `AnswersWarn`.
- `clearStaleDaemonLock` reads, tests and unlinks in three steps (`mcp/daemon.ts`
  559–561 speaks of never removing a live record): a slow candidate removes the record
  a faster one has just linked (`robbed` in `DaemonLock`).
- Two opens may run at once, or one outlive `stop()`, against the engine's "never
  double-open the SQLite file": the instance that arrives last is kept, the other, or
  the one after `stop()`, is never closed (`doubled` in `Engine`; `mcp/engine.ts` 213).
- `getTypeHierarchy` never reports descendants, but for those that are ancestors too: the
  walk down finds the node asked about in the `visited` of the walk up and returns at once
  (`graph/traversal.ts` 384, 402), against "Returns both ancestors ... and descendants"
  (`index.ts` 959–960) and `context/index.ts` 939–942. The run `walks_hierarchy` shows it;
  `WholeWhenDeep` asks of a hierarchy for all ancestors, and leaves open whether descendants
  are there.
- The walks that go deep first with a limit (`dfs`, `getCallersRecursive`,
  `getImpactRecursive`) leave out nodes within `maxDepth`: one reached at the limit by
  a long way is not entered when a short way leads to it later. They serve
  `mcp/tools.ts` 1697 and `bin/codegraph.ts` 1779. `NearestAreComplete` is what holds.
- A second full index would double edges, against "idempotent" in
  `resolution/index.ts` (around 870): `edges` has no unique key, and rows the second
  pass served stay (`Late` in `ResolvedRowsAreGone`). So do rows whose edges went in before a
  crash that came ahead of their deletion, which is another transaction (`resolution/index.ts`
  847 and 852, 938 and 943; `unswept`): the next pass over them inserts their edges again.
- A user's `telemetry off` may not last, against "Any of these works, permanently"
  (`TELEMETRY.md` 12–15) and "suppresses this permanently" (`telemetry/index.ts` 299–300): a
  process caches that there is no choice (`configCache`), and `firstRunNotice` of its first
  send, hours later, writes the default over the choice made meanwhile. The run
  `telemetry_choice` shows it.
- Concurrent processes can double-send (`telemetry/index.ts` 418): `appendLines` reads the
  queue and writes it, over a claim or an append in between (`twice` and `gone` in
  `SentOnce` and `NoneVanishes`); a claim keeps the queue's mtime, so that a fresh one may
  look stale and be recovered while its owner sends it.
- The arguments of an anonymous class's `new T(bar()) {…}` are never walked
  (`tree-sitter.ts` 1138–1142, 4240–4243), against "Children are still walked" (3799).
  `CallsAreSeen` names this and the other places whose calls are not recorded: the
  initializer of a top-level object literal outside its functions, a store call outside
  its functions, the value of a top-level destructuring pattern (2420), the wrapper
  call of a callable class field, and the call around a component's function. Calls in
  default values of parameters are not recorded either; parameters are not modelled. Nor are those in
  the initializers of Java's fields, which `extractField` does not walk (959–966,
  1882–1990).

### Noticed while translating, with no property of its own

Locks, syncs and the bulk index:

- `index.ts` 594–599 takes "no files and 0 ms" for a refused lock; the sync of a
  project without source files may look the same.
- When a store throws after `Promise.race` is over, the rejection has no
  listener; `indexAll` then returns success and the file is neither stored nor
  reported (`lost` in `BulkIndex`, excepted in `EveryFileAccounted`). When it does make
  `indexAll` reject (`extraction/index.ts` 1266), parses in flight go on committing
  after the lock is given back.
- A stat or a store that throws in a retry pass rejects `indexAll` and leaves the
  pool's threads running. An abort during the retry passes returns success.
- A file cut short after its nodes were stored, and then deleted from the disk, leaves
  nodes for good: it has no record for a sync to remove.
- Of two symbols of a file with one kind and name, the last gets the incoming edges of
  both when the file is indexed again (`extraction/index.ts` 1759).
- `recycleAll()` and `onWorkerGone()` start workers past `MAX_CONCURRENT_SPAWN`,
  which only `drain()` respects. A worker that hangs while it loads grammars has no
  timeout. A rejection that starts with `Worker error:` is not retried; one that says
  the worker exited is.
- Every event re-arms the debounce timer and there is no maximum wait: edits that
  never pause for `debounceMs` keep the sync away (`CatchesUp` has the pause as
  its premise).
- A file of a new directory that is written, indexed by an unrelated sync and
  deleted before the directory's watch is installed stays in the index until the
  next sync (`NoMissedWrite` speaks of files that exist).
- The batch loop breaks when a batch resolved nothing, though its rows were deleted
  (`resolution/index.ts` 977–981): later rows stay pending.

Daemon, proxy and queries:

- `stop()` unlinks the socket last (`mcp/daemon.ts` 307), and `cleanupDaemonArtifacts`
  removes what is there whoever made it (`daemon-registry.ts` 118, 188): a successor that bound
  in between loses its socket.
- A session attached after `clients.clear()` keeps a stopping daemon alive until its
  client leaves; one whose peer died without a close keeps it for good.
- `freshen`/`reopenIfReplaced` (`index.ts` 206, `mcp/tools.ts` 1081) open the replaced
  database without a catch-up sync; what the watcher synced before that went to the
  unlinked file.
- `query-pool.ts` 214 puts a removed worker back among the idle ones; `spawnOne` runs past
  `MAX_CONCURRENT_SPAWN`; a worker that reports `ok: false` stays and never spends
  `CRASH_BUDGET`; calls queued when the budget is spent wait for their soft timer.
- The `limit` of the breadth-first walk is looked at between nodes: it may be passed, and
  found nodes may be left without their edges.

Extraction and the rest:

- Node ids are (file, kind, name, line): two declarations of one name on one line are
  one node, and a `contains` edge may lead from a node to itself (`tree-sitter.ts` 1183–1250).
- A throw during extraction returns the nodes so far with a `parse_error`
  (`tree-sitter.ts` 444–459); `ExtractionIsSound` says that they can be stored.
- `fileScopeValues` keeps the last of several values of one name (683–690); shadow pruning
  stops at `MAX_VALUE_REF_NODES`.
- `findExportedSymbol` marks a file as visited whatever name it looks for there, also when it
  turned back at the depth cap, and passes `default` through `export *`
  (`import-resolver.ts` 1831–1930).
- Telemetry: a long-lived process goes on sending after `telemetry off`. A second flush of a
  process whose first awaits its answer renames over the first claim, and the first removes
  the second's (`telemetry/index.ts` 423, 308).
- The installer's `readJsonFile` overwrites an earlier `.backup` and goes on with `{}`.

## 6. Not modelled, and what could come next

- **Matching and synthesis** (`resolution/name-matcher.ts`, `import-resolver.ts`,
  `callback-synthesizer.ts`, `frameworks/`): thousands of lines of rules about names,
  paths and the conventions of libraries. Each is a decision over strings, without state
  that outlives a call; there is no reference definition to check them against but the
  rules themselves. `Links` takes their answer as any choice.
- **`LRUCache`**: a miss costs time and changes no answer.
- **Extractors of other languages and of frameworks**: the same walk with other node types
  and other tests on text; a foreign parser decides what they meet.
- **Context builder, search ranking, the text of the tools**: scores, budgets and Markdown,
  pure functions of the database.
- **Watchdogs**: timers that end a process; for the models a crash, which they have.
- **Project directory, configuration, worktrees**: look-ups of paths and files at each use.
- **CLI, installer, git hooks, upgrade, reasoning client**: commands a user runs once, made of
  prompts, HTTP requests and edits of files that are not the index.
- **The rest of telemetry**: the worker at the other end, the cap on the queue's size
  (`telemetry/index.ts` 407), `telemetry on`, two flushes of one process at a time.
- **Site, documentation, scripts, evaluation**: not part of the running program.

What could come next: more kinds of declarations in `Extraction` (interfaces, enums, aliases,
imports); the walk along re-exports (`findExportedSymbol`) against reachability; the
look-ups that join two walks (`getCallGraph`).
