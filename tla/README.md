# loctx in TLA+

loctx is a local code-context daemon. It discovers projects, chunks and embeds
their files, keeps the result in two stores, follows edits with file watchers,
enriches files with background analyzers, and serves searches over MCP, HTTP and
a CLI. This directory holds TLA+ models of its concurrent and crash-prone parts,
the TLC configurations that check them, and TLAPS proofs of what matters most.
Everything is translated from the source under `src/`; `PROJECT.json` maps each
definition to its lines.

## Inventory

### Runtime

| Component | Code | State | What is hard | What makes it correct |
|---|---|---|---|---|
| Indexer | `indexing/indexer.ts` | a mutex per file id, calls at an await | calls overlap at every await; two stores without a common transaction; crash between writes; `deleteFile` takes no mutex | a files row that says "up to date" is backed by the chunks and vectors of that content; no two writers of a file; no mixed generations in a search |
| State store | `storage/state.ts`, `sql/state.sql` | SQLite: projects, files, chunks, FTS, references, links, enrichments | statements of one call, several processes, patterns made of user text | tables join, no orphans, queries return what their text asks for |
| Its schema | `storage/state.ts`, the ladder in `state.sql` | `user_version`, tables | sections run statement by statement, crash between them, downgrade | a schema at version n has what versions 1..n define |
| Bookkeeping | `usage.ts`, `state.ts` | request log, health history, totals | caps that change, concurrent scorers, deferred writes | the newest are kept, totals add up |
| Vector store | `storage/vectors.ts`, `container.ts` | a LanceDB table, the writer queue, the `ready()` promise, maintenance status | first use by several calls, a rejected open, compaction beside writes | writes apply in order, a failing one releases the queue |
| Reconciler and passes | `indexing/reconciler.ts`, `start.ts`, `api/ops.ts`, `lib/rebuild-tracker.ts` | `running`, `current`, `rebuild_pending_at`, jobs | four passes overlap; crash in a rebuild; who clears the marker | what a pass skips is complete; a marker is resumed; rebuilds of a project exclude each other |
| Analyzer queue | `analyzers/queue.ts`, `container.ts` | waiting tasks, in-flight ids, dedup records | the sink re-enqueues from inside a settling task; restart loses the queue | a task id is outstanding once, no slot idles, degraded results are replaced |
| Health scheduler | `analyzers/health-scheduler.ts` | timers, running, dirty | a call during a run, close during a run | a change is scored later; nothing runs on a closed store |
| Watcher | `watcher/service.ts` | pending timers, in-flight keys, cached filter | events meet calls, timers, rule changes and the cap | no change is forgotten; the index converges to the disk |
| Activation | `api/projects.ts`, `watcher/registry.ts` | active flag, registry, `activating`, controllers | requests overlap at the watcher's start and stop | one watcher, an abortable pass, a truthful job |
| Daemon lock | `daemon-lock.ts` | the PID file | file system steps of several processes, crashes | at most one daemon on a data directory |
| Daemon's life | `apps/cli/src/start.ts` | what is open, the loop, drains | parts that hang at shutdown, signals twice, a pass timer | it ends, nothing runs after the stop, the lock covers the store |
| Live configuration | `start.ts`, `api/config.ts`, `api/tools.ts`, `container.ts` | the live object, probes, fills | files indexed while an analyzer is switched on | an analyzer gets every file |
| Models | `models.ts`, `trusted-models.ts`, `network.ts`, `model.ts` | a table per model, consents, the outbound gate | switching back and forth; downloads that overlap | what is skipped is found; no fetch without consent |
| Embedding provider | `embeddings/local.ts` | one session, batches | first calls and `dispose` overlap | one session, vectors in order |
| Retrieval | `retrieval/` | none | stores in different generations, ties, duplicates | each chunk once, in score order, filters hold |
| Chunking, symbols | `chunking/` | none | size limits, overlaps, degenerate input | every line is covered, definitions are found |
| Discovery, filtering | `discovery*.ts`, `filtering.ts`, `gitignore.ts` | a cache | nested roots, negated rules | a secret or ignored file is never indexed |
| Analysis | `analyzers/` | findings, suppressions, baseline | incomplete inputs, caps | a score counts what was measured, a baseline only shrinks |
| Configuration | `config*.ts` | the file | two tables of the same settings, precedence | what the editor writes the daemon loads |
| Agent setup | `agent-setup/`, `cli/lib/agent-setup.ts` | editors' files | files of other programs and of the user | what is the user's stays |
| Doctor, tools | `doctor.ts`, `tools.ts` | tools' directories | checks that throw, installations that stop half-way | a report says what is there, an installation that says it worked left a tool |

### Fronts

| Component | Code | Note |
|---|---|---|
| CLI | `apps/cli` | commands that ask a daemon or do the work themselves; `start` runs the daemon |
| MCP server | `apps/mcp`, `web/server/mcp.ts` | tools over stdio and over HTTP, logging, faults, shutdown |
| HTTP server | `apps/web/server` | operations above, read-only routes, event streams |
| Admin UI | `apps/web/client` | fetches, an event stream, query pages, badges |
| Evaluation | `packages/eval` | offline ranking metrics, a sandboxed runtime |

### Interactions

The watcher, the reconciler and every operation call one shared indexer. The
indexer writes SQLite and then LanceDB, then stamps the row, and calls
`afterFileIndexed`, which feeds the analyzer queue; the queue's sink stores an
enrichment and asks the health scheduler for a score. A rebuild wipes both stores
and walks the project while watcher and loop keep going. Activation starts a
watcher and a walk; deactivation stops them. The lock keeps a second daemon
from all of this. Everything in one process shares an event loop: code between
two awaits is atomic, and an action of a model is such a stretch. The stores and
the file system are the only state that outlives a process.

`PROJECT.json` lists the hazards, each at the line where it bites, with the
properties that would see it go wrong.

## Modules

| Module | Models | Run | Proved in |
|---|---|---|---|
| `Indexer` | calls of the indexer over both stores | `stores`, `indexer_race` | `StoresProofs` |
| `Migrations` | opening of the state store, schema ladder | `stores` | `StoresProofs` |
| `EnrichmentQueue` | analyzer queue, hook, sink, backfill, restart | `services` | `ServicesProofs` |
| `HealthScheduler`, `ScoringDuty` | debounced scoring and close; what it promises | `services` | `ServicesProofs` |
| `StateStore` | the tables under persists, deletes and purges, and their joins | `services` | `ServicesProofs` |
| `Ledgers` | request log, health history, usage totals | `services` | |
| `VectorTable` | the table's opening, writer queue, compaction | `services` | `ServicesProofs` |
| `ProcessFaults` | swallowed faults of the stdio server | `services` | |
| `LiveRefresh` | coalescer, event bus, stream, `useFetch`, shared requests | `services`, `reload_fresh` | `LiveRefresh`, `ServicesProofs` |
| `UrlQuery` | the query pages: form, URL, answers | `services` | `ServicesProofs` |
| `ProjectsView` | what the UI says of a rebuild | `services` | `ServicesProofs` |
| `ProjectPasses` | loop, refresh, rebuild, tracker, marker | `passes`, `passes_crash` | `ProjectPassesProofs` |
| `Watcher` | one project's watcher against a changing disk | `files` | `FilesProofs` |
| `Embeddings` | session, batches, dispose | `files` | `FilesProofs` |
| `AgentSetup` | plans and writes into the files of coding agents | `files` | `AgentSetup`, `FilesProofs` |
| `DaemonLock` | the PID file among processes | `daemon`, `lock_race` | `DaemonProofs` |
| `Activation` | activate, deactivate, registry, tracker | `daemon`, `activation_gate` | `DaemonProofs` |
| `DaemonLife` | boot, loop, watchers' registry, shutdown | `daemon`, `watcher_shown` | `DaemonProofs` |
| `LiveConfig` | analyzers switched on, tools installed, backfills | `daemon` | `DaemonProofs` |
| `ModelSwitch`, `ModelConsent` | tables per model; downloads and the outbound gate | `daemon` | `DaemonProofs` |
| `Commands` | a CLI command and the daemon it may find | `daemon` | `DaemonProofs` |
| `McpServer` | tool calls over both transports, logging, shutdown | `daemon` | `DaemonProofs` |
| `Chunking` | files to chunks, trees to references | `algorithms` | `AlgorithmsProofs` |
| `Eligibility`, `Workspace` | ignore rules and lists; projects below roots | `algorithms` | `AlgorithmsProofs` |
| `Retrieval` | search | `algorithms` | `AlgorithmsProofs` |
| `StoreQueries` | literal and suffix lookups, statistics | `algorithms` | |
| `Quality`, `ToolCalls` | rules, report, score, duplicates; inputs, `find_duplicates` | `algorithms` | |
| `Config`, `Evaluation` | schema, mergers, writer; measures, sandbox | `algorithms` | `AlgorithmsProofs` |
| `Doctor` | the health report; the installation of tools | `algorithms` | |
| `Absence` | the value of what is not there | | |

`MCStores`, `MCServices`, `MCFiles` and `MCDaemon` put parts that do not interact
into one run: `part` is chosen at the start and a behaviour is of that part only.
They EXTEND the modules that have proofs, each of which keeps its own variables,
pinned to one initial state and unchanged while another part runs: `MCStores` has
`Indexer` and `Migrations`; `MCServices` has `EnrichmentQueue`, `HealthScheduler`,
`StateStore` and `VectorTable`; `MCFiles` has `Watcher` and `Embeddings`; `MCDaemon`
has `DaemonLock`, `Activation`, `ModelSwitch`, `ModelConsent`, `Commands`,
`McpServer`, `DaemonLife` and `LiveConfig`. The remaining modules of `MCServices` and
`MCFiles` are taken with INSTANCE over a few shared variables (`v1` to `v15`, `u1`
to `u5`): `Books` is `Ledgers`, `Faults` is `ProcessFaults`, `Stream` and `Fetch` are
`LiveRefresh` twice, with one key and losses and with two keys and none, `Form` is
`UrlQuery`, `View` is `ProjectsView`, and `Setup` is `AgentSetup`. The lemmas about `LiveRefresh`
and `AgentSetup` are in those modules, for any keys, bounds, projects and agents, and
are cited of the instances. Where two modules are EXTENDED together, all but the first have their name
in the definitions that would clash (`MigrationInit`, `HealthSpec`, `TablesNext`,
`switchVars`, `LifeSpec`, `LiveNext`). A property's conjuncts
about a part hold in the pinned states too, so that the invariants are stated, and
proved, without reference to `part`. `MCAlgorithms` has the inputs of the pure
operators: the first step picks what the call is about, the second an operation
and an input, and an invariant compares the result with a reference definition.

A definition commented *Slip* is a plausible bug of the definition after it. No
specification uses one; `PROJECT.json` "mutants" names, for each property of a run,
one that breaks it.

### Indexer

`call[c]` is where an `indexFile` or `deleteFile` call awaits and what it holds
in its local variables. `chain[f]` is the `PerKeyMutex`, `vecQ` the `AsyncMutex`
of the vector store. `IndexFile` is the stretch up to the embedder's await,
`Embedded` the wait for the mutex, `ReplaceChunks` the SQLite transaction,
`VectorWrite` the moment a LanceDB write takes effect, `UpsertFile` the stamp.
`ChunksReject`, `PersistRejects`, `DeleteRejects` and `EmbedRejects` are the
error paths, `Crash` empties the process and leaves the stores. A `Text` stands
for a content, its hash, chunks and vectors at once. Retries of a read, symbol
references and the FTS table follow the chunks in the same transaction and are
not told apart.

### EnrichmentQueue

A task is an analyzer and a file with a hash. `Enqueue` is a batch of `enqueue`
calls with the drain each triggers, which together start what one drain at the
end starts. `Completes` is `runTask` from its await to the end of the sink,
`Finishes` its `finally`. Lizard is the only analyzer whose result affects
another, quality. A restart empties the queue and the dedup records.

### HealthScheduler and ScoringDuty

`timers`, `running` and `dirty` are the maps of the same roles; `Dispose` and
`Close` are `close()` of `container.ts` before and after its await.

`ScoringDuty` is what the rest of the runtime relies on, without timers and marks:
a project that changes is owed a score, a score starts of what is owed and of
nothing that is being scored, and the store closes when none runs and none will.
`KeepsDuty` is the refinement: `unscored` is what is owed, `running` what is being
scored, `store` the phase. `Reschedule`, the timers and `dirty` are stutters of it
or the abstract `Changes`; `Fire` is `Starts`. The abstract specification says
nothing of when a score comes; that one does is `ChangesAreScored`.

### StateStore and Ledgers

`StateStore` has a row for each fact the three searches join: pieces of text under
chunk ids, references, links, full text. A persist is two transactions with the
vector writes between them, and everything else may come in there; `torn` are the
files this leaves. After the stamp the links are a statement of their own:
`LinksCutOff` is a stop or a throw between the two, `unlinked` the files it leaves
stamped with links of an earlier content, which no pass looks at again. `Ledgers` has three machines that share only their database:
`LogNext`, `HealthNext` and `UsageNext`; what `setImmediate` defers is an action of
its own.

### VectorTable

`call[c]` is how far a call is, `chain` the `AsyncMutex`, `promise` the call that
made `openPromise`. `lance` are the calls inside the database, which settle in any
order but take effect when they run. `schedule` is the compaction timer, which asks
again when a pass is busy.

### DaemonLife, LiveConfig, Commands

`DaemonLife` is `start.ts` from the lock to the SIGKILL: each signal has a shutdown
of its own at `drain[s]`, each step of which may be given up at its timeout.
`LiveConfig` has the probe of a tool begun by an index hook, the backfill's
list and the await between them. What is probed and remembered is a command, not an
analyzer; a reload compares what is switched on, so that another command of an
analyzer that stays on is not backfilled (`missed`). `Commands` is one command: what `Looks` finds of
a daemon, who has taken on each part of the work (`byDaemon`, `byCommand`), and the
exit code.

### ModelSwitch, ModelConsent, Embeddings

A files row has the identity it was embedded under; each model has a table. `left`
are the rows that deletes under another model leave. A reset by the daemon and a purge
without one clear the vectors table by table and then, after an await, the rows:
`clearing` is what they still have to do, anything may come in between, and
`ClearIsCutOff` ends one there. `cut` are the files whose vectors went and whose rows
stayed: a pass skips them until they change or are cleared again. That
`/api/reset/project` deletes a project whose watcher goes on is left out. In `ModelConsent` the outbound
gate is per process and the file of consents is shared; `overwritten` are the
consents of one process that another's write lost. `Embeddings` is the provider: `session` has every
load, `pipelineP` the one the provider knows.

### McpServer, ToolCalls, ProcessFaults

A call is at its guards, its work, or its answer; what it logs is deferred. `there`
is the reconciler of another process's daemon, of which a stdio server knows what
the lock file says. `here` are the passes of the daemon's own reconciler and `running`
its one flag, which each end of a pass resets: `overtaken` are those that go on
without it. `ToolCalls` has a search's parsing, value by value, and
`find_duplicates` with its scan at the cap over both transports: of a smallest group
size above HTTP's clamp (`MemberClamp`) the two answers differ, below it they do not.

### LiveRefresh, UrlQuery, ProjectsView

Events are a sequence on its way to the tab; `Lost` drops it with the connection.
`sent` is the table of requests under way that `getJson` shares. `due` is the version
a component has to show once it has been told. `UrlQuery` has the URL, the effect
that follows it, and answers by sequence number. `ProjectsView` follows one rebuild
from the tracker through the row to the badge.

### AgentSetup

A shared text is a sequence of markers, templates' bodies and the user's lines. The
plan is computed, then the question is asked, and the answer writes what was planned.
JSON may also not parse, have a root that is no object or a section of servers that is
none, of which only the first is left alone; a file that cannot be read is planned for
as if it were absent, and may be written over.

### Pure modules

Lines, nodes, patterns and paths are sequences over small sets; a score is a whole
number in a unit in which the ranks' reciprocals are whole. Reference definitions
are stated from the outside: a line is in a chunk, git's own verdict on a path, a
table's groups, the set of files that hold a text.

Of a search's scope, `like` says which other directory a prefix with a wildcard also
stands for: the prefix is a LIKE pattern that nobody escapes. The caps of `Quality` are
constants (`MaxGroups`, `SemanticCap`, `GroupCap`, and of a file's findings an input):
the references say what is complete below a cap and that the widest are kept at it.
`Config` has sections that are present and empty, which load as `{}` but in which the
YAML library cannot set a key, so that the write fails and the file stays; that is
knowledge of the library, whose source is not in the repository. What `Evaluation`
leaves behind is nothing, or what the function that failed had itself taken
(`Leftover`).

### DaemonLock

Every action is one system call on the file or one look at the process table;
`proc[p].found` is the pid that was read last. SIGTERM makes a daemon drain or
die, a second one or the timeout kills it. Pids are not reused, and a process
runs once.

### ProjectPasses

`walk[x]` is where a walker (the loop, a refresh, a rebuild) is in its pass. A
file is committed in two steps, chunks and then vectors with the row; `Indexer`
has the steps in between. Contents do not change: the question is what a wipe,
a crash and overlapping walks leave behind. `job` is the `RebuildTracker`,
`pending` the `rebuild_pending_at` column, `running` and `current` the
reconciler's status, which every pass resets when it ends although another may
still run.

### Watcher

`raised` is what the operating system has yet to deliver, `pending` the debounce
timers in insertion order, `inflight` the running calls with what each will
leave in the index, computed when the call begins, which is when the code reads
the file. `reeval` holds the deletions a `reevaluateFilter` call has yet to make.
`index` is abstract: the content of a file's row. `RouteEvent` and `indexFile` ask
`shouldIndex`, which looks at the file: the event of one that is gone, too large or
binary is dropped, so that `deleteFile` is called only for a removal whose file is back
when its event comes; a content that is not UTF-8 or has no chunks (`Skipped`) leaves
the row it finds. The properties are therefore about new contents; rows of what is no
longer there wait for a pass.

### Activation

`entry` is the registry's watcher, `live` the subscribed ones, `request[c]` the
await a request is at. `Reactivate` is an activation that finds a watcher,
`Activate` one that starts one, `Attached` and `AttachFails` its two ends;
`Deactivate` and `Detached` surround the await of `stop()`. `Kickoff` is the
synchronous part that starts the background pass. `Reconcile` and `Rebuild` are
the passes of `ProjectPasses` as far as they touch the active flag and the job.

### Migrations

`proc[p]` is where a constructor is: between two rungs or at a statement of one.
`Opens` has the checks of `migrate()`, `Looks` the choice of a section, `Executes`
one SQL statement, `DuplicateColumn` the ALTER that throws, `SetsVersion` the end.
The ladder is a constant, so that the proofs hold for the rungs to come;
`MCStores` has the present one. `schema` is the set of tables, columns and
indexes; an index stands with its table unless a rung adds its column.

### History variables

Some guarantees hold except in named situations that the code accepts. A history
variable records exactly those situations, so that the property says both what
holds and what breaks it.

| Variable | Counts |
|---|---|
| `Indexer.suspect` | files that a cut-off or overlapped write left |
| `StateStore.torn`, `raced`, `unlinked` | files whose persist is not stamped; a purge that met a pass; files stamped without their links |
| `EnrichmentQueue.late` | files whose degraded quality row nothing replaces |
| `HealthScheduler.unscored` | projects changed since their last score began |
| `ProjectPasses.suspect` | projects whose rebuild was cut off between wipe and purge, or purged under a writing pass |
| `Watcher.missed` | paths that the code leaves to the next pass |
| `Migrations.cut` | statements that were next when a process stopped |
| `Activation.tangled`, `lost` | requests that overlapped or failed; watchers the registry lost sight of |
| `ModelSwitch.left`, `cut` | vectors that another model's deletes, or a pass during a clear, leave; files whose vectors were cleared and whose rows were not |
| `ModelConsent.overwritten` | consents overwritten |
| `LiveConfig.missed` | analyzers whose command changed while they were on, or whose tool came between two probes |
| `McpServer.overtaken` | passes that go on after another reset the flag |
| `DaemonLife.zeroed` | the interval has been 0 |
| `Commands.steady` | the daemon that was there is there still |
| `AgentSetup.stale` | files that a waiting plan has not seen, or not as they are |

## Runs

| Run | Instance | Shows |
|---|---|---|
| `stores` | 1 file, 2 calls, 2 contents, failures and crashes; 2 processes, 1 stop, the 11 rungs | one writer, one generation, stores agree outside `suspect`, calls end; a current version has the whole schema, old projects stay active, the store gets migrated |
| `services` | the parts of `MCServices`, each at its own bounds there | the queue's, the scheduler's and the tables' invariants, the refinement `KeepsDuty`, caps of the ledgers, the vector table, faults, and that pages end up showing what is due |
| `daemon` | 3 processes and one lock; 3 requests; a model switched, downloads, a command, a life of the daemon, an analyzer switched on or given another command, tool calls | at most one daemon, truthful activation, consents, one executor of a command, shutdown ends, every file is given to an analyzer, answers are recorded |
| `files` | 2 paths, cap 1, 2 re-evaluations, 2 changes; 2 embedding calls; Claude's files | no new content forgotten, convergence, one session, the user's text stays |
| `passes` | 1 project, 1 file, loop, refresh, 2 rebuilds, 2 faults | skipped files are complete, rebuilds exclude each other, markers are resumed |
| `algorithms` | every small input of `MCAlgorithms` | the pure parts agree with their reference definitions |
| `indexer_race` | 1 file, 2 calls, no faults | a delete that falls between the writes of a persist leaves a row that says up to date without its chunks |
| `lock_race` | 2 processes that start at once | two daemons |
| `passes_crash` | loop and 1 rebuild, 1 crash | a crash between wipe and purge is not recovered |
| `activation_gate` | 1 request, 1 watcher | a reconciliation re-activates a deactivated project |
| `watcher_shown` | 1 project whose watcher fails | a resumed watcher is shown as active and watches nothing |
| `reload_fresh` | 1 page, 1 URL | a reload after an operation shows the state before it |

A property of a run that covers several parts is the conjunction of what their
modules state, each for the behaviours of its part:

| Property | States |
|---|---|
| `SchemaIsTrue` | `VersionIsTrue`, `OldProjectsStayActive` of `Migrations` |
| `StoresProgress` | `CallsEnd` of `Indexer`; `IsMigrated` in the end |
| `FilesSettle` | `Converges` of `Watcher`; calls of `Embeddings` and `dispose` end |
| `EmbeddingsInOrder` | `OneSession`, `VectorsInOrder` of `Embeddings` |
| `UserContentKept` | `KeepsContent` at every step of `AgentSetup`, and `Restamps` |
| `SoleDaemon` | `AtMostOneDaemon`, `LockNamesDaemon` of `DaemonLock` |
| `ActivationIsSound` | `OneWatcher`, `ActiveIsWatched`, `PassCanBeAborted`, `JobIsTrue` of `Activation` |
| `ModelsAreConsistent` | `SkippedIsFound`, `OnlyLeftovers` of `ModelSwitch` |
| `ConsentHolds` | `OpenOnlyToDownload`, `NoUnaskedFetch`, `TrustedIsCached`, `ConsentStands` of `ModelConsent` |
| `CommandIsDoneOnce` | `OneExecutor`, `LeavesItToTheDaemon`, `ExitCodeIsTrue` of `Commands` |
| `LifeIsOrderly` | `LoopGoesOn`, `LockCoversStore`, `NoPassAfterStop` of `DaemonLife` |
| `EveryFileIsGiven` | of `LiveConfig`: an analyzer that is on gets every indexed file once its probe has answered, unless it is in `missed` |
| `ToolCallsAreTrue` | `AnswersAreRecorded`, `AdminOnlyWhileEnabled`, `ReconcilingIsTold` of `McpServer` |
| `DaemonProgress` | every start, stop and command ends, no project stays in `activating`, no job runs for ever, a signal ends the daemon and the stdio server |
| `QueueIsSound` | the type invariant, `OutstandingOnce`, `WorkConserving`, `DegradedUpgrades` of `EnrichmentQueue` |
| `ScoringIsOrderly` | `OneRun`, `NoScoreOnClosedStore` of `HealthScheduler` |
| `JoinsAgree` | `NothingLostInJoins`, `NoOrphans`, `LinksAreCurrent`, `PurgedIsEmpty` of `StateStore` |
| `LedgersAreKept` | the request log, the health history and the totals of `Ledgers`; `FaultsAreHeard`, `KeepsTheLatest` of `ProcessFaults` |
| `VectorStoreIsSound` | `OneTable`, `OneWriter`, `WritesInOrder`, `BannerEnds`, `CompactionGoesOn` of `VectorTable` |
| `PagesAreTrue` | the safety of `LiveRefresh`, `UrlQuery` and `ProjectsView` |
| `ServicesProgress` | tasks settle, changes are scored, closing ends, calls of the vector store are answered, what settled is announced, a lost connection comes back |
| `ChunksCoverFile`, `RulesDecide`, `SearchIsFair`, `QueriesAreExact`, `AnalysisIsHonest`, `SettingsAreLoaded`, `EvaluationIsFair`, `ToolsAgree` | the reference definitions at the end of each pure module, for the calls about it |

Why these bounds. Files of the indexer share only the vector queue, whose writes
name their file, and every race is between two calls on one file: one file with
two calls has all of them, and two contents tell an old generation from a new.
A pending cap of one makes every second path an eviction; two changes are a content
and a rule file, or a removal and its return, with everything that overlaps them. Two analyzers of which one invalidates
the other show the sink's re-enqueue; one slot makes tasks wait, two let the
analyzers overlap, and a restart may change from one to the other. The ladder is
the code's own; one stop leaves a rung half done, and a second process finds it.
Three processes are a daemon, one that replaces it and one that stops. Two rebuilds
and a refresh next to the loop give every pair of passes. Two requests race; a third
is needed for the two deactivations with an activation between their ends. Two
projects and four changes are a change during a run, one after it, and one of
another project. Two files of which one links to the other, and two contents, give a
stale link and a stale reference. Three calls of the vector store are one that
opens, one that shares its promise and a compaction. Caps of 0, 1 and 3 with six
requests are logs that are off, replaced and trimmed. Two models, one file and two
versions are a switch and a switch back, and a clear with a pass in it. One analyzer
that needs a tool, two commands and three changes by the user are a command changed
back and forth under a backfill; analyzers that need none, or that the reload does not
track, are in the theorem only. Two downloads in the daemon and one outside
overlap at the gate and at the file. Two losses of a stream are one while
connecting and one while open; one key is enough for those, and two keys, without
losses, for answers out of order. The bounds in the modules are named constants
(`MaxCalls`, `MaxFaults`, `MaxEdits`, `MaxActs`, `MaxStops`, `MaxVersion`, `MaxLosses`, ...),
each with a comment at its declaration; the inputs of the pure modules are the sets
and `Call...` actions of `MCAlgorithms`.

Deadlock is checked in `passes` and `algorithms`, which never come to rest. In the
other passing runs a part may: every process has run, the runtime is closed, edits and
requests are bounded and everything has been delivered, or a newer build's store is
refused for good.

### Fairness

Weak fairness on what the runtime does by itself, none on users, edits, crashes
and failures:

- promises settle and the event loop resumes their continuations: `Resume` of
  `Indexer`, `Works` of `EnrichmentQueue` (whose `withTimeout` settles every
  run), `Proceeds` of `Activation` and `Embeddings`, `Settles` and `Prunes` of
  `Watcher`, `Runs` and `Resolves(c) \/ Rejects(c)` of `VectorTable`;
- a load of a model ends, well or not (`LoadsEnd`); the release of a session may
  hang, and what ends `dispose()` then is its own timer (`Closes`);
- timers fire: `Fire`, `Fires`, `ScheduleRulesReeval`, `Reevaluates`, `Tick`,
  `Flush`; the steps of a shutdown have timeouts of their own, `Drains`;
- an EventSource that is opened is connected or closed in the end: `Connects`;
- a process that is scheduled takes its next step: `Steps` of `DaemonLock`,
  `Proceeds` of `Commands`, `ShutsDown` of `McpServer`; in `Migrations` also that
  somebody opens the store again, without which a store is not migrated and need
  not be.

In `ProjectPasses` a walk waits for mutexes that other walks hold in turn; they
are first come, first served, which is strong fairness of the walk's steps.

## Findings

Six runs end in a counterexample to what the repository says of itself.

- `indexer_race`: `deleteFile` takes no mutex. Its two deletes may fall between the
  first and the last write of an overlapping persist: the chunks, full-text rows and
  references are gone, the vectors and the row are written after, and the row marks
  the file as up to date, so that no later pass looks again.
- `lock_race`: a lock file is created and written in two calls; a second start
  reads it in between, takes it for garbage and removes it.
- `passes_crash`: a rebuild wipes the vectors, awaits, and then purges the rows.
  After a crash in between, the loop finds every row up to date, skips every
  file and clears the marker.
- `activation_gate`: `indexProject` marks what it touches active, so the loop,
  over its list from boot, and a refresh, over all projects, undo a deactivation.
- `watcher_shown`: `resume` makes an entry of the registry active whatever it was,
  and the failure of a watcher that never subscribed is no longer shown.
- `reload_fresh`: a GET joins one of the same URL that was sent before the
  operation whose effect it should show.

### Smaller divergences

Met while modelling, each at its line, without a run of its own. A definition in
parentheses states the claim in the module named; no configuration lists it.

- Watcher: the event of a removal is dropped, since the filter looks at the file first
  (`filtering.ts:334`, `service.ts:248`), and a content that is skipped leaves the row of
  the old one (`indexer.ts:197`); both rows stay until a pass, against `service.ts:2`
  (`Watcher!RemovalsArrive`).
- Indexer: links are recorded after the stamp; a stop between the two leaves a file
  whose links no pass records, against `indexer.ts:380` (`StateStore!LinksAreRetried`).
- Clears: a reset of a project (`ops.ts:183`) and a purge (`project.ts:308`) that stop
  after the vectors leave rows that every pass skips; `ModelSwitch.cut` has them.
- Configuration: a section that is there and empty loads as `{}` (`config-merge.ts:112`),
  but the writer cannot set a key in it, against `config-writer.ts:78`
  (`MCAlgorithms!AnySection`). The schema shows a default that the loader does not have
  (`config-schema.ts:8` and `config.ts:41`, `MCAlgorithms!ShownDefaults`); the editor
  keeps settings of names the loader ignores (`config-writer.ts:2`, `PartialAnyName`).
- Rules: a re-include in a nested file does not reach below an ignored parent as
  the comment says (`gitignore.ts:25`, `MCAlgorithms!NestedNegation`).
- Search: a scope of a directory whose name has `_` or `%` also finds what is below
  another directory that its prefix matches, since the prefix is an unescaped LIKE
  pattern in both stores (`fusion.ts:44`, `state.ts:739`), against "path-prefix subtree
  filter" of `searcher.ts:10` (`MCAlgorithms!SubtreeSearch`, `Lexical`); a scope of one
  file finds nothing (`searcher.ts:61`, `tool-definitions.ts:23`,
  `MCAlgorithms!FilesAreFound`); the prefix of `/api/find-literal` lacks the slash that MCP's
  has, so `src/a` also finds `src/ab` (`find-literal.ts:50`, `MCAlgorithms!Transports`).
- Duplicates: HTTP clamps the smallest group to 50 (`api/duplicates.ts:17`) and MCP does
  not, so that above it the surfaces differ (`MCAlgorithms!Surfaces`); of groups by
  embedding those past the 50 widest are left out unsaid, though the cap of the scan is
  told (`semantic-duplicates.ts:17`, `Unsaid`).
- Findings of a file are cut off at a cap in the order of the rules, so that lizard's
  long parameter lists can push a nesting out that was shown without them
  (`quality.ts:149`, against `quality.ts:32`, `MCAlgorithms!Upgrades`).
- References to lines beyond a window chunk are attributed to it (`analyzer.ts:52`,
  `MCAlgorithms!LinesOfRefs`); links that leave the root are reported stale
  (`quality-markdown.ts:136`, `MCAlgorithms!OutsideRefs`).
- Tools: an installation into a directory whose virtual environment was only half
  made fails at every retry, though the advice is to try again
  (`MCAlgorithms!Retries`).
- Rebuilds: one that fails leaves the marker, and the row says "rebuilding" until a
  pass comes by, whereas the bell says it failed (`use-notifications.ts:8`,
  `ProjectsView!StuckIsTold`).
- Agents: Windsurf's MCP file is user-wide, so a refresh writes a rules file into
  projects that were never wired (`api/agent-setup.ts:76`, `AgentSetup!NeverWires`).
  A stray marker makes the next refresh swallow the text between two markers, or
  every refresh append a block; a malformed `.mcp.json` counts as registered. JSON with
  a root or a section that is no object is written over, and so is a file that could not
  be read, against `writers.ts:6` (`AgentSetup!NonDestructive`).
- Evaluation: a corpus that git cannot check out leaves its directory, and a runtime
  that cannot be built leaves the index directory and three variables of the
  environment, against `corpus.ts:65` (`MCAlgorithms!TearsDown`).
- Models: the message that another model's index "will be rejected on the next
  daemon start" (`model.ts:84`) is not so: the daemon starts with an empty table for
  the new model. Rows of a deleted file stay in the tables of other models. Two
  processes that record a consent may lose one.
- Runtime: a failed load of the embedding model is kept until `dispose`
  (`local.ts:184`), and a call in flight at `dispose` loads a session that nobody
  releases. The first of two overlapping compactions resets `maintenance.running`.
- MCP: each pass that ends resets the one flag, so that "reconciling: false" is told,
  as authoritative (`registry.ts:95`), while another pass of the process goes on
  (`McpServer!FalseIsAuthoritative`).
- Analyzers: an analyzer that stays on and is given the command of a tool that works,
  or whose tool comes between two probes, is not backfilled, against `start.ts:100`
  (`LiveConfig!CatchesUp`).
- Daemon: `activeAnalyzers` knows neither "quality" nor "definitions"
  (`start.ts:100`), so switching them on queues nothing; a loop whose interval is
  reloaded to 0 never resumes; shutdown stops the watchers of boot time only.
- A delete of a project leaves its `file_enrichments` (`state.ts:383`).

## Proofs

`tlapm` checks them for every number of files, calls, processes, requests and
contents.

| Theorem | Says |
|---|---|
| `StoresProofs!TypeCorrect` | the type invariant |
| `StoresProofs!MutualExclusion` | `OneWriter` |
| `StoresProofs!SingleGeneration` | `OneGeneration` |
| `StoresProofs!CommitMarker` | `StoresAgree` |
| `StoresProofs!MigratedIsTrue` (`CurrentIsComplete`, `OldProjectsAreActive`) | `SchemaIsTrue` |
| `ProjectPassesProofs!RebuildsExclude`, `SkippedAreComplete` | `OneRebuild`, `SkippedIsComplete` |
| `ServicesProofs!QueueSafe` | `QueueIsSound` |
| `ServicesProofs!FreshKeeps` | what a burst of `enqueue` calls adds: nothing that is outstanding, and nothing twice |
| `ServicesProofs!ScoresInOrder` (`OneRunAtATime`, `ClosedQuietly`) | `ScoringIsOrderly` |
| `ServicesProofs!ImplementsDuty` | `KeepsDuty`: `HealthScheduler` refines `ScoringDuty` |
| `ServicesProofs!JoinsStayTrue` | `JoinsAgree` |
| `ServicesProofs!VectorStoreIsSafe` | `VectorStoreIsSound` |
| `ServicesProofs!PagesTellTheTruth` | `PagesAreTrue` |
| `ServicesProofs!LedgersAreTrue` | `LedgersAreKept` |
| `LiveRefresh!PagesAreCurrent`, `AnswersInOrder` | `ShowsWhatIsDue` and `OneSource`, and that answers are shown in order: of any keys, losses and bounds |
| `FilesProofs!TypeCorrect` | the type invariant of `Watcher` |
| `FilesProofs!NoChangeIsForgotten`, `ExcludedGoes` | `NothingForgotten`, `ExcludedIsPruned` |
| `FilesProofs!VectorsAreInOrder` | `EmbeddingsInOrder` |
| `FilesProofs!UserContentStays` | `UserContentKept` |
| `AgentSetup!MergesAreNonDestructive`, `RefreshRestamps` | `KeepsContent` at every step, and `Restamps`: of any projects and agents |
| `DaemonProofs!LockIsSound` (`OneDaemon`, `DaemonIsNamed`) | `SoleDaemon`, of `SoloSpec` |
| `DaemonProofs!ActivationSound` (`WatcherIsUnique`, `WatchedWhenActive`, `PassIsAbortable`, `JobIsTruthful`) | `ActivationIsSound` |
| `DaemonProofs!IndexSurvivesSwitches` | `ModelsAreConsistent` |
| `DaemonProofs!ConsentIsKept` | `ConsentHolds` |
| `DaemonProofs!CommandsAreSafe` | `CommandIsDoneOnce` |
| `DaemonProofs!ToolCallsAreSafe` | `ToolCallsAreTrue` |
| `DaemonProofs!LifeStaysOrderly` | `LifeIsOrderly` |
| `DaemonProofs!EveryFileGiven` | `EveryFileIsGiven` |
| `AlgorithmsProofs!RulesDecided` | `RulesDecide`, an instance of the next two rows |
| `AlgorithmsProofs!NestedIsGit`, `ProjectDecides`, `LastWins` (`SecretsOut`) | of any rules, names, paths and override files: `PositiveAsGit`, `ProjectHasLastWord`, `LastFileWins` (`SecretsStayOut`) |
| `AlgorithmsProofs!DisjointProjects`, `ListedOrAbsorbed`, `InsideAccepted` (`Partition`) | of any forest of directories: `ProjectsDisjoint`, `ResolvesToListed`, `AcceptedStaysInside` (`InventoryIsPartition`) |
| `AlgorithmsProofs!SearchesAreFair` | `SearchIsFair`, an instance of the next row |
| `AlgorithmsProofs!FusionIsFair`, `BestAreKept`, `ExpansionStaysBounded`, `DeepestIsSearched` (`LargestIsPicked`) | of any ranked lists, metadata, terms, users, forests and functions: `FusionIsMonotone`, `CutKeepsTheBest`, `ExpansionIsBounded`, `ScopeIsIndexed` (`PicksTheLargest`) |
| `AlgorithmsProofs!SettingsTakeEffect` | `SettingsAreLoaded`, an instance of the next row |
| `AlgorithmsProofs!WritesAreLoaded`, `OthersAreLeftAlone` | of any config file and any patch: `WrittenIsUsed`, `PatchIsPartialByName` |
| `AlgorithmsProofs!EvaluationsAreFair` | `EvaluationIsFair`, of which the next row is the part about measures and rot |
| `AlgorithmsProofs!MeasuresAlwaysAgree`, `RotNeverScores` | of any ranked list, judgements, cut and chunks: `MeasuresAgree`, `RotIsUnscorable` |
| `AlgorithmsProofs!EveryLineIsChunked`, `ChunksAreShort` | of any document and any windows: `EveryLineChunked`, and the length bound of `DefinitionsOnce` |
| `AlgorithmsProofs!EverySectionLineIsChunked` | of any markdown lines: the first part of `SectionsCover` |

**Indexer.** Mutual exclusion is not inductive: one must know that the calls in
the critical section are the heads of their chains, that no call is twice in a
chain, and that a call in a chain names that file. The stores' agreement is then
proved from what each position of a call implies for its file: cleared vectors
between `clearing` and `upserting`, its own text in the chunks throughout. A
delete that overlaps disturbs exactly that, and is in `raced` by then; the proof
shows that `suspect` misses no case.

**EnrichmentQueue.** `QueueInv` says that tasks waiting, in flight and settled are
apart and that no slot idles while a task waits (`Slots`). Of the degraded rows,
quality's that were made without the lizard row that is there: the replacement of
each is outstanding, or the file is in `late` (`Upgrades`). Two ways lead into `late`,
and the invariant follows both: a quality run that read before lizard's row came
(`ReadsLate`), and one that has settled and still has its slot, so that the sink's
re-enqueue of it was dropped (`SettledLate`). What the drain
starts is counted by cardinality of the id sets. `Fresh`, the batch that survives
the dedup test, is a recursive function over the batch; `FreshKeeps` is by induction
on its length.

**HealthScheduler.** From `dispose` on no timer is armed, nothing is dirty and
every run is one that `dispose` took stock of; then waiting for those is waiting
for all. For the refinement one more conjunct is needed, `ArmedForAChange`: while the
runtime is open a timer or a mark is of a project that changed since its last score,
so that a timer that fires is a score that is owed.

**DaemonLock.** The theorem is about one command at a time (`SoloSpec`); with
two, `lock_race` refutes it. The invariant says what a command knows while no
other is under way: who created the file it is about to judge, remove or release,
and that a pid it took for dead stays dead.

**Activation.** The activating set lets one request attach at a time and only
while nothing is registered; a request has no pass before it is done; a
controller that is kept is that of a running pass; a running job has one owner.
Each conjunct needs the others: that a kickoff aborts the only other running pass
rests on the controller, and that the job keeps its owner rests on the request
having had no pass.

`ActiveIsWatched` needs no more than that a request which is not `tangled` is the
only one at work: while one is, the flag and the registry may differ in the one way
that its position implies (`Untangled`), and they agree when it ends.

**StateStore.** `TablesInv` relates every table to the content each file was last
persisted with. A stamped row has the chunks, links and full text of its stamp
(`RowsAgree`, `RowsOfStamp`); a file that is not stamped is in `torn`
(`PersistsAreTorn`); rows of the other tables belong to a file (`NoOrphans`), and a
pass in flight to a project that is there or was purged under it (`PassHasProject`).
The joins are equal to their reference definitions in any such state
(`JoinsLoseNothing`). The links are those of the stamps, but for the files in `unlinked`,
whose links are those of an earlier stamp or none (`LinksOfStamps`).

**VectorTable.** Opening comes first: one call at most opens, it is the one that the
promise names, and nothing runs in the database before there is a table. The chain
then holds the calls that have not ended in the order they arrived, and only its
head is inside LanceDB (`Chained`). A write that is done precedes every one in the
chain (`DoneBefore`), hence a delete that takes effect is later than every upsert
done before it, which is `WritesInOrder`. The banner and the timer need only what
the compaction's position says of them (`BannerEnds`, `CompactionGoesOn`).

**LiveRefresh.** A request reads the state when the server gets to it, and its answer
may come after the page has turned to another key. Nothing the tab holds is newer than
the server (`NotAhead`), and a request that a component awaits is under way
(`Awaited`). What a request for the component's key has read is not older than what is
due to it, nor than what is shown of that URL (`ReadIsNew`); so that, once it awaits
nothing of its key and is not in error, what is due has been brought (`Brought`). The
second half of `ReadIsNew` is what `AnswersInOrder` needs. `OneSource` is by counting: one
EventSource is open or none, as `source` says.

**UrlQuery, ProjectsView.** `decode` inverts `encode`, and a trimmed query is encoded as
itself (`Codecs`). What the page shows, and every answer still to come that is the latest,
belongs to `lastFired`, and while the effect on the URL has run, `lastFired` is the encoding
of what the URL says (`FormInv`); so the effect fires again exactly when the URL asks for
something else. A rebuild under way has a job that is "running" and has no end, hence none
that the sweep of finished jobs takes away, whatever the clock says (`ViewInv`).

**Ledgers, ProcessFaults.** The log is an unbroken run of ids, so the newest n rows are
those that the cap says (`LogInv`). Of the history the oldest row kept has fewer than n
newer ones, and a new row comes after the latest; so neighbours among the rows kept were
neighbours before, and differ still (`HistoryInv`). The totals are sums over the
projects, by induction on subsets of a finite set, and what a request adds to the
projects it adds to the roll-up (`UsageInv`, `RollUp`). The map of faults is in the order
of their last occurrence, holds every signature that came later than one it holds, and
says of each when it came and was printed last; so what is evicted is the oldest
(`FaultsInv`).

**Embeddings.** Two invariants side by side. Of sessions: the one that the provider
knows has not been released, and all others have been or are about to be. Of calls:
the vectors a call holds are those of the first of its texts, in order, and no more
than the batches done so far, whatever `dispose` and other calls do in between.

**AgentSetup.** A text is kept by what the three merges do to it pointwise: a block in
the place of the pieces between two markers, or at the end (`SplicedIs`, `AppendedIs`).
That a line of the user is never between the markers of a tidy text is an invariant of
its own: a marker is followed by a body of loctx's (`Blocked`), which survives the
user's deletion of a marker and the swallowing of text between two, since neither takes
away what follows a marker that stays. What a command would write keeps what it
was planned for, until the file changes, and then the file is in `stale` (`CommandInv`).

**ModelSwitch, ModelConsent.** A row whose identity is the current model's has its
vectors in that model's table (`RowFound`), which the registry of tables knows
(`TablesRegistered`), unless a clear took the vectors first (`cut`); what else is in a
table is in `left`, and a table that a clear has been through has only what was indexed
since (`ClearingInv`). Of consent: the gate is
open only in a daemon that is up, and a daemon boots into a model that was asked for
(`GateOfRuntime`). What a download read of the file of consents before it writes is
cached, and still trusted or overwritten by another process (`ReadStands`, an
invariant per download).

**Commands, McpServer.** Until a part of a command has failed, every part before the
one in hand was done by the command or taken on by the daemon (`PartsCounted`); a
command of one part is done by nobody before it is asked for, and not by the command
once the daemon has it (`DoneByOne`); `steady` is history, and says that a daemon is
there (`Beside`). A tool call leaves one row, if the log is on, and a search that was
served its value; each is written or still deferred, never both (`Account`, per
call). Only the daemon reconciles in its own process and reads its config again, and
beside it there is no other (`ByTransport`); when its flag is down, every pass under way
has seen another end (`FlagInv`).

**DaemonLife.** While the daemon boots nothing loops and the lock precedes the store
(`BootInOrder`); after the stop no timer is armed (`NoTimerAfterStop`); an interval of
0 was noticed (`ZeroIsSeen`). `NoPassAfterStop` is an action property: with these, no
step after the stop begins a pass.

**LiveConfig.** Of every analyzer that is on, and was not missed, either a backfill is
to come or it is `Given`: its probe has answered, no probe under way will answer
differently, and if it runs every indexed file was queued. That a tool which was found
is there (`FoundIsThere`) is what makes the second conjunct hold. A reload under which
an analyzer that stays on gets another command makes it `missed` in the same step.

**Migrations.** The version is written at the end, so what makes it true is what a
process knows on its way up: the schema of the rungs below, what its section did
so far, and, with the fallback section, the columns it saw. The schema only grows,
so no other process takes any of it away. The proof is for any ladder in which a
fallback section makes up for what it skips ("Keep in sync with schema_v3") and
the update follows the flag at once; TLC evaluates both on the present ladder.

**ProjectPasses.** A rebuild under way is its project's running job, which is what
keeps a second one out until the first has ended, however it ends. Rows are
backed by both stores because a walk that is about to write a row has stored its
chunks, and nothing takes them away but a rebuild's purge, which makes the project
suspect when a pass is writing then; a rebuild that fails or dies between its wipe
and its purge makes it suspect too.

**Watcher.** That nothing is forgotten is not inductive: one compares the disk not
with the row but with what the call under way will leave in it. Then a timer whose
kind is out of date has a newer event behind it, an event that is on its way says
what is on disk, and the cached filter is what the rules say, unless a change of
the rules is on its way or the watcher has stopped. `Without` and `Put` keep one
entry for a path, which is what makes a map of the sequence.

**Eligibility.** Where no nested file re-includes, git's verdict on a path is "ignore"
if any layer above it says so (`GitVerdict`); loctx asks the same of the layers, in
another order, and finds the rule files of a directory only if the root's rules do not
ignore the directory, in which case nothing below it was to be decided (`NestedIsGit`).
What the override files leave of an entry is by induction over the files
(`MergeSpoken`).

**Workspace.** The dirs are a forest: each has a height that its parent's is less than.
`At(w, n, d)` is the dir `n` steps above `d`; `PathUp` is the way to a dir above and
`ResolveProject` the first dir on the way that has a marker (`PathIsWay`,
`ResolvesToFirst`, each by induction over the steps of its recursive function). The
three properties are then about numbers of steps: a project inside another would lie
past the other's marker, and of the markers between a path and its project the topmost
is the one that `FindAbsorbedMarkers` reaches. The theorems are of every workspace; the
calls of `MCAlgorithms` are of one tree, which is a forest (`TreeIsForest`).

**Retrieval.** A branch gives a chunk the share that its one rank there is worth
(`CreditIs`), and a better rank is worth more: each rank's denominator divides
`Unit`, so that the shares are compared as whole numbers (`FusionIsFair`). The
score is a fold over a list; what a fold returns is known from a recursive function
on the sets of indices that the fold goes through (`IsFold`). `ByScore` is a sort in
which each candidate is once, and whatever a cut of a sorted sequence leaves out is
no better than what it keeps (`ByScoreIs`, `BestAreKept`). Of a scope, that none of the
rows below its directory is left out is proved for any wildcards (`DeepestIsSearched`).

**Config.** The writer's schema and the loader's mergers are two tables, and the
theorems are that they agree row by row: what the schema accepts of a field the merger
of that field accepts (`KnownFields`, `KnownLeaves`, `ValidIsAccepted`), and a patch
that can be set changes of the file the places it names (`SpotAfter`); no section it
goes into is left empty (`BareAfter`), so that the file still loads (`StillLoads`).

**Evaluation.** That nDCG is at most one is an exchange argument: at each rank the
judgements that the list has had are no more than what the ideal order has had of
them (`HadIsBounded`), and since a later rank weighs less, the gain of the ideal order
stays ahead (`WalkIsFair`, `StaysAhead`).

**Chunking.** The windows of n lines reach line n because the number of steps is
rounded up (`DividedBy`, `WindowsCover`). A line that no chunk has lies before some
node, or the end, and after all earlier ones; the first such place is a gap that
`Gap` did not cut, so it is below the threshold, and what no node interrupts around the
line is inside it (`CursorIs`, `GapIsCut`, `FillKeeps`). The cap drops no line that is
not empty (`CutKeepsLines`), and what it leaves whole is short or fits in one window
(`CutIsShort`). A document is only assumed to have its nodes within its lines
(`IsDocument`): they may overlap and be in any order. Of markdown, after each line the
sections told so far end there and have every line up to it, or there is none yet
(`ToldUpTo`, kept by `ScanUpTo`).

Every action has a lemma that it preserves the invariant; the theorems only put
them together. What the prover is asked for at a leaf fits in a third of its default
time.

Assumptions: the `ASSUME`s of the modules. Most say that special values differ from
one another and bounds are natural numbers (`ContentAssumption`, `RowAssumption`,
`WatcherAssumption`, `EmbedAssumption`, `TablesAssumption`, `VectorAssumption`,
`SwitchAssumption`, `ConsentAssumption`, `CommandAssumption`, `CallAssumption`,
`ProcAssumption`, `ActivationAssumption`, `PassAssumption`, `LedgersAssumption`), that analyzers have
distinct names and files are finite in number (`AnalyzerAssumption`,
`FileAssumption`) and external ones are analyzers (`LiveAssumption`), that the pages' bounds are numbers
and what is absent is none (`PagesAssumption`, `AgentsAssumption`), that the depth of the walk is a number and
the tree's dirs differ from what is above it (`DepthAssumption`, `TreeAssumption`), that
a window is longer than its overlap and the cap's shorter than `HardMax` (`ChunkingAssumption`), that
a rank's weight is a whole share of `Unit` and the boosts are numbers (`RankAssumption`,
`WeightAssumption`), that a later rank gains less (`GainDecreases`) and that the lists of the
calls are not longer than there are ranks (`BranchesAssumption`, `GainsAssumption`), and,
of the ladder, the two conditions above (`LadderAssumption`, `FlagAssumption`). TLC evaluates each.

Induction. A recursive *function* over the numbers, as `Fresh`, the prefixes of
`Embeddings`, `PathUp`, `LoadFilteringRules` and `Ndcg`, can be reasoned about: lemmas `LeastOf`
and `NatInd` state induction for a set of numbers rather than for a predicate, by the
least element of the set's complement, and `SubsetInd` for a set of subsets of a finite
set, by their size; that such a function has a value at all is
`RecExists`, of any set, start and step. A fold of the community modules is such a
function too, on the subsets of a finite set (`IsFold`). The library's induction theorems, which take a predicate, cannot be
used, and neither can a definition with RECURSIVE.

### Only model-checked

- Liveness (`StoresProgress`, `FilesSettle`, `DaemonProgress`, `ServicesProgress`,
  `MarkerResumed`), which is out of the prover's reach.
- `ChunksCoverFile`, `QueriesAreExact`, `AnalysisIsHonest` and `ToolsAgree` of
  `MCAlgorithms`. Of the first, that no line is lost and no chunk too long is proved for
  any file (`EveryLineIsChunked`, `ChunksAreShort`, `EverySectionLineIsChunked`); the
  order of the chunks, what becomes of definitions, ids and references, heading paths
  and the metadata of parse trees are not: the provers cannot open the order inside a
  flattened sequence or a selection from a heading stack. The others' modules select
  from sequences, sort them and pair them (`SelectSeq`, `SetToSortSeq`, `SortSeq`), which
  the provers do not expand, join duplicates by a union-find folded over pairs, and match
  patterns character by character: each would first have to be restated as a recursive
  function.

## Not modelled

`PROJECT.json` "components" gives each part's status. Left out on purpose: external
tools and the parsers (their results are inputs), the embedding model itself, the
words of the doctor's advice, authentication and security
headers, static files, the layout of pages, printing, the assembly of read-only
answers out of rows, bundled skills, ulimits and the wizard's questions. In the modelled
parts: `/api/index` is a walk without a wipe and is left to `ProjectPasses`' loop; the
pruning that precedes a walk; a `stop()` of a watcher that hangs past its timeout.

A sink that throws loses its result for the life of the process although the
comment at `queue.ts:225` counts on a retry: the dedup record is set before the sink
runs (`SinkThrows` has it), and no run states it. `Migrations` has two more such
situations, both in `cut`: a process that stops between the two columns of
`schema_v3` leaves a store that no later process can open, and one that stops between
the ALTER and the UPDATE of `schema_v6` leaves old projects inactive.

## Plan

Done: the stores and their calls, background work, the daemon with its processes,
passes, files, the fronts' protocols, the pure parts, the first refinement, and the
proofs in the table above. To come:

1. `IndexSpec`: what the indexer promises, a function from files to contents that
   changes in one step; `Indexer` without overlapping deletes shown to implement it.
2. That the chunks of any document are in file order and tell each definition once;
   then the duplicates of `Quality`, whose union-find is a fold (`IsFold`).
3. The discovery cache with its time to live, beside the pure walk of `Workspace`.
