# A TLA+ model of UScanner

UScanner indexes Unreal Engine projects. `u_core_server` is a long-running TCP
server that keeps one SQLite index per project, watches the project's files and
answers queries of editors (UCore.nvim); `u_scanner` is a command line that
passes requests to the server or, when there is none, refreshes or scans on its
own. This directory specifies the parts of it in which several tasks, processes
and caches have to agree, and the queries that have to agree with each other, checks
them with TLC and proves the main results with TLAPS. Paths below are relative to `src/src/`.

## 1. Inventory

### Components, their state and operations

| Component | Code | State | Operations | What makes it correct |
|---|---|---|---|---|
| Project lifecycle | `server/handlers.rs` 54-162, 1540-1700; `server/state.rs` 80-93, 236-267 | `projects`, the registry JSON file, `active_refreshes` | `setup`, `refresh`, `delete_project`, start and end of the process | one refresh per project; the guard is freed on every path; the file follows the map; requests are answered |
| Completion cache | `server/state.rs` 118-210 | LRU map, `class_to_keys` | `get`, `put`, `invalidate_class`, `clear` | entries can be found by class |
| Completion caches against refreshes | `completion.rs` 426-499, 4060-4131; `server/handlers.rs` 192-241 | memory cache, `persistent_cache` table | a query's read, computation and two writes; clearing after a refresh; invalidation by the watcher | no result of an earlier index is left behind |
| Completion queries | `completion.rs` 500-700, 1380-2373 | none of its own | member lists along inheritance over project, buffer and Engine; types of members and variables; matching of names | what is inherited is offered, what is listed can be followed |
| Database open | `db/mod.rs` 41-100; `server/state.rs` 286-383; `refresh.rs` 386-394; `server/handlers.rs` 1540-1559 | the file at the path, its tables and version row, cached connections | `ensure_correct_version`, `init_db`, `get_connection`, `open_refresh_db`, local refresh and scan | an old database is rebuilt, never stamped; no half-made database stays |
| Index pipeline | `refresh.rs`; `db/mod.rs` 405-796; `server/watcher.rs` 127-222 | `files`, `classes`, `inheritance`, `modules`; plan and parse results of a refresh | the transactions of `run_refresh`, `save_to_db`, `resolve_inheritance`, a watched change | rows keep their symbols, links name a parent, the index follows the disk |
| Asset graph | `server/asset.rs`; `server/handlers.rs` 1626-1669 | `asset_graphs`, `active_asset_scans` | scans started by setup and queries, updates of one asset file | one scan at a time, one version per asset file, the graph follows the disk |
| Config cache | `query/config.rs` 80-263; `server/watcher.rs` 81-90 | `config_caches` with `is_dirty` | read-through query, mark | a clean entry is current |
| Config merge | `query/config.rs` 36-68, 265-410 | the value of a key along the stack | `Set`, `Add`, `Remove`, `Clear` of one line | the list semantics of ini operators |
| Watch event loop | `server_main.rs` 110-210; `server/watcher.rs` 15-127; `server/handlers.rs` 164-190 | channel of 256 events, debounce map (50 ms), the watcher and its mutex, jobs on the blocking pool | forward, receive, debounce, match a project, dispatch; parse and save; watch a root | every change leads to an update in its project, in the order of the changes; a watch request ends |
| RPC connection | `server/mod.rs`; `server/handlers.rs` 536-553; `server/state.rs` 20-76; the client in `main.rs` 149-225 | input buffer, channel of 2000 frames, the socket | read frames (at most 64 MiB), spawn handlers, send notifications and responses, write, abort the writer | one response per request, after all its notifications; no handler waits for ever |
| Client lifecycle | `server_main.rs` 205-270; `server/handlers.rs` | `active_clients`, `last_activity` | ping, removal of dead clients, idle shutdown | no exit while a client works, an exit when all are gone |
| Goto, hover, signature help | `query/goto.rs`; `server/handlers.rs` | none | resolve the qualifier, walk the bases, fall back to any symbol of the name, ask the Engine | the requests of one cursor agree with each other and with completion |
| References | `query/usage.rs` | none | scope, candidate files, occurrences, batches | the streamed answer is the whole one; usages of a member are found |
| Search | `query/search.rs` | `symbols_fts` (written by `save_to_db`) | `SearchSymbols`, `FastFind`, `GlobalFind`, with pages | pages add up to all matches |
| Other queries | `query/*.rs` | none | single SELECTs and lookups in the asset graph | the rows they read |
| Diagnostics | `diagnostics.rs` | none | pure functions of a buffer | see the unit tests |
| Source parser | `parser/cpp.rs` | none | `process_file` | text handling |
| uasset parser | `uasset.rs` | none | read a binary file | format handling |
| Module dependencies | `refresh.rs` 780-830 | memo table | `resolve_deep` | the transitive closure |
| Project editing | `edit/*.rs` | `.uproject`, `.Target.cs` | add a module | idempotence |
| Command line | `main.rs` | none | proxy, local refresh, local scan | same effects as the server |

### How they interact

A frame is decoded and handled in a task of its own (`process_frame`), so all
handlers run concurrently over the mutexes of `AppState`; blocking work
(`run_refresh`, `handle_asset_scan`, a watched source) runs on further threads.
`setup` and `refresh` register the project, save the registry, drop the cached
connection, make the database ready and start an asset scan. A refresh holds a
`RefreshGuard`, writes through a connection of its own and clears the memory
completion cache at its end. The watcher updates the same index, graph and
caches one file at a time. Queries read the index through read-only connections
and fill the caches. A `u_scanner` process shares nothing with the server but
the database file.

### What is hard

* **Interleavings**: guard against setup and deletion; check, removal and
  rebuild of the database by several tasks and processes; a scan against updates
  of single assets; a query that computes while a refresh commits.
* **State read under one lock, used under another**: `has_graph` and the scan
  flag, the cached connection, `is_dirty`.
* **Crashes and failures** between the transactions of a refresh, inside
  `save_registry`, between the creation of a database and its version row; the
  idle shutdown calls `process::exit` with handlers running.
* **Back pressure**: progress and partial results wait in `blocking_send` for room
  in the connection's channel, a refresh does so while it holds its guard.
* **Lost events**: the debounce drops a second change within 50 ms.
* **Several answers to one question**: completion, goto, hover, signature help and
  references each walk the bases of a class and each scan the syntax tree in code
  of their own, over rows that saves and refreshes leave in different states.
* **Limits**: searches cut stages before they deduplicate and page, streaming cuts
  batches, walks skip what they have met by name or by id.
* **Foreign keys** that are on for some replacements of a row and off for others.

`PROJECT.json` lists these as hazards, each at its line with the properties that
cover it.

## 2. Modules and how they correspond to the code

Variables carry the names of the code's fields where there is one. An action is
one lock region, one autocommitted statement or one transaction; per-task `pc`
values are the points at which another task can run. A definition with the
comment "Faulty variant" is not part of any specification: it is the form a
plausible mistake would give the definition after it, and shows that a property
would notice.

| Module | Models | Extends / instantiates |
|---|---|---|
| `RefreshMutex` | what the guard promises: a slot per root, taken when free, given back by its holder, freed by the end of the process | |
| `ProjectServer` | setup, refresh, delete_project, save and load of the registry, restart | implements `RefreshMutex` (`ImplementsRefreshMutex`) |
| `CompletionCache` | `struct CompletionCache` | |
| `CompletionFlow` | queries, both caches, refresh, watcher, restart | extends `CompletionCache`; its `Put`, `Touch`, `InvalidateClass`, `Clear` are steps of the composition |
| `DbOpen` | the database file, opening, rebuilding, saving, kills | |
| `IndexDb` | the index rows under refreshes and the watcher | |
| `AssetScan` | asset scans and updates | |
| `ConfigCache` | the cached configuration | |
| `ConfigList`, `ConfigMerge` | the merge of ini lines | `ConfigMerge` implements `ConfigList` |
| `RpcExchange` | what a client may rely on: every notification once, then one response | |
| `RpcConnection` | reader, handlers, channel, writer and client of one connection | implements `RpcExchange` (`ImplementsRpcExchange`) |
| `WatchLoop` | the notify thread, the event loop, jobs and watch requests | |
| `ClientLifecycle` | processes, pings and the loop that ends the server | |
| `SymbolIndex` | the rows of `classes` and `members` that any order of saves and refreshes leaves, and the Engine's | extends `Lists` |
| `Members` | member lists and types of members in completion | extends `SymbolIndex` |
| `Goto` | goto, hover, signature help and the scope of references over the same rows | extends `Members` |
| `Lists` | `take`/`truncate`, `filter`/`retain`, pushing what was not seen, `ORDER BY`, `while` and the walks of the queries | |
| `Search` | three kinds of search, page by page | extends `Lists` |
| `Usages` | references: candidate files, method bodies, batches | extends `Lists` |
| `Locals` | five scans of the buffer's tree for one name | |
| `Matching` | ranks of names, and the SQL patterns and limits in front of them | extends `Lists` |
| `ModuleDeps` | `resolve_modules` and its memo | |
| `ProjectServerProofs`, `DbOpenProofs`, `RpcConnectionProofs` | theorems of the module they are named after | extend it and `TLAPS` |
| `IndexDbProofs` | theorems of `IndexDb`, and of what the queries that walk the index answer (`SymbolIndex`, `Members`, `Goto`) | extends these and `QueriesProofs`, for its lemmas about loops |
| `CompletionProofs`, `CachesProofs`, `ServerLoopsProofs`, `QueriesProofs` | theorems of `CompletionCache` and `CompletionFlow`; of `AssetScan`, `ConfigCache`, `ConfigMerge`; of `WatchLoop`, `ClientLifecycle`; of `Locals`, `Matching`, `Usages`, `Search`, `ModuleDeps` | extend these and `TLAPS` |
| `MC*` | values for TLC | extend their modules |

Components that share no state are checked in one run, as parts of one
specification: `part` says which of them a behaviour is of, it never changes, and
the variables of the others keep one initial state. `MCCompletion` (the cache
alone; the cache under its queries; `Matching`), `MCCaches` (`AssetScan`, `ConfigCache`,
`ConfigMerge`), `MCServerLoops` (`WatchLoop`, `ClientLifecycle`), `MCDatabase` (`DbOpen`,
`IndexDb`) and `MCQueries` (the queries) are such unions: nothing is claimed of an interaction between parts.

**ProjectServer.** `projects` maps a root to the `db_path` of its context,
`registry` is the JSON file. `save_registry` holds the `projects` lock while it
truncates and writes the file, so saving is two steps with `saver` as the lock's
owner, and `Torn` is what a file cut short contains; `load_registry` answers
such a file with an empty map. `TryGuard` is `RefreshGuard::try_new`,
`ReleaseGuard` its `Drop`, which every path through `handle_refresh` reaches.
The result of `save_registry` is ignored, as in the code. `Restart` is a crash
or the idle shutdown at any point, followed by a start. `DbOf[r]` are the files that
requests for `r` name; roots may share one, as the server compares a path with nothing.

**CompletionCache.** The LRU crate is external: `older` is its recency order.
`Put` files a key under the class name as spelled and stores it under the
trimmed one; an eviction leaves `class_to_keys` alone.

**CompletionFlow.** The index is a version per class, a result the versions read
along the inheritance chain by separate statements. A query passes
`is_refreshing`, reads memory, then the table, computes, and writes both. A
refresh is a number of commits, then the clear, then the release of the guard.
`early` and `raced` are history variables: queries that were under way at the
last clear, and the entries they have put since.

**DbOpen.** A path names an inode; connections keep theirs when the path is
removed, and opening a path that names nothing creates an empty file.
`ensure_correct_version` is six steps (`exists`, `check`, `remove`, `create`,
`tables`, `version`); `setup`, `refresh` and `get_connection` are sequences of
such openings. `save` is a connection that `save_to_db` then writes through (the
watcher and scan requests), `cli` and `scan` are `u_scanner` processes. Any step
may fail, any process may be killed between two steps.

**IndexDb.** A row of `files` has a generation for its AUTOINCREMENT id, a
source has one class per saved row, `links` holds resolved `parent_class_id`s.
`Cascade` is a deletion with foreign keys on (`CascadeRows` in `SymbolIndex`), `ReplaceFiles` the replacement in
`save_to_db` with foreign keys off. `run_refresh` is one action per phase, each
a transaction of its own or a phase without one, and may fail after each.
`RoundTrips` says whether `reconstruct_path` gives back the stored path: it does
not for absolute roots, which is the only kind the clients send.

**AssetScan.** The graph is a set of edges `<<table, name, asset path>>`. `PathOf` is
`to_asset_path`, which gives several files one path: what lies under `Content` with
another extension or another case, and what has its name in a plugin's `Content`. A scan
lists, parses file by file, builds and stores its graph; an update parses one
file, removes the edges of its path (`Without`), those of other files of the path included
(`Displaced`), and adds the new ones. The files are those that scans list and the watcher
takes alike; the watcher also takes some outside of the `Content` directories, or in a directory that scans
skip, which no scan lists. The scan flag is claimed
by setups in one lock region and by queries after a look at `asset_graphs` in
another.

**ConfigCache** reads one file per step with no lock held; **ConfigMerge**
applies one line per step to a value that is null, a string or an array; `Retain` is
the loop of `Vec::retain` that a `Remove` line runs over it. `ConfigList` says what
is meant without a loop: what remains is picked by positions, in their order (`Picks`).

**RpcConnection.** A frame is its request; a message is its request with a number
(a notification) or `Response`. `TakeFrame` takes a frame and spawns its handler:
a frame that does not decode ends its task at once, one that announces more than
64 MiB ends the reader. A handler begins notifications, each of which waits in
`blocking_send` (`Notify`) for room in the channel; a streaming query sends them
one by one, the walker and rayon threads of a refresh (`Parallel`) each number
theirs and send it later, so that they overtake each other. `StopReading` ends the
reader and aborts the writer, which may go on until its next await (`Cancel`);
its end drops the receiver with all that is in the channel, and sends fail from
then on. Progress carries no message id; that it belongs to a request is
bookkeeping of the model.

**WatchLoop.** A file is a version number. `Change` puts it into `raw` if a watched
root holds it, `Forward` is `blocking_send` of notify's thread into `chan`,
`Receive` is one round of the event loop with its debounce (`recent`) and
`find_project_for_path` (`Owner`), which compares strings: `Prefixes` are given
apart from `Holders`, as a name may begin with another without lying below it.
`handle_source_change` leaves a job with the connection that is cached at that time. The job locks it,
finds the module and reads the file when its turn comes (`ParseJob`), and saves what it has read
before it lets go of it (`SaveJob`); `DropConnection` is `drop_db_connections` of a setup or a
refresh, after which the next job gets another connection. Every error path is there and ends
the matter: a connection that does not open or an asset that does not parse (`GiveUp`), no
module, a query or file that does not parse, a save that fails. `handle_watch` is a lock and a `watch` that the notify thread
has to take; both keep a worker of the runtime, as the code does them outside
`spawn_blocking`. `missed` is history: files with a change that no handler was told of, that one
gave up, or that an older version has overwritten.

**ClientLifecycle.** A round of the loop is `Wake` (sleep, then
`refresh_processes`), `RemoveDeadClients`, `CheckIdle`, each under a lock of its
own, so that pings (`Register`, `StampActivity`) fall between them. `age` counts
rounds since `last_activity`. `announced`, `newcomers` and `overlooked` are
history.

**SymbolIndex.** `rows` is the table of classes in the order of ids with the
bases, links and members that hang on each. `RefreshFile` is a deletion with the
cascade and a save, `SaveFile` a save that leaves the old classes without their file,
as `save_to_db` does; both end with `resolve_inheritance`, which fills the links
that are NULL with the first row of the name. The states are all indexes that
up to so many saves leave, and the queries are operators on them.

**Lists.** A `while` loop that nobody counts is `Loop`: a step after the other from a
start until a state is done. A walk over rows keeps a queue and what was met; `Visit`
is one turn of it, `FirstVisited` the row it ends at, `Closure` what is reached at all.
`Sorted` orders rows as `ORDER BY` does, and leaves open how it orders equal ones.

**Members.** `Collect` is a turn of the loop of `fetch_members_recursive`, `Root` one
of `collect_engine_member_roots`, `find_member_return_type` a walk to the first row with
a type; the lists of project, buffer and Engine are `MemberLists`, put together by
`merge_completion_items`. A base whose name was met is skipped in the first of
them, a row whose id was met in the second.

**Goto.** The walk `find_symbol_in_inheritance_chain` follows `get_parent_ids`:
the link where there is one, the rows of the name where there is none. `SignaturesFrom`
and `ImplFrom` (`TryParents` is one turn) are walks of their own over the same rows. Each
request is a sequence of attempts (`FirstHit`), asked of the Engine's index when the
project's has nothing. The five ways to resolve a qualifier are kept apart:
`goto_definition`, `resolve_impl_class`, `resolve_lookup_class`,
`resolve_signature_class`, `resolve_usage_scope`.

**Search.** A search has stages (symbols, files, lines of text) in the order of
their ranks, names and paths, each with its own limit. `fast_find_symbols` orders twice: the limit takes rows
by rank and name alone (`RankedRows`; of rows of one name the oldest), and what is left of them is
sorted by path as well, so that `NameRank` has one value for symbols which only their paths tell
apart, and `symbols_fts` has its rows in any order; `NextPage` asks for the next page anew, and
`Reparse` is what a save in between, or before, does to `symbols_fts`.

**Usages.** A line is what the search sees in it. `Scan` is the state machine of
`collect_method_ranges`, `find_symbol_usages` and `find_symbol_usages_async` are the
two loops over candidate files, `find_references_with_engine` the merge.

**Locals.** Buffers grow row by row; a row opens a function, a lambda or a block,
declares, initializes or assigns the one name, and closes; or it declares another variable whose
value mentions the name, which `scan_declarations` takes for a declaration of it (`Mentions`), as
`declaration_contains_name` looks into the value. `infer_var_type`
and `find_local_declaration` are goto's scans, `resolve_local_scope` is that of
references, `infer_variable_type` and `collect_local_completion_items` are those of
completion.

**Matching.** A name is a sequence of letters with a case, or underscores;
`completion_match_rank` tries the ways to match in the code's order.
`append_global_type_items` asks for the rows of each of `global_search_patterns`, `LIKE` with its
wildcard, cuts them at the pattern's limit (80 and 200 in the code), keeps the names that match,
each once, and stops at 80 items. `typeNames` are the names of all rows in the order of the query.
Values of enums, which fill what is left of the 80, are not modelled.

**ModuleDeps.** `resolve_modules` calls `resolve_deep` for the modules in the order
of their discovery, with one memo for all and a stack per call that cuts cycles.
`resolve_deep` is a function of calls (name, memo, stack), given level by level of
nesting; a stack holds no name twice, so that `MaxDepth`, one level more than there are names, is
never reached. What a module needs (`DeepOf`) is stated without a search, as the least closed set.

## 3. Runs

| Run | Instance | Shows |
|---|---|---|
| `project_server` | 2 tasks, 2 roots, one of which may name the other's database, fair | `GuardIsHeld`, `RegistryCurrent`, the refinement of `RefreshMutex`, `GuardReleased`, `EveryRequestAnswered` |
| `completion` | the cache alone: 2 classes, one with a second spelling, 2 prefixes, capacity 3; under its queries: 2 queries, a chain of 2 classes, 2 versions each; up to 3 names of up to 4 characters together and typed texts of up to 3, limits of 1 and 2 | `IndexCovers`, `InvalidationComplete`, `OnlyRacingQueriesLeaveStale`; `MatchingIsSound` |
| `database` | 2 tasks or processes, 3 inodes; a header, a source deriving from it, another file, 2 versions, 3 generations | `HalfMadeOnlyAfterFailure`, `OldStampedOnlyByScan`; `RowsHaveSymbols`, `LinksNameAParent`, `RefreshRepairs`, `IndexFollowsDisk` |
| `caches` | 2 asset files of one path, 2 versions sharing an edge, 2 scanners; 2 config queries, 2 ini files, the first read first; stacks of up to 4 lines, 3 values | `OneScan`, `OneVersionPerFile`, `GraphFollowsDisk`; `OnlyRacingReadersStoreStale`; `MergedIsWhatSurvives`, the refinement of `ConfigList` |
| `rpc_connection` | a streaming query, a refresh, a malformed and a huge frame, 2 notifications each, channel and socket of one message, fair | `NoResponseLost`, the refinement of `RpcExchange`, `RequestAnswered`, `HandlersEnd` |
| `server_loops` | 3 directories, one inside another and one a prefix of the other two, a source and an asset, 2 connections of the innermost project, 1 watch request, 2 workers, a channel of 1, fair; 2 clients, idle limit of 2 rounds, fair | `SettledIsPresent`, `OnlyConnectionsGoBack`, `WatchAnswered`; `ExitOverlooksOnlyNewcomers`, `ServerExits` |
| `queries` | indexes of up to 3 rows under 3 Engine indexes and 2 buffers; 3 matches per stage, stage limit 2, up to 5 pages of 1 to 3; 2 files of up to 4 lines, 4 results, batches of 3; buffers of up to 5 rows; up to 3 modules | `ChainResolves`, `InheritedIsOffered`, `GotoFindsWhatIsOffered`, `RequestsAgree`; `PagesAddUp`; `StreamedIsWhatIsReturned`, `MemberUsagesFound`; `VariableTypesAgree`; `DeepDependenciesComplete` |
| `completion_flow_watch` | violated: `ChangeInvalidates` | the watcher's invalidation finds nothing |
| `db_open_setup_verdict` | violated: `ReadyMeansCurrent` | a failed version check counts as a match |
| `index_db_orphans` | violated: `NoOrphans` | classes outlive their file's row |
| `index_db_incremental` | violated: `OnlyChangedParsed` | unchanged sources are parsed again |
| `module_deps_transitive` | violated: `TransitiveDependencies` | a module on a cycle lacks what the cycle's first module needs |

The type invariants of the modules are no run's property; those of the eleven state
machines `ProjectServer`, `CompletionCache`, `CompletionFlow`, `DbOpen`, `IndexDb`,
`AssetScan`, `ConfigCache`, `ConfigMerge`, `WatchLoop`, `ClientLifecycle` and
`RpcConnection` are proved (section 4).

**Bounds and why they are enough.** Every state machine has two of what can race:
two request tasks are a running refresh and a rejected one, or a refresh and a
setup or deletion; two openings are one that checks while the other removes or
rebuilds; two queries are one before and one after a clear; two scanners contend
for the flag; two clients are one that keeps the server up and one that leaves.
Three inodes are an old file, its replacement and one more made after a second
removal; the constraint is that a run stops creating files then (an opening that
finds none left waits; its task can still fail or be killed). Two versions of a
class or a file distinguish stale from fresh, three versions of a watched source
let a change fall between two others, as do two changes of one ini file and one of
the other; two connections of a project are an old job's and a new one's; two files of one asset path are one whose update removes the other's edges; three generations let a file be saved, deleted, saved and saved again
by the watcher during the refresh. Capacity 3 with two spellings has evictions of
entries that are filed and of entries filed twice. A channel and a socket of one
message each are full most of the time, which 2000 are when a client does not
read; two notifications are the least that can overtake each other.

The queries are pure: a bound is enough when it has every branch of their loops.
Three rows are a class in two files, a declaration with an implementation and an
orphan of either, a cycle, and a chain of three through the Engine, which has a
class of the project's name in one of its indexes. The stage limit 2 cuts stages of
3, and pages of 1 to 3 end on, before and behind it; five pages pass all of it; two of the
three symbols have one name, and their rows come in either order.
A limit of 4 results over batches of 3 ends in a batch, and 4 lines with two
occurrences each exceed it. Five rows of a buffer hold a function with a nested
lambda or block and declarations inside, behind and around. Names of four
characters have words to skip between two that match. With limits of 1 and 2 rows and 2 items two or three
short names exceed each of them, which takes hundreds with the code's 80 and 200. Three modules are a cycle of
two below or above a third.

Symmetry is used where the elements are interchangeable and no liveness is checked
(queries, tasks and inodes, asset files and scanners, modules). `CHECK_DEADLOCK FALSE` stands in
three runs: a connection that has ended is at its end (`rpc_connection`); a server
that has exited and has no process left to end is at its end (`server_loops`);
inputs that have grown to their bound (`queries`). In `caches` a stack of ini
lines ends at `MaxLines`, and in `completion` the names at `MaxLetters`, where `MCCaches` and
`MCCompletion` repeat the state.

**What the passing properties circumscribe.** Several hold only with an
exception, and the exception is a behaviour of the code that a reader should
know of:

* `GuardIsHeld` is about roots. That no two refreshes work on one database file is not stated: the
  server compares the path of a request with nothing (`handlers.rs:1583`), so that two roots may name one
  file, and a setup may change the file of a root under its guard.
* `OnlyRacingQueriesLeaveStale`: a query that began before the clear puts its old
  result afterwards. The table `persistent_cache` is cleared by nobody and is
  not covered by the property.
* `OldStampedOnlyByScan`: `run_scan_locally` opens the file without
  `ensure_correct_version`, and `save_to_db` stamps it.
* `HalfMadeOnlyAfterFailure`: a process killed after it has created the file
  leaves one without `project_meta`, on which `database_version_matches` fails
  at every later call. A connection cached by `get_connection` after another
  task has rebuilt the file stays one to the removed file.
* `GraphFollowsDisk`: an update applied while a scan parses is replaced by the
  scan's graph. An update of one file removes the edges of every other file with the same asset
  path, until that one changes or a scan begins anew; `OneVersionPerFile` says
  that each file's edges are of one version or absent, not that a path shows one file.
* `OnlyRacingReadersStoreStale`: a query that was reading while the entry was
  marked stores it as clean.
* `IndexFollowsDisk`: a refresh saves what it has parsed over what the watcher
  has saved since.
* `RowsHaveSymbols` is checked and proved for paths that do not round-trip. If
  they did, `upsert_non_source_files` would replace the rows of unchanged
  sources with foreign keys on and the cascade would take their classes.
* `RegistryCurrent` is about a process that lives; one that ends while the file
  is being written leaves a torn file, and the next process starts with no
  project.
* `NoResponseLost` ends with the reader: a client that shuts down its sending side
  before it has read its answers loses them, as the end of the stream aborts the
  writer. `RequestAnswered` leaves out frames that do not decode, which are
  answered by nobody; the command line would wait for such an answer until the
  connection closes, and takes the end of the stream for success
  (`read_rpc_until_response`). A handler that panics outside `spawn_blocking` has
  the same effect and is not modelled.
* `ImplementsRpcExchange` leaves the order of a refresh's progress open: a client
  may see it go back.
* `SettledIsPresent` leaves out files that are gone, which no handler removes from
  the index or the graph (a refresh does), and changes no handler was told of:
  under no watch, lost in a restart, which watches no root until a client asks for
  it, or skipped by the debounce, which handles the first of several changes and
  drops the last. Nor does it speak of changes that a handler or its job gave up: no connection,
  no module, an asset or a source that does not parse, a save that fails. Nothing tries these again.
  After a setup or refresh has dropped the cached connection an older job may still save
  an older version last; `OnlyConnectionsGoBack` says that this is the only way back, as jobs of
  one connection parse and save under its mutex. A path is taken to the longest root that is a prefix of
  its string; a directory `Game2` that is no project goes to the project `Game`.
* `WatchAnswered` needs more workers than watch requests at a time (`EnoughWorkers`).
  With as many, every worker can wait for the watcher's mutex or for the notify
  thread, which waits for room in a full channel that no worker is left to empty.
* `ExitOverlooksOnlyNewcomers`: a client whose process was started after the list of
  processes was read, and that pings before the loop looks at the clients, is
  removed, and the server may exit under it. Only pings count as activity: a
  server also exits during a long refresh of a client that does not ping.
* `ChainResolves` and `InheritedIsOffered` are about what the index names; the
  second needs that none of the lists put together is full and that no class has more
  members than are listed of one (`MAX_MEMBER_ITEMS_PER_CLASS`), and an Engine class of a
  name that the project has as well is hidden (`collect_engine_member_roots` returns the class asked
  for only if the project lacks it; the `roots.insert` calls after it then find it
  there and add nothing).
* `GotoFindsWhatIsOffered`: goto follows a link wherever one is set, and
  `resolve_inheritance` sets it once, to the first row of the name: a class made up
  for implementations, or one whose file is gone. Where such links or orphans
  exist, goto may find a member of that name in another class, or nothing. A link is
  healthy (`Healthy`) if no other row of the name declares anything: that its line is
  not the first is not enough, as a class may well be declared on line 1. What is found
  is above the class whatever the current file includes, since goto does not ask.
* `RequestsAgree` is about definition, hover, the first signature, references and
  implementation. `Super::` stands for the enclosing class in goto and for its first
  base in completion. The Engine's overloads are never appended to the project's,
  although `handlers.rs:741` says so: `merge_query_results` compares `path` and `line`,
  which signatures do not have, so that each counts as a duplicate.
* `PagesAddUp` takes pages of at most the inner limit (500; the outer clamp allows
  10 000, and a page beyond 500 loses what the stages cut), matches that are told
  apart by name, path and line, and for `FastFind` no rows of classes that are gone,
  which count against its limit before they are dropped, and rows of one rank and name that were saved in
  the order of their paths (`RowsByPath`): `search.rs:324` cuts by rank and name, `search.rs:343` then sorts by
  path as well, so that of two symbols of one name the older may be on two pages and the other on none. The Engine is asked
  from its first result on for every page, so that its results repeat.
* `StreamedIsWhatIsReturned` is about a request without a scope: streaming ignores the
  cursor. The Engine's usages of one line are merged to one.
* `MemberUsagesFound`: a call `C::F()` outside of a body is taken for the head of one,
  and declarations count twice against the limit. That a scope only narrows is stated for
  indexes of at most `MAX_FILES` files: beyond them the candidates without a scope, which
  are more, are cut elsewhere than those with one. The proof showed that this condition is needed.
* `VariableTypesAgree` states for each scan when it has the declaration in force. Only
  the list of locals knows blocks; completion infers from the whole buffer up to the cursor,
  goto also from rows behind it; an `auto` takes the first initialized declaration of
  the name. A later declaration of another variable whose value mentions the name is taken for its
  declaration by completion (`declaration_contains_name`): after `APawn* v; int32 n = v->X;`
  it infers `int32` for `v`. Rows of this kind are excepted for completion's type alone.
* `MatchingIsSound`: a query returns at most 80 and 200 names in the order of their text, before any of them
  is ranked, and at most 80 are listed in the end: names behind a limit are not found however well they
  match. Names that begin with what was typed need the first limit only. An underscore is a wildcard of `LIKE`, and names whose matching
  letters lie across an underscore are not found by the patterns; deleting down to
  underscores alone may lose a match. The part about patterns is stated for names of fewer
  than 19 words: the proof showed that the rank of a match within a word, 2 and the
  word's number, reaches 20 and more from the 19th word on, where the ranks of ordered matches
  begin, and the patterns do not find such names.
* `DeepDependenciesComplete`: the memo keeps a set that was cut inside a cycle, so that
  modules on a cycle, or which depend on one, may lack some of it. `refresh.rs:785` promises the
  transitive dependencies, which the run `module_deps_transitive` refutes; this property says what
  is left of the promise.

**Fairness.** `ProjectServer` assumes weak fairness of every step of a request
that has arrived (tokio polls spawned tasks, threads of the blocking pool run,
`run_refresh` ends) and strong fairness of the steps that take the `projects`
lock, which parking_lot hands over eventually. Nothing is assumed of clients or
of restarts. One premise deserves mention: `RpcProgressReporter` reports with
`blocking_send` on the connection's channel of 2000 frames, so `run_refresh`
ends only if the client reads its socket or closes it. `RpcConnection` makes this
premise explicit, as weak fairness of `Read`, and `HandlersEnd` discharges what
`ProjectServer` assumes of `RunRefresh`. It assumes weak fairness of the reader,
the writer and the handlers, and strong fairness of the sends of a handler, since
tokio's channel gives its permits to waiting senders in turn. `WatchLoop` assumes weak
fairness of the notify thread, of the event loop while a worker is free and of a watch
that can be taken, and strong fairness of the watcher's mutex, which
parking_lot hands over eventually; files need not calm down, jobs need not run.
`ClientLifecycle` assumes weak fairness of the steps of its loop and nothing of
clients or processes. `DbOpen`, `IndexDb` and `CompletionFlow` state weak fairness of
work that has begun; it is used by the violation runs only, whose counterexamples
are finite prefixes and need none of it.

## 4. Proofs

All theorems are proved by `tlapm` for every value of the constants that
satisfies the module's `ASSUME`s, with any number of tasks, files, classes and
steps.

| Theorem | Statement | Inductive invariant |
|---|---|---|
| `ProjectServerProofs!GuardExclusion` | `GuardIsHeld` | `TaskInv` (a task at one of a method's steps serves that method, and has a root of the project map) with the types; `GuardIsHeld` is inductive relative to it |
| `ProjectServerProofs!RegistryAgreement` | `RegistryCurrent` | `RegistryCurrent` relative to `TaskInv`: the task at `write` is the one that holds the `projects` lock, so no change falls between truncation and the last byte |
| `ProjectServerProofs!Refinement` | `ImplementsRefreshMutex` | the guard: `Holder[r]` is the one task in the scope of `r` |
| `CompletionProofs!IndexCoverage`, `InvalidationIsComplete` | `IndexCovers`, `InvalidationComplete` | coverage is inductive with the types: `Put` files before it stores, nothing unfiles without removing |
| `CompletionProofs!StaleOnlyByRacing` | `OnlyRacingQueriesLeaveStale` | `FlowInv`: what a query outside `early` has read so far is at least `clearedAt`, as are the entries outside `raced`, and `clearedAt` is at most `index` |
| `DbOpenProofs!OldStampedByScanOnly` | `OldStampedOnlyByScan` | `OpenInv`: past the check the path names no old database, and that stays so, since no step puts an old file at the path; handles that will write a schema, and the cached connection, are not old unless a scan opened them |
| `DbOpenProofs!HalfMadeByFailureOnly` | `HalfMadeOnlyAfterFailure` | `MadeInv` relative to `OpenInv`: unless something failed, a file that is missing although there was one is about to be created by some task, and one that is half-made will be finished by some task |
| `IndexDbProofs!RowsKeepSymbols` | `RowsHaveSymbols`, assuming `~RoundTrips` | `RowInv`: `others`, whose rows are replaced without classes, contains no source, as every source is planned to be parsed |
| `IndexDbProofs!LinksAreNamed` | `LinksNameAParent` | the property with the types: a cascade takes the links of every class it takes, replacement only adds classes |
| `IndexDbProofs!RefreshesRepair` | `RefreshRepairs`, assuming `~RoundTrips` | `RepairInv`: `QuietInv` says phase by phase what an undisturbed refresh has done: the plan is one of the present disk, the rows are empty before the save, sources are up to date after it, all files after the upsert |
| `IndexDbProofs!IndexIsCurrent` | `IndexFollowsDisk`, assuming `~RoundTrips` | `FollowInv`: a source that was not missed is current or its update is still coming, and what the refresh has parsed of it and not saved is no earlier version |
| `RpcConnectionProofs!NoResponseIsLost` | `NoResponseLost` | the property with the types and `LoopInv` (the writer runs as long as client and reader are there): `LineKeeps` shows that no step of such a connection takes a response out of channel, hand and socket but into the next of them |
| `RpcConnectionProofs!Refinement` | `ImplementsRpcExchange` | `TaskInv` (what a handler has begun and not yet sent) and `LineOrder`: socket, the writer's hand and channel make one `Line`, in which and in what was received is exactly what was sent, once, a sequential handler's messages in turn and a response behind all its notifications; every action adds at the line's end, takes its head, moves within it or drops its rest |
| `CachesProofs!ScanExclusion`, `OneVersion`, `GraphIsCurrent` | `OneScan`, `OneVersionPerFile`, `GraphFollowsDisk` | `AssetInv`: a scan stores its report after the last file, and the graph and the report of a running scan are current for every file with no event left that no update has missed or displaced and no scan overlapped; `OneVersionPerFile` is shown next to it, path by path |
| `CachesProofs!StaleByRacingReaders` | `OnlyRacingReadersStoreStale` | `ConfigInv`: a query outside `early` has read present files, in their order, and a clean entry outside `raced` is complete and present |
| `CachesProofs!MergedSurvives`, `MergeRefinement` | `MergedIsWhatSurvives`, `ImplementsConfigList` | `MergeInv`: the property with the types; `RetainPicks` says for arrays of any length that the loop keeps exactly what differs, in its order |
| `ServerLoopsProofs!OneWatcher`, `SettledFilesArePresent`, `SavesKeepTheirOrder` | `MutexHeld`, `SettledIsPresent`, `OnlyConnectionsGoBack` | `WatchInv`: a file that was not missed is told of somewhere between notify and a job, or already handled in its present version; a job knows the project its file lies in, by `OwnerIsInnermost`; what is parsed is one version per connection, no older than what that connection has saved |
| `ServerLoopsProofs!ExitOverlooksNoOther` | `ExitOverlooksOnlyNewcomers` | `LifecycleInv`: a running process that the list lacks is a newcomer, and whoever has pinged is registered or overlooked |
| `QueriesProofs!LocalScansAgree` | `VariableTypesAgree` | none, the property holds of any buffer: the scans are minima and maxima of sets of rows |
| `QueriesProofs!MatchingAlwaysSound` | `MatchingIsSound` | `NamesInv` (every name is made of characters and no longer than `MaxName`), the rest holds of any names and typed text. What a pattern finds, up to its limit, is pushed once and stays (`PushAll`, `TypesListed`). The greedy loop finds a layout of the words and none ends earlier (`GreedyIsBest`); `RankIs` says which conditions make a name match, each of which a shorter text keeps (`DeletingKeeps`, by `WordsFewer`: it has as many words or one less, each a prefix); flattened words are the compact name (`WordsAre`), which the patterns are made of (`PatternsFind`) |
| `QueriesProofs!BatchesAddUp` | of `StreamedIsWhatIsReturned` that the batches put together are the results, for any results | none; follows from `SlicesAddUp`, by induction over the number of slices |
| `QueriesProofs!StreamAgreesAlways` | `StreamedIsWhatIsReturned` | `TextsAreFiles` (each file keeps being a sequence of lines); `BothAreCut`: the loop of the request that returns everything and the one that streams are both the first `MAX_RESULTS` of all matches of the files in their order |
| `QueriesProofs!MemberUsagesAlwaysFound` | `MemberUsagesFound` | `TextsAreFiles`; by induction over the lines (`ScanKept`) every range that the scan has closed or has open begins at a head of one of the classes, and a body stays open for as long as the depth is positive; a list filled to the limit has no elements but those found and the declarations |
| `QueriesProofs!PagesAlwaysAddUp` | `PagesAddUp` | `SearchInv`: there is one live row of each symbol at most, and the pages are those of the request; then every page is a slice of one sequence (`FoundIsSlice`), as no stage drops anything that an earlier one has not found (`NothingDropped`), and slices add up |
| `QueriesProofs!DependenciesAlwaysComplete` | `DeepDependenciesComplete` | `ModulesInv` (what is discovered are modules). Level by level (`LevelsYield`), a call with a memo that is right and followed up (`Given`) leaves such a memo and finds what its name needs but for what a cycle hides (`Yields`): a name that the stack cuts is needed by itself, and hides no more than all it needs. With an empty memo and stack all that is added to the memo is closed, so that the first module lacks nothing (`FirstIsComplete`) |
| `IndexDbProofs!ChainsAlwaysResolve` | `ChainResolves` | `IndexesConsistent` (rows of both indexes have their types, each link that is set names a row of the base's name, the Engine's rows have their files). `GatheredKeeps`, turn by turn of `fetch_members_recursive`: what is listed is of rows that lie in every set of rows closed under names and bases (`FetchIs`); the search for the type visits such a set unless it ends before (`FirstVisitedIs`), so that it ends at a row with a type |
| `IndexDbProofs!InheritedIsAlwaysOffered` | `InheritedIsOffered` | the same; a list that is not full has the public members of every row of every name above its class (`PublicIsListed`), skipping by name loses none, since all rows of a name that was met are queued; the roots are the Engine's names above the class over project and buffer (`RootsAre`), and what is above a set of names is above one of them (`AboveEach`) |
| `IndexDbProofs!RequestsAlwaysAgree` | `RequestsAgree` | the same; the walk that collects signatures and the one of goto take the same turns, so that the first signature is of the row where goto ends (`SignaturesAre`), and an implementation is found at a row of a name that links reach (`ImplKeeps`, `ImplIs`) |
| `IndexDbProofs!GotoAlwaysFindsWhatIsOffered` | `GotoFindsWhatIsOffered` | the same; what is listed is a member of some row, found at the latest by its name alone; where links are healthy, names and links reach the same rows that declare anything (`NamesAreLinked`, `LinksAreNames`) |
| `*TypeCorrect` | the type invariants | parts of the above |

The invariants are needed because no stated property is inductive without the types, and few with them:
`GuardIsHeld`, for instance, needs that only refreshes pass through the guard's
steps, and `OldStampedOnlyByScan` depends on what a task found at
the path several steps before it writes.

Assumptions. The theorems rest on the `ASSUME`s of the modules and on the
hypotheses named above. Most of them say what the constants are. The others are facts of the code or its surroundings:
`ModulesAssumption` (the names of modules and of what they depend on are finitely many);
`MatchingAssumption` (`usize::MAX` is above the rank of any match in a name of at most
`MaxName` characters); `LimitsAssumption` (the list takes as many names as the first pattern returns, 80 in both
cases); `FlowAssumption`
(a chain is read for classes of the index, and cache keys are spelled cleanly); `WatchAssumption`
(one path is a prefix of another in a partial order over finitely many directories, and a directory
that holds a file is a prefix of its path); `LocalsAssumption` (an initializer is part of
a declaration); `SymbolAssumption` (names of classes are finitely many, what is parsed of a file
is a sequence of classes with finitely many members, and the Engine's index, which refreshes alone
have written, is consistent and has its files); `GotoAssumption` (`this`, `Super` and the name of a
variable are no classes); `CursorAssumption` (the class around the cursor and the owner of a member are
classes); `UsagesAssumption` and `SearchAssumption` (no path, symbol, file or line of text is
listed twice, a file is no symbol, pages have at least one row); `AssetAssumption` and `ConfigAssumption` (the mark of a missing file or
entry is none of the versions). `~RoundTrips` in three theorems of `IndexDbProofs` is what
`reconstruct_path` does with absolute roots, which is all that clients send; the case with
relative ones is that of the exception under `RowsHaveSymbols` above.

Loops. `Retain`, `MatchFrom`, `KeepIn`, `PushEach`, the loops over files, lines and stages in
`Usages`, `Search` and `ModuleDeps`, and the library's `FlattenSeq` are recursive functions,
not `RECURSIVE` operators, and the proofs about them are inductions over their length
made in first-order steps: the least length at which the claim fails, which `WFMin`
gives, is neither the first nor, as the claim holds one before it, any other. That a
recursive function satisfies its equations follows from the existence of a function
that does, which is shown in the same way or by giving one. `QueriesProofs` does this once for all
loops: `LoopExists` says that a loop over `0..n` whose step is a given function has a result at
each index, `SameRuns` that it has no other, and `NatInd` is induction over sets of numbers.

`Loop`, `Closure` and the walks are recursive functions over states, of which there are infinitely
many and in no order. `IndexDbProofs` shows that such a function exists for any step (`EndsExist`:
where a loop can end is in all sets of states that its steps do not leave), and that a loop ends,
in a state that has what every turn keeps, if two numbers give each turn a way down (`LoopEnds`):
the rows not met yet, and the length of the queue. The lemmas named `...Keeps` say what a turn keeps,
the definitions named `...OnTheWay` and `Gathered` what that is.

Only model-checked:

* liveness, which is beyond the prover: `GuardReleased`, `EveryRequestAnswered`,
  `RequestAnswered`, `HandlersEnd`, `WatchAnswered`, `ServerExits`.

Every invariant that a passing run checks is proved. `InheritedIsOffered`
and `GotoFindsWhatIsOffered` did not hold for all constants as they were first stated, although
every run passed: the proofs needed the limit on the members of one class, lists that are not
full before they are merged, healthy links told by declarations, and names above a class that do not depend on includes.

## 5. Not modelled

Not modelled of the queries: namespaces of modules, typedefs and enum items; completion
of includes, macros, preprocessor words and snippets; types of whole expressions; the
order in which `process_completion_with_engine` puts its sources together; the
correction of lines and columns by the text of files; the scope filters of searches and
the ranks of SQLite; queries that are one SELECT. The fallback by module in goto,
`find_member_in_module`, orders by `m.access` where `m` is the table of modules, and fails.

Left out for good: tree-sitter queries and text handling of the parsers and of
diagnostics, the binary layout of `.uasset` files, the text of `.Build.cs`, ini and
project files and the edits of `edit/*.rs`, logging, argument handling, and
formatting of results. `calls`, `includes` and enum values follow the same
replacement as `classes` and are not told apart in `IndexDb`.

## 6. Running

`tlc -config ProjectServer.cfg MCProjectServer` and likewise for the other rows
of `PROJECT.json`; `tlapm ProjectServerProofs.tla` and likewise for the other
proof modules. The largest runs take about two to three minutes with two workers,
the proofs of `QueriesProofs` and `IndexDbProofs` about twelve and fourteen minutes.
