------------------------------ MODULE IndexDb ------------------------------
(***************************************************************************)
(* The rows of a project's index: a refresh (run_refresh, a pipeline of    *)
(* separate transactions) and the watcher (handle_source_change) write     *)
(* them through connections of their own, over a disk that keeps changing. *)
(*                                                                         *)
(* A version of a file is its modification time. The files row of f is     *)
(* identified by a generation number, as AUTOINCREMENT never reuses an id, *)
(* and the classes parsed from f are abstracted to one class <<f, g>> that *)
(* belongs to row g of f and is named after f; ParentOf[f] names its base. *)
(* Foreign keys are enforced on a refresh's own statements, and switched   *)
(* off within save_to_db.                                                  *)
(***************************************************************************)
EXTENDS Naturals

CONSTANTS Sources,    \* source files of the project
          Others,     \* other files it indexes
          ParentOf,   \* source -> source its class derives from, or NoFile
          RoundTrips, \* reconstruct_path gives back the path that was stored
          MaxClock,   \* bounds the changes of files
          MaxGen,     \* bounds the saves of a file
          NoFile, NoTime

ASSUME IndexAssumption ==
    /\ Sources \cap Others = {}
    /\ ParentOf \in [Sources -> Sources \union {NoFile}]
    /\ NoFile \notin Sources
    /\ RoundTrips \in BOOLEAN
    /\ MaxClock \in Nat \ {0} /\ MaxGen \in Nat
    /\ NoTime \notin Nat

VARIABLES clock, disk,    \* time of the last change; file -> version, 0 if none
          row, mtime,     \* file -> generation of its files row, 0 if none; mtime
          gens,           \* file -> last generation used
          classes,        \* rows of classes: <<f, g, version parsed>>
          links,          \* inheritance: <<child id, parent_class_id>> if not NULL
          hasModules,     \* the modules table has been filled
          \* the refresh:
          rstep, onDisk, existing, planned, toParse, others, deleted, parsed,
          \* the watcher:
          pending, watch, wread,
          \* history, read by no action:
          missed,         \* files whose last change was not, or not yet, saved
          raced,          \* files last saved by the watcher during a refresh
          quiet           \* nothing changed or failed since the refresh began

disks == <<clock, disk>>
files == <<row, mtime, gens>>
symbols == <<classes, links>>
plan == <<planned, toParse, others, deleted>>
refresh == <<rstep, onDisk, existing, plan, parsed>>
watcher == <<pending, watch, wread>>
history == <<missed, raced, quiet>>
vars == <<disks, files, symbols, hasModules, refresh, watcher, history>>

Files == Sources \union Others
Versions == 0..MaxClock
Ids == Sources \X Nat
RefreshSteps == {"idle", "load", "modules", "plan", "delete", "parse",
                 "save", "resolve", "upsert", "end"}

TypeOK ==
    /\ clock \in Versions /\ disk \in [Files -> Versions]
    /\ row \in [Files -> Nat] /\ mtime \in [Files -> Versions]
    /\ gens \in [Files -> Nat]
    /\ classes \subseteq Sources \X Nat \X Versions
    /\ links \subseteq Ids \X Ids
    /\ hasModules \in BOOLEAN
    /\ rstep \in RefreshSteps
    /\ onDisk \in SUBSET Files
    /\ existing \in [Files -> Versions \union {NoTime}]
    /\ planned \in [Files -> Versions]
    /\ toParse \in SUBSET Sources /\ others \in SUBSET Files
    /\ deleted \in SUBSET Files
    /\ parsed \in [Sources -> Versions]
    /\ pending \in SUBSET Sources
    /\ watch \in Sources \union {NoFile} /\ wread \in Versions
    /\ missed \in SUBSET Files /\ raced \in SUBSET Sources /\ quiet \in BOOLEAN

Zero(S) == [f \in S |-> 0]

Init ==
    /\ clock = 1 /\ disk \in [Files -> {0, 1}]
    /\ row = Zero(Files) /\ mtime = Zero(Files) /\ gens = Zero(Files)
    /\ classes = {} /\ links = {} /\ hasModules = FALSE
    /\ rstep = "idle" /\ onDisk = {}
    /\ existing = [f \in Files |-> NoTime]
    /\ planned = Zero(Files) /\ toParse = {} /\ others = {} /\ deleted = {}
    /\ parsed = Zero(Sources)
    /\ pending = {} /\ watch = NoFile /\ wread = 0
    /\ missed = Files /\ raced = {} /\ quiet = FALSE

-----------------------------------------------------------------------------
\* Tables

Id(c) == <<c[1], c[2]>>
ClassIds == {Id(c) : c \in classes}

\* Deletes files rows with foreign keys on: ON DELETE CASCADE takes the classes
\* and their inheritance rows, ON DELETE SET NULL the links to them.
Cascade(S) ==
    LET gone == {c \in classes : c[1] \in S /\ c[2] = row[c[1]]}
        ids == {Id(c) : c \in gone}
    IN  /\ classes' = classes \ gone
        /\ links' = {l \in links : l[1] \notin ids /\ l[2] \notin ids}

\* Faulty variant: the classes go with the file, the links to them stay.
ReplaceFilesDeleting(S, content) ==
    classes' = {c \in classes : c[1] \notin S} \union {<<f, gens[f] + 1, content[f]>> : f \in S}

\* save_to_db deletes the files row with foreign keys off, which leaves the
\* classes of the old row, and inserts a new row with the classes parsed.
ReplaceFiles(S, content) ==
    classes' = classes \union {<<f, gens[f] + 1, content[f]>> : f \in S}

\* New files rows for S (MaxGen bounds them).
InsertRows(S, times) ==
    /\ \A f \in S : gens[f] < MaxGen
    /\ row' = [f \in Files |-> IF f \in S THEN gens[f] + 1 ELSE row[f]]
    /\ gens' = [f \in Files |-> IF f \in S THEN gens[f] + 1 ELSE gens[f]]
    /\ mtime' = [f \in Files |-> IF f \in S THEN times[f] ELSE mtime[f]]

\* The transaction of save_to_db.
Save(S, content, times) ==
    /\ ReplaceFiles(S, content)
    /\ InsertRows(S, times)
    /\ UNCHANGED links

\* Inheritance rows with parent_class_id NULL and a class of that name.
Unresolved ==
    {i \in ClassIds :
        /\ ~ \E l \in links : l[1] = i
        /\ \E j \in ClassIds : j[1] = ParentOf[i[1]]}

\* resolve_inheritance: some class of the name (LIMIT 1).
Resolve ==
    \E pick \in [Unresolved -> ClassIds] :
        /\ \A i \in Unresolved : pick[i][1] = ParentOf[i[1]]
        /\ links' = links \union {<<i, pick[i]>> : i \in Unresolved}

-----------------------------------------------------------------------------
\* run_refresh

GotoStep(s) == rstep' = s

\* discover_project
BeginRefresh ==
    /\ rstep = "idle"
    /\ onDisk' = {f \in Files : disk[f] # 0}
    /\ quiet' = (pending = {} /\ watch = NoFile)
    /\ GotoStep("load")
    /\ UNCHANGED <<disks, files, symbols, hasModules, existing, plan, parsed, watcher,
                   missed, raced>>

\* load_existing_files
LoadExisting ==
    /\ rstep = "load"
    /\ existing' = [f \in Files |-> IF row[f] = 0 THEN NoTime ELSE mtime[f]]
    /\ GotoStep("modules")
    /\ UNCHANGED <<disks, files, symbols, hasModules, onDisk, plan, parsed, watcher,
                   history>>

\* write_components_and_modules
WriteModules ==
    /\ rstep = "modules"
    /\ hasModules' = TRUE
    /\ GotoStep("plan")
    /\ UNCHANGED <<disks, files, symbols, onDisk, existing, plan, parsed, watcher,
                   history>>

\* Faulty variant: only presence in the index is looked at.
KnownMtimePresent(f) == IF existing[f] = NoTime THEN NoTime ELSE disk[f]

\* existing.get(path): an absolute path is reconstructed as another string, so
\* that it is not found.
KnownMtime(f) == IF RoundTrips THEN existing[f] ELSE NoTime

\* Faulty variant: nothing is deleted.
DeletedPathsNone == {}

\* Reconstructed paths that are not on disk.
DeletedPaths ==
    {f \in Files : existing[f] # NoTime} \ (IF RoundTrips THEN onDisk ELSE {})

\* file_mtime, 0 for a file that is gone again.
FileMtime(f) == disk[f]

\* build_file_plan
BuildPlan ==
    /\ rstep = "plan"
    /\ planned' = [f \in Files |-> IF f \in onDisk THEN FileMtime(f) ELSE 0]
    /\ toParse' = {f \in onDisk \cap Sources : KnownMtime(f) # FileMtime(f)}
    /\ others' = onDisk \ toParse'
    /\ deleted' = DeletedPaths
    /\ GotoStep("delete")
    /\ UNCHANGED <<disks, files, symbols, hasModules, onDisk, existing, parsed, watcher,
                   history>>

\* remove_deleted_files normalises the path again and finds the row.
RemoveDeleted ==
    /\ rstep = "delete"
    /\ Cascade(deleted)
    /\ row' = [f \in Files |-> IF f \in deleted THEN 0 ELSE row[f]]
    /\ mtime' = [f \in Files |-> IF f \in deleted THEN 0 ELSE mtime[f]]
    /\ missed' = missed \union deleted
    /\ GotoStep(IF toParse = {} THEN "upsert" ELSE "parse")
    /\ UNCHANGED <<disks, gens, hasModules, onDisk, existing, plan, parsed, watcher,
                   raced, quiet>>

\* process_file on a rayon thread; a file gone or unreadable has no data.
ParseFile(f) ==
    /\ rstep = "parse"
    /\ f \in toParse /\ parsed[f] = 0
    /\ \/ disk[f] # 0 /\ parsed' = [parsed EXCEPT ![f] = disk[f]]
                      /\ UNCHANGED <<toParse, quiet>>
       \/ toParse' = toParse \ {f} /\ quiet' = FALSE /\ UNCHANGED parsed
    /\ UNCHANGED <<disks, files, symbols, hasModules, rstep, onDisk, existing, planned,
                   others, deleted, watcher, missed, raced>>

EndParse ==
    /\ rstep = "parse"
    /\ \A f \in toParse : parsed[f] # 0
    /\ GotoStep("save")
    /\ UNCHANGED <<disks, files, symbols, hasModules, onDisk, existing, plan, parsed,
                   watcher, history>>

\* save_to_db, with the modification times of the plan.
SaveParsed ==
    /\ rstep = "save"
    /\ Save(toParse, parsed, planned)
    /\ LET good == {f \in toParse : parsed[f] = disk[f]} IN
       /\ missed' = missed \ good
       /\ raced' = raced \ good
    /\ GotoStep("resolve")
    /\ UNCHANGED <<disks, hasModules, onDisk, existing, plan, parsed, watcher, quiet>>

\* finalize_bulk_write
ResolveParsed ==
    /\ rstep = "resolve"
    /\ Resolve
    /\ GotoStep("upsert")
    /\ UNCHANGED <<disks, files, classes, hasModules, onDisk, existing, plan, parsed,
                   watcher, history>>

\* upsert_non_source_files: INSERT OR REPLACE deletes the old row first.
UpsertOthers ==
    /\ rstep = "upsert"
    /\ Cascade(others)
    /\ InsertRows(others, planned)
    /\ GotoStep("end")
    /\ UNCHANGED <<disks, hasModules, onDisk, existing, plan, parsed, watcher, history>>

RefreshOver ==
    /\ GotoStep("idle")
    /\ onDisk' = {}
    /\ existing' = [f \in Files |-> NoTime]
    /\ planned' = Zero(Files) /\ toParse' = {} /\ others' = {} /\ deleted' = {}
    /\ parsed' = Zero(Sources)
    /\ quiet' = FALSE

EndRefresh ==
    /\ rstep = "end"
    /\ RefreshOver
    /\ UNCHANGED <<disks, files, symbols, hasModules, watcher, missed, raced>>

\* A step fails (the database is locked or changed under a deferred
\* transaction) or the refreshing process is killed: the transaction in
\* progress is rolled back, the earlier ones stay.
FailRefresh ==
    /\ rstep \notin {"idle", "end"}
    /\ RefreshOver
    /\ UNCHANGED <<disks, files, symbols, hasModules, watcher, missed, raced>>

-----------------------------------------------------------------------------
\* Changes of files, and the watcher

Change(f, v) ==
    /\ clock < MaxClock
    /\ v \in {0, clock + 1} /\ v # disk[f]
    /\ clock' = clock + 1
    /\ disk' = [disk EXCEPT ![f] = v]
    /\ pending' = IF f \in Sources THEN pending \union {f} ELSE pending
    /\ missed' = IF v = 0 THEN missed \union {f} ELSE missed
    /\ quiet' = FALSE
    /\ UNCHANGED <<files, symbols, hasModules, refresh, watch, wread, raced>>

\* The event is dropped: debounced, a path that is gone, no module yet, or a
\* file that cannot be parsed.
DropEvent(f) ==
    /\ f \in pending
    /\ pending' = pending \ {f}
    /\ missed' = missed \union {f}
    /\ UNCHANGED <<disks, files, symbols, hasModules, refresh, watch, wread, raced, quiet>>

\* handle_source_change up to process_file, under the lock of the connection.
ParseWatched(f) ==
    /\ watch = NoFile
    /\ f \in pending /\ disk[f] # 0 /\ hasModules
    /\ pending' = pending \ {f}
    /\ watch' = f /\ wread' = disk[f]
    /\ UNCHANGED <<disks, files, symbols, hasModules, refresh, history>>

\* Faulty variant: the classes of the old row are kept and none is added.
SaveWatchedRow(f, v) ==
    InsertRows({f}, [g \in Files |-> v]) /\ UNCHANGED symbols

SaveOne(f, v) == Save({f}, [g \in Sources |-> v], [g \in Files |-> v])

SaveWatched ==
    /\ watch # NoFile /\ wread # 0
    /\ SaveOne(watch, wread)
    /\ wread' = 0
    /\ missed' = IF wread = disk[watch] THEN missed \ {watch} ELSE missed \union {watch}
    /\ raced' = IF rstep = "idle" THEN raced \ {watch} ELSE raced \union {watch}
    /\ UNCHANGED <<disks, hasModules, refresh, pending, watch, quiet>>

ResolveWatched ==
    /\ watch # NoFile /\ wread = 0
    /\ Resolve
    /\ watch' = NoFile
    /\ UNCHANGED <<disks, files, classes, hasModules, refresh, pending, wread, history>>

\* An error, or the end of the server, between two of these steps.
FailWatch ==
    /\ watch # NoFile
    /\ missed' = missed \union {watch}
    /\ watch' = NoFile /\ wread' = 0
    /\ UNCHANGED <<disks, files, symbols, hasModules, refresh, pending, raced, quiet>>

RefreshStep ==
    \/ LoadExisting \/ WriteModules \/ BuildPlan \/ RemoveDeleted
    \/ (\E f \in Sources : ParseFile(f)) \/ EndParse
    \/ SaveParsed \/ ResolveParsed \/ UpsertOthers \/ EndRefresh

WatchStep == SaveWatched \/ ResolveWatched

Next ==
    \/ BeginRefresh \/ RefreshStep \/ FailRefresh
    \/ \E f \in Files : \E v \in Versions : Change(f, v)
    \/ \E f \in Sources : DropEvent(f) \/ ParseWatched(f)
    \/ WatchStep \/ FailWatch

Spec == Init /\ [][Next]_vars

\* A refresh or an update that has begun is run on.
FairSpec == Spec /\ WF_vars(RefreshStep) /\ WF_vars(WatchStep)

-----------------------------------------------------------------------------
\* Properties

(* Every source the index lists has the classes of its own row: no step of a
   refresh, whatever the watcher does in between and wherever it is cut short,
   leaves a files row without what was parsed for it, which a later refresh
   would take for up to date (upsert_non_source_files replaces rows). *)
RowsHaveSymbols ==
    \A f \in Sources : row[f] # 0 =>
        \E c \in classes : c[1] = f /\ c[2] = row[f]

(* The class a parent_class_id refers to exists and has the parent's name:
   deletions with foreign keys on reset the links, those with foreign keys off
   keep the class. *)
LinksNameAParent ==
    \A l \in links :
        l[1] \in ClassIds /\ l[2] \in ClassIds /\ l[2][1] = ParentOf[l[1][1]]

\* The index has exactly version disk[f] of f, or no row when there is no file.
UpToDate(f) ==
    /\ row[f] = 0 <=> disk[f] = 0
    /\ row[f] # 0 => mtime[f] = disk[f]
    /\ f \in Sources /\ row[f] # 0 => <<f, row[f], disk[f]>> \in classes

(* A refresh that nothing disturbed leaves an index of exactly the files on
   disk, from whatever an earlier refresh or update that failed or was killed
   half-way has left. *)
RefreshRepairs == rstep = "end" /\ quiet => \A f \in Files : UpToDate(f)

Settled == rstep = "idle" /\ watch = NoFile /\ pending = {}

Current(f) == row[f] # 0 /\ <<f, row[f], disk[f]>> \in classes

(* When refreshes and updates are done, the index has the present version of a
   source, unless its last update was lost or fell into a refresh: a refresh
   saves what it parsed before over what handle_source_change has saved. *)
IndexFollowsDisk ==
    Settled => \A f \in Sources \ (missed \union raced) : Current(f)

(* Classes go with their file ("FOREIGN KEY(file_id) REFERENCES files(id) ON
   DELETE CASCADE", db/mod.rs). save_to_db replaces the row with foreign keys
   off, so the classes of the old row stay for ever. *)
NoOrphans == \A c \in classes : c[2] = row[c[1]]

(* "Parse changed source files in parallel" (refresh.rs): a source whose
   modification time is the indexed one is not parsed again. An absolute path
   is not found among the reconstructed ones, so every source is. *)
OnlyChangedParsed ==
    [][\A f \in Sources : ParseFile(f) => existing[f] # planned[f]]_vars
=============================================================================
