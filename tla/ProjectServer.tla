--------------------------- MODULE ProjectServer ---------------------------
(***************************************************************************)
(* The project lifecycle of u_core_server: setup, refresh and              *)
(* delete_project requests over the shared AppState, each request a task   *)
(* of its own (server/mod.rs spawns one per frame), one step per lock      *)
(* region or per blocking call.                                            *)
(*                                                                         *)
(* AppState.projects is the registry in memory, registry its JSON file.    *)
(* save_registry keeps the projects lock while it writes the file, so      *)
(* saver is the task that holds that lock across several steps.            *)
(* activeRefreshes is the set behind RefreshGuard. The SQLite index,       *)
(* connections and caches that the same handlers touch have modules of     *)
(* their own: DbOpen, IndexDb, CompletionFlow, AssetScan.                  *)
(***************************************************************************)
CONSTANTS Roots,     \* project root keys
          DbPaths,   \* index database files
          DbOf,      \* DbOf[r]: the files that requests for r name
          Tasks,     \* request tasks
          NoDb,      \* no database: an unregistered root, an absent db_path
          NoRoot,    \* root of a task that serves no request
          Nobody,    \* no task
          Torn       \* content of a registry file whose write was cut short

ASSUME ServerAssumption ==
    /\ DbOf \in [Roots -> SUBSET DbPaths]
    /\ NoDb \notin DbPaths
    /\ NoRoot \notin Roots
    /\ Nobody \notin Tasks
    /\ Torn \notin [Roots -> DbPaths \union {NoDb}]

VARIABLES projects,         \* root -> db_path of its ProjectContext
          registry,         \* the registry JSON file
          saver,            \* the task inside save_registry
          saveFailed,       \* the last registry write reported an error
          activeRefreshes,  \* AppState.active_refreshes
          pc, kind, root, db \* per task: step, method, project_root, db_path

vars == <<projects, registry, saver, saveFailed, activeRefreshes,
          pc, kind, root, db>>

Contexts == [Roots -> DbPaths \union {NoDb}]
Empty == [r \in Roots |-> NoDb]

Steps == {"idle", "ensure", "insert", "remove", "acquire", "upsert",
          "save", "write", "run", "release", "reply"}

TypeOK ==
    /\ projects \in [Roots -> DbPaths \union {NoDb}]
    /\ registry \in Contexts \union {Torn}
    /\ saver \in Tasks \union {Nobody}
    /\ saveFailed \in BOOLEAN
    /\ activeRefreshes \in SUBSET Roots
    /\ pc \in [Tasks -> Steps]
    /\ kind \in [Tasks -> {"none", "setup", "refresh", "delete"}]
    /\ root \in [Tasks -> Roots \union {NoRoot}]
    /\ db \in [Tasks -> DbPaths \union {NoDb}]

Init ==
    /\ projects = Empty
    /\ registry = Empty
    /\ saver = Nobody
    /\ saveFailed = FALSE
    /\ activeRefreshes = {}
    /\ pc = [t \in Tasks |-> "idle"]
    /\ kind = [t \in Tasks |-> "none"]
    /\ root = [t \in Tasks |-> NoRoot]
    /\ db = [t \in Tasks |-> NoDb]

-----------------------------------------------------------------------------
\* A frame arrives: process_frame is spawned and decodes method and params.
Receive(t, m, r, p, first) ==
    /\ pc[t] = "idle"
    /\ pc' = [pc EXCEPT ![t] = first]
    /\ kind' = [kind EXCEPT ![t] = m]
    /\ root' = [root EXCEPT ![t] = r]
    /\ db' = [db EXCEPT ![t] = p]
    /\ UNCHANGED <<projects, registry, saver, saveFailed, activeRefreshes>>

Goto(t, step) == pc' = [pc EXCEPT ![t] = step]

ProjectsUnlocked == saver = Nobody

\* Every handler ends in send_response; the task is over.
Reply(t) ==
    /\ pc[t] = "reply"
    /\ Goto(t, "idle")
    /\ kind' = [kind EXCEPT ![t] = "none"]
    /\ root' = [root EXCEPT ![t] = NoRoot]
    /\ db' = [db EXCEPT ![t] = NoDb]
    /\ UNCHANGED <<projects, registry, saver, saveFailed, activeRefreshes>>

-----------------------------------------------------------------------------
\* The file is the client's choice and the server checks nothing: two roots may
\* be registered with one file, and the file of a root may change (DbOf).

RequestSetup(t, r, p) == p \in DbOf[r] /\ Receive(t, "setup", r, p, "ensure")

\* ensure_database_ready: an error ends the handler before it registers.
EnsureReady(t) ==
    /\ pc[t] = "ensure"
    /\ Goto(t, "insert") \/ Goto(t, "reply")
    /\ UNCHANGED <<projects, registry, saver, saveFailed, activeRefreshes,
                   kind, root, db>>

InsertProject(t) ==
    /\ pc[t] = "insert"
    /\ ProjectsUnlocked
    /\ projects' = [projects EXCEPT ![root[t]] = db[t]]
    /\ Goto(t, "save")
    /\ UNCHANGED <<registry, saver, saveFailed, activeRefreshes,
                   kind, root, db>>

-----------------------------------------------------------------------------
\* delete_project

RequestDelete(t, r) == Receive(t, "delete", r, NoDb, "remove")

\* Faulty variant: a removal is not followed by save_registry.
AfterRemoveUnsaved(found) == "reply"

AfterRemove(found) == IF found THEN "save" ELSE "reply"

RemoveProject(t) ==
    /\ pc[t] = "remove"
    /\ ProjectsUnlocked
    /\ Goto(t, AfterRemove(projects[root[t]] # NoDb))
    /\ projects' = [projects EXCEPT ![root[t]] = NoDb]
    /\ UNCHANGED <<registry, saver, saveFailed, activeRefreshes,
                   kind, root, db>>

-----------------------------------------------------------------------------
\* save_registry, called by all three handlers, its result ignored

AfterSave(t) == IF kind[t] = "refresh" THEN "run" ELSE "reply"

\* Lock projects and truncate the file; create_dir_all or File::create may
\* fail before anything is truncated.
BeginSave(t) ==
    /\ pc[t] = "save"
    /\ ProjectsUnlocked
    /\ \/ /\ saver' = t
          /\ registry' = Torn
          /\ Goto(t, "write")
          /\ UNCHANGED saveFailed
       \/ /\ saveFailed' = TRUE
          /\ Goto(t, AfterSave(t))
          /\ UNCHANGED <<saver, registry>>
    /\ UNCHANGED <<projects, activeRefreshes, kind, root, db>>

\* The whole map is written, or the write fails half-way; the lock is freed.
EndSave(t) ==
    /\ pc[t] = "write"
    /\ \/ registry' = projects /\ saveFailed' = FALSE
       \/ UNCHANGED registry /\ saveFailed' = TRUE
    /\ saver' = Nobody
    /\ Goto(t, AfterSave(t))
    /\ UNCHANGED <<projects, activeRefreshes, kind, root, db>>

-----------------------------------------------------------------------------
\* refresh

RequestRefresh(t, r, p) ==
    /\ p \in DbOf[r] \union {NoDb}
    /\ Receive(t, "refresh", r, p, "acquire")

\* RefreshGuard::try_new inserts the root; a root already there is an error
\* and leaves no guard behind.
\* Faulty variant: the result of the insertion is not looked at.
GuardFreeIgnored(r) == TRUE

GuardFree(r) == r \notin activeRefreshes

\* Faulty variant: wait for the running refresh instead of refusing.
WhenBusyRetry == "acquire"

WhenBusy == "reply"

TryGuard(t) ==
    /\ pc[t] = "acquire"
    /\ activeRefreshes' = activeRefreshes \union {root[t]}
    /\ Goto(t, IF GuardFree(root[t]) THEN "upsert" ELSE WhenBusy)
    /\ UNCHANGED <<projects, registry, saver, saveFailed, kind, root, db>>

\* upsert_refresh_project_context: an explicit db_path registers the root,
\* otherwise the root must be registered; an error drops the guard.
UpsertContext(t) ==
    /\ pc[t] = "upsert"
    /\ ProjectsUnlocked
    /\ \/ /\ db[t] # NoDb
          /\ projects' = [projects EXCEPT ![root[t]] = db[t]]
          /\ Goto(t, "save")
          /\ UNCHANGED db
       \/ /\ db[t] = NoDb /\ projects[root[t]] # NoDb
          /\ db' = [db EXCEPT ![t] = projects[root[t]]]
          /\ Goto(t, "save")
          /\ UNCHANGED projects
       \/ /\ db[t] = NoDb /\ projects[root[t]] = NoDb
          /\ Goto(t, "release")
          /\ UNCHANGED <<projects, db>>
    /\ UNCHANGED <<registry, saver, saveFailed, activeRefreshes, kind, root>>

\* run_refresh on a blocking thread: it returns, fails or panics, and in all
\* three cases the handler leaves its scope next.
\* Faulty variant: the guard is forgotten on the way out.
AfterRunLeaked == "reply"

AfterRun == "release"

RunRefresh(t) ==
    /\ pc[t] = "run"
    /\ Goto(t, AfterRun)
    /\ UNCHANGED <<projects, registry, saver, saveFailed, activeRefreshes,
                   kind, root, db>>

\* Drop for RefreshGuard.
ReleaseGuard(t) ==
    /\ pc[t] = "release"
    /\ activeRefreshes' = activeRefreshes \ {root[t]}
    /\ Goto(t, "reply")
    /\ UNCHANGED <<projects, registry, saver, saveFailed, kind, root, db>>

-----------------------------------------------------------------------------
\* The process ends (a crash, or the idle shutdown's process::exit) and the
\* next one loads the registry; a file that does not parse is an empty one.
LoadRegistry == IF registry = Torn THEN Empty ELSE registry

Restart ==
    /\ projects' = LoadRegistry
    /\ saver' = Nobody
    /\ saveFailed' = FALSE
    /\ activeRefreshes' = {}
    /\ pc' = [t \in Tasks |-> "idle"]
    /\ kind' = [t \in Tasks |-> "none"]
    /\ root' = [t \in Tasks |-> NoRoot]
    /\ db' = [t \in Tasks |-> NoDb]
    /\ UNCHANGED registry

Request(t) ==
    \E r \in Roots :
        \/ \E p \in DbPaths : RequestSetup(t, r, p)
        \/ \E p \in DbPaths \union {NoDb} : RequestRefresh(t, r, p)
        \/ RequestDelete(t, r)

Step(t) ==
    \/ EnsureReady(t) \/ InsertProject(t)
    \/ RemoveProject(t)
    \/ BeginSave(t) \/ EndSave(t)
    \/ TryGuard(t) \/ UpsertContext(t) \/ RunRefresh(t) \/ ReleaseGuard(t)
    \/ Reply(t)

Next == Restart \/ \E t \in Tasks : Request(t) \/ Step(t)

Spec == Init /\ [][Next]_vars

\* tokio polls every spawned task and a parking_lot lock that is free goes to
\* a waiter; nothing makes a client send a request or the process end. The
\* projects lock is contended, hence strong fairness of the steps that take it.
Fairness ==
    \A t \in Tasks :
        /\ WF_vars(Step(t))
        /\ SF_vars(InsertProject(t) \/ RemoveProject(t) \/ BeginSave(t)
                     \/ UpsertContext(t))

FairSpec == Spec /\ Fairness
-----------------------------------------------------------------------------
\* Properties

\* t is inside the scope of its RefreshGuard.
InRefresh(t) ==
    kind[t] = "refresh" /\ pc[t] \in {"upsert", "save", "write", "run", "release"}

(* A root is in active_refreshes exactly while one task is inside the scope of
   its guard: no two refreshes of a root overlap, a rejected refresh does not
   free the guard of the running one, and no path out of the handler (unknown
   project, failed refresh) leaves the root locked (RefreshGuard). *)
GuardIsHeld ==
    /\ \A r \in activeRefreshes : \E t \in Tasks : InRefresh(t) /\ root[t] = r
    /\ \A t \in Tasks : InRefresh(t) => root[t] \in activeRefreshes
    /\ \A t, u \in Tasks :
           InRefresh(t) /\ InRefresh(u) /\ root[t] = root[u] => t = u

\* Some request for r is at or inside save_registry.
Unsaved(r) == \E t \in Tasks : pc[t] \in {"save", "write"} /\ root[t] = r

(* Whenever no task is writing the file, the registry a new process would load
   agrees with projects on every root whose last change has been saved, however
   the saves of other roots interleave: no save writes back a map older than a
   change already acknowledged (save_registry under the projects lock). *)
RegistryCurrent ==
    saver = Nobody /\ ~saveFailed =>
        \A r \in Roots : Unsaved(r) \/ LoadRegistry[r] = projects[r]

(* A refresh in progress ends, for good or ill, and the root accepts refreshes
   and queries again (RefreshGuard is dropped on every path). *)
GuardReleased ==
    \A r \in Roots : r \in activeRefreshes ~> r \notin activeRefreshes

(* Every request is answered: no handler waits for ever for the projects lock
   or for another handler (server/mod.rs sends one response per frame). *)
EveryRequestAnswered ==
    \A t \in Tasks : pc[t] # "idle" ~> pc[t] = "idle"

\* The refresh guard implements the abstract refresh mutex.
Holder ==
    [r \in Roots |->
        IF \E t \in Tasks : InRefresh(t) /\ root[t] = r
        THEN CHOOSE t \in Tasks : InRefresh(t) /\ root[t] = r
        ELSE Nobody]

Mutex == INSTANCE RefreshMutex WITH holder <- Holder

(* Every behaviour of the handlers is one of RefreshMutex: slots are taken when
   free, given back by their holder, and freed by the end of the process. *)
ImplementsRefreshMutex == Mutex!Spec
=============================================================================
