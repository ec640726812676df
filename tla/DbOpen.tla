------------------------------- MODULE DbOpen -------------------------------
(***************************************************************************)
(* Opening the index database of one project: ensure_correct_version and   *)
(* its three callers, handle_setup, get_connection and open_refresh_db, in *)
(* the server and in u_scanner processes that refresh or scan the same     *)
(* file. save_to_db, which the watcher and scan requests call, prepares    *)
(* the tables again on the connection it is given.                         *)
(*                                                                         *)
(* A path names a file (an inode) or nothing; removing the path leaves the *)
(* inode to the connections that hold it, and SQLite creates an empty file *)
(* when a path it opens names nothing. Each step of ensure_correct_version *)
(* is a file operation or an autocommitted statement of its own, and       *)
(* nothing but RefreshGuard keeps two tasks apart.                         *)
(***************************************************************************)
CONSTANTS Tasks,   \* tasks and CLI processes that open the database
          Inodes,  \* files; each is created once (bounds the run)
          NoInode

ASSUME FileAssumption == NoInode \notin Inodes

VARIABLES file,    \* the inode at the path, or NoInode
          schema,  \* what each inode holds
          rows,    \* inodes with files and classes rows
          conn,    \* AppState.connections: inode of the connection, or NoInode
          op,      \* per task: what it was asked for
          pc,      \* per task: next step
          handle,  \* per task: inode of the connection it has opened
          verdict, \* per task: needs_full_refresh answered by its last setup
          disturbed \* history: a process was killed or a file operation failed

openVars == <<file, schema, rows, conn, op, pc, handle, verdict, disturbed>>
fileVars == <<file, schema, rows>>

\* empty: no project_meta table; unversioned: all tables, no db_version row.
Schemas == {"free", "empty", "unversioned", "old", "current"}
\* get: a connection only; save: one that save_to_db then writes through;
\* cli, scan: a u_scanner process that refreshes or scans with no server.
Ops == {"setup", "get", "save", "refresh", "cli", "scan"}
OwnProcess == {"cli", "scan"}
EnsureSteps == {"exists", "check", "remove", "create", "tables", "version"}
Steps == EnsureSteps \union
         {"idle", "count", "cached", "open", "store",
          "initTables", "initVersion", "write"}
Verdicts == {"none", "ready", "refresh"}

OpenTypeOK ==
    /\ file \in Inodes \union {NoInode}
    /\ schema \in [Inodes -> Schemas]
    /\ rows \in SUBSET Inodes
    /\ conn \in Inodes \union {NoInode}
    /\ op \in [Tasks -> Ops]
    /\ pc \in [Tasks -> Steps]
    /\ handle \in [Tasks -> Inodes \union {NoInode}]
    /\ verdict \in [Tasks -> Verdicts]
    /\ disturbed \in BOOLEAN

\* No database yet, one of an earlier version, or a usable one.
OpenInit ==
    /\ \/ /\ file = NoInode
          /\ schema = [i \in Inodes |-> "free"]
          /\ rows = {}
       \/ \E i \in Inodes, s \in {"old", "current"} :
             /\ file = i
             /\ schema = [j \in Inodes |-> IF j = i THEN s ELSE "free"]
             /\ rows = {i}
    /\ conn = NoInode
    /\ op = [t \in Tasks |-> "get"]
    /\ pc = [t \in Tasks |-> "idle"]
    /\ handle = [t \in Tasks |-> NoInode]
    /\ verdict = [t \in Tasks |-> "none"]
    /\ disturbed = FALSE

At(t, step) == pc[t] = step
Goto(t, step) == pc' = [pc EXCEPT ![t] = step]

\* sqlite3_open and the first access: the file at the path, or a new empty one.
OpenPath(i) ==
    \/ i = file /\ i # NoInode /\ UNCHANGED <<file, schema>>
    \/ /\ file = NoInode
       /\ i \in Inodes /\ schema[i] = "free"
       /\ file' = i
       /\ schema' = [schema EXCEPT ![i] = "empty"]

-----------------------------------------------------------------------------
\* Requests

\* RefreshGuard: one refresh of the project at a time in the server.
NoRefresh == \A t \in Tasks : op[t] = "refresh" => pc[t] = "idle"

\* handle_setup and handle_refresh drop the cached connection first.
Start(t, o) ==
    /\ At(t, "idle")
    /\ o = "refresh" => NoRefresh
    /\ op' = [op EXCEPT ![t] = o]
    /\ Goto(t, CASE o \in {"get", "save"} -> "cached"
                 [] o = "scan" -> "open"
                 [] OTHER -> "exists")
    /\ conn' = IF o \in {"setup", "refresh"} THEN NoInode ELSE conn
    /\ handle' = [handle EXCEPT ![t] = NoInode]
    /\ verdict' = [verdict EXCEPT ![t] = "none"]
    /\ UNCHANGED <<fileVars, disturbed>>

\* Ok(false) or Ok(true) of ensure_correct_version, and Err.
AfterReady(t) == IF op[t] = "setup" THEN "count" ELSE "open"

AfterError(t) == IF op[t] = "setup" THEN "count" ELSE "idle"

\* What follows once get_connection has a connection.
AfterConnected(t) == IF op[t] = "save" THEN "initTables" ELSE "idle"

\* A setup, a refresh of the server: get_connection comes last.
Finish(t) ==
    IF op[t] \in {"setup", "refresh"}
    THEN Goto(t, "cached") /\ op' = [op EXCEPT ![t] = "get"]
    ELSE Goto(t, "idle") /\ UNCHANGED op

-----------------------------------------------------------------------------
\* ensure_correct_version

Exists(t) ==
    /\ At(t, "exists")
    /\ Goto(t, IF file = NoInode THEN "create" ELSE "check")
    /\ UNCHANGED <<fileVars, conn, op, handle, verdict, disturbed>>

\* database_version_matches: a missing project_meta table is an error, a
\* missing db_version row a mismatch.
Check(t) ==
    /\ At(t, "check")
    /\ \E i \in Inodes :
          /\ OpenPath(i)
          /\ Goto(t, CASE schema'[i] = "empty" -> AfterError(t)
                       [] schema'[i] = "current" -> AfterReady(t)
                       [] OTHER -> "remove")
    /\ UNCHANGED <<rows, conn, op, handle, verdict, disturbed>>

\* Faulty variant: the result of remove_file is ignored, and it may fail.
RemovePathIgnored(t) == file' \in {file, NoInode} /\ Goto(t, "create")

RemovePath(t) ==
    /\ file' = NoInode
    /\ Goto(t, IF file = NoInode THEN AfterError(t) ELSE "create")

\* remove_file: another task may have removed it already.
Remove(t) ==
    /\ At(t, "remove")
    /\ RemovePath(t)
    /\ UNCHANGED <<schema, rows, conn, op, handle, verdict, disturbed>>

Create(t) ==
    /\ At(t, "create")
    /\ \E i \in Inodes :
          /\ OpenPath(i)
          /\ handle' = [handle EXCEPT ![t] = i]
    /\ Goto(t, "tables")
    /\ UNCHANGED <<rows, conn, op, verdict, disturbed>>

\* init_db: CREATE TABLE IF NOT EXISTS ..., then the version row.
CreateTables(t) ==
    LET i == handle[t] IN
    schema' = [schema EXCEPT ![i] = IF @ = "empty" THEN "unversioned" ELSE @]

\* Faulty variant: the version row is not written.
StampVersionForgotten(t) == UNCHANGED schema

StampVersion(t) == schema' = [schema EXCEPT ![handle[t]] = "current"]

Tables(t) ==
    /\ At(t, "tables")
    /\ CreateTables(t)
    /\ Goto(t, "version")
    /\ UNCHANGED <<file, rows, conn, op, handle, verdict, disturbed>>

\* Ok(true) makes a setup answer needs_full_refresh without counting.
Version(t) ==
    /\ At(t, "version")
    /\ StampVersion(t)
    /\ IF op[t] = "setup"
       THEN Finish(t) /\ verdict' = [verdict EXCEPT ![t] = "refresh"]
       ELSE Goto(t, "open") /\ UNCHANGED <<op, verdict>>
    /\ UNCHANGED <<file, rows, conn, handle, disturbed>>

-----------------------------------------------------------------------------
\* The callers

\* ensure_database_ready: ensure_correct_version(..).unwrap_or(false), then the
\* rows of whatever the path names are counted.
Count(t) ==
    /\ At(t, "count")
    /\ \E i \in Inodes :
          /\ OpenPath(i)
          /\ verdict' = [verdict EXCEPT ![t] =
                           IF i \in rows THEN "ready" ELSE "refresh"]
    /\ Finish(t)
    /\ UNCHANGED <<rows, conn, handle, disturbed>>

\* get_connection: a cached connection is used as it is.
Cached(t) ==
    /\ At(t, "cached")
    /\ \/ /\ conn = NoInode
          /\ Goto(t, "exists")
          /\ UNCHANGED handle
       \/ /\ conn # NoInode
          /\ Goto(t, AfterConnected(t))
          /\ handle' = [handle EXCEPT ![t] = conn]
    /\ UNCHANGED <<fileVars, conn, op, verdict, disturbed>>

Open(t) ==
    /\ At(t, "open")
    /\ \E i \in Inodes :
          /\ OpenPath(i)
          /\ handle' = [handle EXCEPT ![t] = i]
    /\ Goto(t, IF op[t] \in {"get", "save"} THEN "store" ELSE "initTables")
    /\ UNCHANGED <<rows, conn, op, verdict, disturbed>>

\* entry(db_path).or_insert: a connection stored meanwhile is kept.
Store(t) ==
    /\ At(t, "store")
    /\ conn' = IF conn = NoInode THEN handle[t] ELSE conn
    /\ handle' = [handle EXCEPT ![t] = conn']
    /\ Goto(t, AfterConnected(t))
    /\ UNCHANGED <<fileVars, op, verdict, disturbed>>

\* handle_source_change: the index has no module for the file.
Skip(t) ==
    /\ At(t, "initTables") /\ op[t] = "save"
    /\ Goto(t, "idle")
    /\ UNCHANGED <<fileVars, conn, op, handle, verdict, disturbed>>

\* init_db, on a connection open_refresh_db or save_to_db works with.
InitTables(t) ==
    /\ At(t, "initTables")
    /\ CreateTables(t)
    /\ Goto(t, "initVersion")
    /\ UNCHANGED <<file, rows, conn, op, handle, verdict, disturbed>>

InitVersion(t) ==
    /\ At(t, "initVersion")
    /\ StampVersion(t)
    /\ Goto(t, "write")
    /\ UNCHANGED <<file, rows, conn, op, handle, verdict, disturbed>>

\* The rest of run_refresh or save_to_db, which may find nothing to write.
Write(t) ==
    /\ At(t, "write")
    /\ rows' \in {rows, rows \union {handle[t]}}
    /\ Finish(t)
    /\ UNCHANGED <<file, schema, conn, handle, verdict, disturbed>>

-----------------------------------------------------------------------------
\* Failures

\* A file operation or a statement fails (a file in use, a locked database).
Fail(t) ==
    /\ pc[t] \notin {"idle", "exists", "cached", "store"}
    /\ Goto(t, IF pc[t] \in EnsureSteps THEN AfterError(t) ELSE "idle")
    /\ disturbed' = TRUE
    /\ UNCHANGED <<fileVars, conn, op, handle, verdict>>

\* The server, or a u_scanner process, ends between two steps.
Kill(S) ==
    /\ pc' = [t \in Tasks |-> IF t \in S THEN "idle" ELSE pc[t]]
    /\ op' = [t \in Tasks |-> IF t \in S THEN "get" ELSE op[t]]
    /\ handle' = [t \in Tasks |-> IF t \in S THEN NoInode ELSE handle[t]]
    /\ verdict' = [t \in Tasks |-> IF t \in S THEN "none" ELSE verdict[t]]
    /\ disturbed' = TRUE
    /\ UNCHANGED fileVars

KillServer == Kill({t \in Tasks : op[t] \notin OwnProcess}) /\ conn' = NoInode
KillCli(t) == op[t] \in OwnProcess /\ Kill({t}) /\ UNCHANGED conn

Work(t) ==
    \/ Exists(t) \/ Check(t) \/ Remove(t) \/ Create(t) \/ Tables(t) \/ Version(t)
    \/ Count(t) \/ Cached(t) \/ Open(t) \/ Store(t)
    \/ Skip(t) \/ InitTables(t) \/ InitVersion(t) \/ Write(t)

OpenNext ==
    \/ \E t \in Tasks :
          (\E o \in Ops : Start(t, o)) \/ Work(t) \/ Fail(t) \/ KillCli(t)
    \/ KillServer

OpenSpec == OpenInit /\ [][OpenNext]_openVars

\* A task that was started is run on.
FairOpenSpec == OpenSpec /\ \A t \in Tasks : WF_openVars(Work(t))

-----------------------------------------------------------------------------
\* Properties

Quiescent == \A t \in Tasks : At(t, "idle")

(* A database of an earlier version is rebuilt or left alone, never stamped
   with the current version over its old tables, however openings, removals and
   kills interleave: init_db creates only what is missing, so it must not run on
   a file that ensure_correct_version would find old. Only a local scan, which
   opens the file without ensure_correct_version (run_scan_locally), does. *)
OldStampedOnlyByScan ==
    [][\A i \in Inodes : schema[i] = "old" /\ schema'[i] # "old"
          => \E t \in Tasks : op[t] = "scan" /\ handle[t] = i /\ InitVersion(t)]_openVars

(* However setups, refreshes and the watcher interleave, they do not leave a
   half-made database behind: one without its tables or its version needs a
   process killed or a failed file operation. *)
HalfMadeOnlyAfterFailure ==
    Quiescent /\ ~disturbed /\ file # NoInode => schema[file] \in {"old", "current"}

(* "Ensure SQLite database exists, version matches, and has required data"
   (handlers.rs, ensure_database_ready): a setup that does not ask for a full
   refresh has a database of the current version. *)
ReadyMeansCurrent ==
    [][\A t \in Tasks :
          Count(t) /\ verdict'[t] = "ready" => schema'[file'] = "current"]_openVars
=============================================================================
