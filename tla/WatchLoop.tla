----------------------------- MODULE WatchLoop -----------------------------
(***************************************************************************)
(* The server's file watching: the notify thread that forwards events into *)
(* a bounded channel (create_file_watcher), the task that debounces and    *)
(* handles them one after the other (spawn_watch_event_loop,               *)
(* handle_file_change), the jobs it leaves on the blocking pool, and the   *)
(* watch requests (handle_watch). A request blocks a worker of the async   *)
(* runtime: it holds the watcher's mutex while notify hands the new root   *)
(* to the very thread that may be waiting for room in the channel, and the *)
(* loop that makes room needs a worker as well.                            *)
(*                                                                         *)
(* A job holds the connection that was cached when it was left behind; a   *)
(* setup or refresh drops the cached one (drop_db_connections), so that    *)
(* the jobs of one project need not share a mutex. A file is a version     *)
(* number, raised by each change, 0 when the file is gone. Roots are names *)
(* of directories; Prefixes[d] are the directory names that are string     *)
(* prefixes of d, whether they contain it or not.                          *)
(***************************************************************************)
EXTENDS FiniteSets, Integers, Sequences

CONSTANTS Dirs,        \* directories, each a possible project root
          Prefixes,    \* Prefixes[d]: names in Dirs that d begins with
          Files,       \* watched files
          Dir,         \* Dir[f]: the innermost of Dirs that holds f
          Holders,     \* Holders[f]: all of Dirs that hold f
          Kind,        \* Kind[f]: "ini", "asset", "source" or "other"
          Requests,    \* watch requests
          Workers,     \* worker threads of the async runtime
          ChannelSize, \* WATCH_EVENT_CHANNEL_SIZE
          MaxVersion,  \* MaxVersion[f]: bound on the versions of f
          Connections, \* Connections[d]: bound on the connections of d, one by one
          None

ASSUME WatchAssumption ==
    /\ IsFiniteSet(Dirs)
    /\ Prefixes \in [Dirs -> SUBSET Dirs] /\ \A d \in Dirs : d \in Prefixes[d]
    /\ \A d \in Dirs : \A e \in Prefixes[d] :
          Prefixes[e] \subseteq Prefixes[d] /\ (d \in Prefixes[e] => d = e)
    /\ Dir \in [Files -> Dirs] /\ Holders \in [Files -> SUBSET Dirs]
    /\ \A f \in Files : Dir[f] \in Holders[f] /\ Holders[f] \subseteq Prefixes[Dir[f]]
    /\ Kind \in [Files -> {"ini", "asset", "source", "other"}]
    /\ Workers \in Nat \ {0} /\ ChannelSize \in Nat \ {0} /\ MaxVersion \in [Files -> Nat \ {0}]
    /\ Connections \in [Dirs -> Nat \ {0}]
    /\ None \notin Files \union Dirs \union Requests

VARIABLES disk,      \* file -> version, 0 when gone
          watched,   \* roots given to notify
          projects,  \* registered roots
          raw,       \* paths reported by the system, not yet forwarded
          chan,      \* paths in the channel
          recent,    \* files handled less than WATCH_DEBOUNCE_MS ago
          conn,      \* project -> number of the connection AppState has cached
          jobs,      \* <<file, project, connection>> handed to the blocking pool
          parsed,    \* <<file, project, connection, version>> parsed, to be saved
          seen,      \* file -> <<project, version, connection>> last taken in
          pc, root,  \* per request: step and the root it watches
          mutex,     \* the request that holds the watcher's mutex
          missed     \* history: files with a change that no handler was told of,
                     \* that one gave up, or that an older version has overwritten

vars == <<disk, watched, projects, raw, chan, recent, conn, jobs, parsed, seen,
          pc, root, mutex, missed>>
pool == <<conn, jobs, parsed>>
requests == <<pc, root, mutex, watched>>

TypeOK ==
    /\ disk \in [Files -> Nat] /\ \A f \in Files : disk[f] <= MaxVersion[f]
    /\ watched \in SUBSET Dirs /\ projects \in SUBSET Dirs
    /\ raw \in Seq(Files) /\ chan \in Seq(Files) /\ Len(chan) <= ChannelSize
    /\ recent \in SUBSET Files
    /\ conn \in [Dirs -> Nat]
    /\ jobs \in SUBSET (Files \X Dirs \X Nat)
    /\ parsed \in SUBSET (Files \X Dirs \X Nat \X Nat)
    /\ seen \in [Files -> (Dirs \union {None}) \X Nat \X Nat]
    /\ pc \in [Requests -> {"idle", "lock", "watch"}]
    /\ root \in [Requests -> Dirs \union {None}]
    /\ mutex \in Requests \union {None}
    /\ missed \in SUBSET Files

Unseen == <<None, 0, 0>>

Init ==
    /\ disk = [f \in Files |-> 1]
    /\ watched = {} /\ projects \in SUBSET Dirs
    /\ raw = << >> /\ chan = << >> /\ recent = {}
    /\ conn = [d \in Dirs |-> 1] /\ jobs = {} /\ parsed = {}
    /\ seen = [f \in Files |-> Unseen]
    /\ pc = [r \in Requests |-> "idle"] /\ root = [r \in Requests |-> None]
    /\ mutex = None /\ missed = {}

-----------------------------------------------------------------------------
\* Workers

\* Requests that keep a worker thread waiting or busy.
Blocking == {r \in Requests : pc[r] # "idle"}

WorkerFree == Cardinality(Blocking) < Workers

\* The event thread waits in blocking_send.
Stuck == raw # << >> /\ Len(chan) = ChannelSize

-----------------------------------------------------------------------------
\* The file system and the event thread

\* A file changes, or is removed for good. A root is watched with all below it.
Change(f, v) ==
    /\ disk[f] # 0 /\ v \in {0, disk[f] + 1} /\ v <= MaxVersion[f]
    /\ disk' = [disk EXCEPT ![f] = v]
    /\ \/ /\ Holders[f] \cap watched # {}
          /\ raw' = Append(raw, f)
          /\ UNCHANGED missed
       \/ /\ Holders[f] \cap watched = {}
          /\ missed' = missed \union {f}
          /\ UNCHANGED raw
    /\ UNCHANGED <<projects, chan, recent, pool, seen, requests>>

\* blocking_send: waits while the channel is full.
Forward ==
    /\ raw # << >> /\ ~Stuck
    /\ chan' = Append(chan, Head(raw))
    /\ raw' = Tail(raw)
    /\ UNCHANGED <<disk, projects, recent, pool, seen, requests, missed>>

\* WATCH_DEBOUNCE_MS have passed since f was last handled.
Calm(f) ==
    /\ f \in recent
    /\ recent' = recent \ {f}
    /\ UNCHANGED <<disk, projects, raw, chan, pool, seen, requests, missed>>

-----------------------------------------------------------------------------
\* The event loop

\* Registered roots the path begins with: no separator is asked for.
Matching(f) == {d \in projects : d \in Prefixes[Dir[f]]}

\* Faulty variant: the shortest match is taken.
OwnerShortest(f) ==
    {d \in Matching(f) : \A e \in Matching(f) :
        Cardinality(Prefixes[d]) <= Cardinality(Prefixes[e])}

\* find_project_for_path: the longest match, if any.
Owner(f) ==
    {d \in Matching(f) : \A e \in Matching(f) :
        Cardinality(Prefixes[e]) <= Cardinality(Prefixes[d])}

\* A file that is gone, of no project or of no known kind.
Ignored(f) == disk[f] = 0 \/ Owner(f) = {} \/ Kind[f] = "other"

\* mark_config_cache_dirty marks, update_single_asset reads the asset within the
\* loop, handle_source_change leaves a job behind and does not wait for it.
TakeIn(f, d) ==
    \/ /\ Kind[f] = "source"
       /\ jobs' = jobs \union {<<f, d, conn[d]>>}
       /\ UNCHANGED seen
    \/ /\ Kind[f] \in {"ini", "asset"}
       /\ seen' = [seen EXCEPT ![f] = <<d, disk[f], 0>>]
       /\ UNCHANGED jobs

\* The connection does not open, or the asset does not parse.
GiveUp(f) == Kind[f] \in {"source", "asset"} /\ UNCHANGED <<jobs, seen>>

HandleFileChange(f) ==
    \/ Ignored(f) /\ UNCHANGED <<jobs, seen>> /\ missed' = missed \ {f}
    \/ /\ ~Ignored(f)
       /\ \/ (\E d \in Owner(f) : TakeIn(f, d)) /\ missed' = missed \ {f}
          \/ GiveUp(f) /\ missed' = missed \union {f}

\* should_skip_by_debounce leaves last_seen alone when it skips.
Skip(f) ==
    /\ f \in recent
    /\ missed' = missed \union {f}
    /\ UNCHANGED <<recent, jobs, seen>>

Handle(f) ==
    /\ f \notin recent
    /\ recent' = recent \union {f}
    /\ HandleFileChange(f)

Receive ==
    /\ chan # << >> /\ WorkerFree
    /\ chan' = Tail(chan)
    /\ Skip(Head(chan)) \/ Handle(Head(chan))
    /\ UNCHANGED <<disk, projects, raw, conn, parsed, requests>>

-----------------------------------------------------------------------------
\* The jobs of handle_source_change

\* Faulty variant: the connection is locked for the save alone.
LockedIgnored(d, c) == FALSE

\* Connection c of d: its mutex is held from before the parse until the save.
Locked(d, c) == \E j \in parsed : j[2] = d /\ j[3] = c

\* The file is read when its job's turn comes. The job ends with nothing done if
\* no module is found, a query does not compile or the file does not parse; one
\* that is gone never does.
ParseJob(f, d, c) ==
    /\ <<f, d, c>> \in jobs /\ ~Locked(d, c)
    /\ jobs' = jobs \ {<<f, d, c>>}
    /\ \/ disk[f] # 0 /\ parsed' = parsed \union {<<f, d, c, disk[f]>>} /\ UNCHANGED missed
       \/ missed' = missed \union {f} /\ UNCHANGED parsed
    /\ UNCHANGED <<disk, projects, raw, chan, recent, conn, seen, requests>>

\* save_to_db, which may fail while another connection writes.
SaveJob(f, d, c, v) ==
    /\ <<f, d, c, v>> \in parsed
    /\ parsed' = parsed \ {<<f, d, c, v>>}
    /\ \/ /\ seen' = [seen EXCEPT ![f] = <<d, v, c>>]
          /\ missed' = IF v < seen[f][2] THEN missed \union {f} ELSE missed
       \/ missed' = missed \union {f} /\ UNCHANGED seen
    /\ UNCHANGED <<disk, projects, raw, chan, recent, conn, jobs, requests>>

\* drop_db_connections of a setup or a refresh, and the connection opened next;
\* jobs keep the one they hold.
DropConnection(d) ==
    /\ conn[d] < Connections[d]
    /\ conn' = [conn EXCEPT ![d] = @ + 1]
    /\ UNCHANGED <<disk, projects, raw, chan, recent, jobs, parsed, seen, requests, missed>>
-----------------------------------------------------------------------------
\* Watch requests and restarts

\* handle_watch begins on a worker of its own; clients watch their projects.
StartWatch(r, d) ==
    /\ pc[r] = "idle" /\ WorkerFree
    /\ pc' = [pc EXCEPT ![r] = "lock"]
    /\ root' = [root EXCEPT ![r] = d]
    /\ UNCHANGED <<disk, watched, projects, raw, chan, recent, pool, seen, mutex,
                   missed>>

Lock(r) ==
    /\ pc[r] = "lock" /\ mutex = None
    /\ pc' = [pc EXCEPT ![r] = "watch"]
    /\ mutex' = r
    /\ UNCHANGED <<disk, watched, projects, raw, chan, recent, pool, seen, root,
                   missed>>

\* Faulty variant: the guard is never dropped.
UnlockForgotten(r) == UNCHANGED mutex

Unlock(r) == mutex' = None

\* watch waits for the event thread to take the new root.
Watch(r) ==
    /\ pc[r] = "watch" /\ ~Stuck
    /\ watched' = watched \union {root[r]}
    /\ pc' = [pc EXCEPT ![r] = "idle"]
    /\ root' = [root EXCEPT ![r] = None]
    /\ Unlock(r)
    /\ UNCHANGED <<disk, projects, raw, chan, recent, pool, seen, missed>>

\* No event of f is on its way.
Settled(f) ==
    /\ \A i \in DOMAIN raw : raw[i] # f
    /\ \A i \in DOMAIN chan : chan[i] # f
    /\ \A j \in jobs \union parsed : j[1] # f

\* A new process knows the registered projects and watches none of them. What
\* was in memory, of assets and ini files, is gone with the old one.
Restart ==
    /\ raw' = << >> /\ chan' = << >> /\ recent' = {} /\ jobs' = {} /\ parsed' = {}
    /\ seen' = [f \in Files |-> IF Kind[f] = "source" THEN seen[f] ELSE Unseen]
    /\ missed' = missed \union {f \in Files : ~Settled(f) \/ Kind[f] # "source"}
    /\ watched' = {} /\ mutex' = None
    /\ pc' = [r \in Requests |-> "idle"] /\ root' = [r \in Requests |-> None]
    /\ UNCHANGED <<disk, projects, conn>>

Next ==
    \/ \E f \in Files : \E v \in 0..MaxVersion[f] : Change(f, v)
    \/ Forward
    \/ \E f \in Files : Calm(f)
    \/ Receive
    \/ \E j \in jobs : ParseJob(j[1], j[2], j[3])
    \/ \E j \in parsed : SaveJob(j[1], j[2], j[3], j[4])
    \/ \E d \in projects : DropConnection(d)
    \/ \E r \in Requests : (\E d \in projects : StartWatch(r, d)) \/ Lock(r) \/ Watch(r)
    \/ Restart

\* The threads run, and a request that waits for the mutex gets it in its turn.
Fairness ==
    /\ WF_vars(Forward) /\ WF_vars(Receive)
    /\ \A r \in Requests : SF_vars(Lock(r)) /\ WF_vars(Watch(r))

Spec == Init /\ [][Next]_vars /\ Fairness

-----------------------------------------------------------------------------
\* Properties

(* Once all events of a file have been dealt with, the project the file belongs
   to has its present version, whatever the order of events, jobs and
   restarts, and even if the root of another project is a prefix of its path.
   The exceptions are a file that is gone; a change no handler was told of:
   under no watch, lost in a restart, or skipped by the debounce, which handles
   the first of two changes in a row and drops the last; a change a handler or
   its job gave up (no connection, no module, no parse, no save); and a version
   that a job on another connection has overwritten with an older one. *)
SettledIsPresent ==
    \A f \in Files :
        /\ Settled(f) /\ f \notin missed /\ disk[f] > 1
        /\ Dir[f] \in projects /\ Kind[f] # "other"
        => seen[f][1] = Dir[f] /\ seen[f][2] = disk[f]

(* A job overwrites a version of a file with an older one only if the newer was
   saved through another connection: jobs that share a connection read the file
   and save what they read under its mutex, one after the other, so only a
   setup or refresh between the events of two changes sets them racing. *)
OnlyConnectionsGoBack ==
    [][\A f \in Files :
          /\ Kind[f] = "source" /\ seen'[f][1] = seen[f][1]
          /\ seen'[f][2] < seen[f][2]
          => seen'[f][3] # seen[f][3]]_vars

(* A watch request ends, however full the channel is when it comes: the loop
   keeps a worker and makes room for the event thread, which then takes the
   new root (handle_watch waits on a worker, under the watcher's mutex). This
   needs more workers than requests at a time; see WatchAssumption's Workers. *)
WatchAnswered == \A r \in Requests : pc[r] = "lock" ~> pc[r] = "idle"
=============================================================================
