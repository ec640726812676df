-------------------------- MODULE ClientLifecycle --------------------------
(***************************************************************************)
(* The clients a server lives for: editors register their process id by    *)
(* pings (register_client), and a loop removes the ids of processes that   *)
(* are gone and ends the server when there has been no client for a while  *)
(* (spawn_client_lifecycle_loop). The list of processes is read once per   *)
(* round, before the loop looks at the clients, and a ping stores the id   *)
(* and the time in two steps, each under a lock of its own.                *)
(*                                                                         *)
(* Time is counted in rounds of the loop (CLIENT_CHECK_INTERVAL_SECS).     *)
(***************************************************************************)
EXTENDS Naturals

CONSTANTS Pids,     \* process ids of clients
          IdleLimit \* IDLE_SHUTDOWN_SECS in rounds

ASSUME LifecycleAssumption == IdleLimit \in Nat

VARIABLES running,        \* processes
          active_clients, \* registered process ids
          age,            \* rounds since last_activity, up to IdleLimit + 1
          pinging,        \* pids inserted whose time is not stored yet
          loop,           \* sleep, remove, check, exit or ended
          system,         \* processes as last read
          \* history, read by no action:
          announced,      \* processes that have pinged
          newcomers,      \* processes started since the loop last woke
          overlooked      \* newcomers removed for not being listed

clientVars == <<running, active_clients, age, pinging, loop, system,
                announced, newcomers, overlooked>>
history == <<announced, newcomers, overlooked>>

LifecycleTypeOK ==
    /\ running \in SUBSET Pids /\ active_clients \in SUBSET Pids
    /\ age \in 0..(IdleLimit + 1) /\ pinging \in SUBSET Pids
    /\ loop \in {"sleep", "remove", "check", "exit", "ended"}
    /\ system \in SUBSET Pids
    /\ announced \in SUBSET Pids /\ newcomers \in SUBSET Pids /\ overlooked \in SUBSET Pids

LifecycleInit ==
    /\ running \in SUBSET Pids
    /\ active_clients = {} /\ age = 0 /\ pinging = {}
    /\ loop = "sleep" /\ system = running
    /\ announced = {} /\ newcomers = {} /\ overlooked = {}

Up == loop # "ended"

-----------------------------------------------------------------------------
\* Processes and pings

ProcessStarts(p) ==
    /\ p \notin running
    /\ running' = running \union {p}
    /\ newcomers' = newcomers \union {p}
    /\ UNCHANGED <<active_clients, age, pinging, loop, system, announced, overlooked>>

ProcessEnds(p) ==
    /\ p \in running
    /\ running' = running \ {p}
    /\ announced' = announced \ {p}
    /\ newcomers' = newcomers \ {p}
    /\ overlooked' = overlooked \ {p}
    /\ UNCHANGED <<active_clients, age, pinging, loop, system>>

\* register_client: active_clients.insert
Register(p) ==
    /\ p \in running /\ p \notin pinging /\ Up
    /\ active_clients' = active_clients \union {p}
    /\ pinging' = pinging \union {p}
    /\ announced' = announced \union {p}
    /\ overlooked' = overlooked \ {p}
    /\ UNCHANGED <<running, age, loop, system, newcomers>>

\* register_client: the time of the last activity
StampActivity(p) ==
    /\ p \in pinging /\ Up
    /\ age' = 0
    /\ pinging' = pinging \ {p}
    /\ UNCHANGED <<running, active_clients, loop, system, history>>

-----------------------------------------------------------------------------
\* The loop

\* Faulty variant: the list is read at the start and kept.
ProcessListKept == system

\* System::refresh_processes
ProcessList == running

\* sleep and refresh_processes
Wake ==
    /\ loop = "sleep"
    /\ system' = ProcessList
    /\ age' = IF age > IdleLimit THEN age ELSE age + 1
    /\ newcomers' = {}
    /\ loop' = "remove"
    /\ UNCHANGED <<running, active_clients, pinging, announced, overlooked>>

\* Faulty variant: dead clients stay.
AliveAll == active_clients

Alive == active_clients \cap system

RemoveDeadClients ==
    /\ loop = "remove"
    /\ active_clients' = Alive
    /\ overlooked' = overlooked \union ((active_clients \ Alive) \cap newcomers)
    /\ loop' = "check"
    /\ UNCHANGED <<running, age, pinging, system, announced, newcomers>>

\* should_shutdown_for_idle holds active_clients only while it is empty.
CheckIdle ==
    /\ loop = "check"
    /\ \/ /\ active_clients = {}
          /\ loop' = IF age > IdleLimit THEN "exit" ELSE "sleep"
          /\ UNCHANGED age
       \/ /\ active_clients # {}
          /\ age' = 0
          /\ loop' = "sleep"
    /\ UNCHANGED <<running, active_clients, pinging, system, history>>

\* process::exit
Exit ==
    /\ loop = "exit"
    /\ loop' = "ended"
    /\ UNCHANGED <<running, active_clients, age, pinging, system, history>>

LifecycleNext ==
    \/ \E p \in Pids :
          ProcessStarts(p) \/ ProcessEnds(p) \/ Register(p) \/ StampActivity(p)
    \/ Wake \/ RemoveDeadClients \/ CheckIdle \/ Exit

LifecycleFairness == WF_clientVars(Wake \/ RemoveDeadClients \/ CheckIdle \/ Exit)

LifecycleSpec == LifecycleInit /\ [][LifecycleNext]_clientVars /\ LifecycleFairness

-----------------------------------------------------------------------------
\* Properties

(* When the server decides to exit, every client that has pinged and still runs
   was dropped because its process was started after the list of processes was
   read and its ping came before the clients were looked through, or it is
   pinging just now. Nothing else ends a server that has a client: not a ping
   that races the round, nor another client that ends. *)
ExitOverlooksOnlyNewcomers ==
    loop = "check" /\ active_clients = {} => announced \subseteq overlooked

(* A server whose clients have ended for good, and that is not pinged any more,
   exits (registered ids of dead processes do not keep it up). *)
IdleServerExits == <>[](running = {}) => <>(loop = "ended")
=============================================================================
