--------------------------- MODULE MCServerLoops ---------------------------
(***************************************************************************)
(* The two loops that run in the server beside the requests share no       *)
(* variable: a behaviour is one of the watch loop or one of the client     *)
(* lifecycle loop. A project, another whose name begins with its name, and *)
(* a plugin inside the second, with a source file and an asset.            *)
(***************************************************************************)
EXTENDS WatchLoop, ClientLifecycle

CONSTANTS game, game2, plugin, source, asset

VARIABLE part

MCPrefixes == [d \in Dirs |-> CASE d = game -> {game}
                                [] d = game2 -> {game, game2}
                                [] d = plugin -> {game, game2, plugin}]
MCDir == [f \in Files |-> IF f = source THEN plugin ELSE game2]
MCHolders == [f \in Files |-> IF f = source THEN {game2, plugin} ELSE {game2}]
MCKind == [f \in Files |-> IF f = source THEN "source" ELSE "asset"]
MCMaxVersion == [f \in Files |-> IF f = source THEN 3 ELSE 2]
MCConnections == [d \in Dirs |-> IF d = plugin THEN 2 ELSE 1]

\* Enough workers, as WatchAnswered needs them.
ASSUME EnoughWorkers == Cardinality(Requests) < Workers

MCInit ==
    /\ Init /\ LifecycleInit
    /\ \/ part = "watch" /\ running = {} /\ projects \in {{game, game2}, {game, plugin}}
       \/ part = "clients" /\ projects = {}

MCNext ==
    /\ \/ part = "watch" /\ Next /\ UNCHANGED clientVars
       \/ part = "clients" /\ LifecycleNext /\ UNCHANGED vars
    /\ UNCHANGED part

MCSpec ==
    /\ MCInit /\ [][MCNext]_<<vars, clientVars, part>>
    /\ part = "watch" => Fairness
    /\ part = "clients" => LifecycleFairness

(* A server whose clients have ended for good exits (spawn_client_lifecycle_loop). *)
ServerExits == part = "clients" => IdleServerExits
=============================================================================
