----------------------------- MODULE AssetScan -----------------------------
(***************************************************************************)
(* The in-memory asset graph of one project: full scans started by setup   *)
(* and by queries (handle_asset_scan), updates of single assets by the     *)
(* watcher (update_single_asset), and the files both of them parse.        *)
(*                                                                         *)
(* The graph is the set of its edges <<table, name, asset path>>, where    *)
(* the table is derived, references or functions; a version of an asset    *)
(* file is abstracted to the <<table, name>> pairs that parsing it yields. *)
(* Several files may have one asset path: that of Content/X.uasset is that *)
(* of Content/X.umap, of the X of a plugin's Content, and of x. The        *)
(* watcher loop handles one file at a time; a scan runs on a thread of its *)
(* own and takes the lock of the graphs only to store its result.          *)
(***************************************************************************)
EXTENDS FiniteSets

CONSTANTS Assets,         \* asset files that scans list and the watcher takes
          AssetPaths,     \* asset paths, in lower case
          PathOf,         \* PathOf[a]: to_asset_path of file a
          AssetVersions,  \* versions of an asset file
          Absent,         \* no file
          Edges,          \* Edges[v]: the <<table, name>> pairs of version v
          Scanners        \* tasks that may be spawned to scan (bounds the run)

ASSUME AssetAssumption ==
    /\ Absent \notin AssetVersions \union Assets
    /\ DOMAIN Edges = AssetVersions
    /\ PathOf \in [Assets -> AssetPaths]

VARIABLES disk,      \* asset -> version of its file, or Absent
          active,    \* root in active_asset_scans
          hasGraph,  \* root in asset_graphs
          graph,     \* edges of the stored graph
          checked,   \* a query has seen that there is no graph
          scan,      \* per scanner: its step
          report,    \* per scanner: asset -> version it has parsed, or Absent
          listed,    \* per scanner: files listed and not parsed yet
          changed,   \* changed paths the watcher has not handled yet
          updating,  \* path handled by the watcher, or Absent
          record,    \* what it has parsed, or Absent
          \* history, read by no action:
          failed,    \* files deleted, not parsed, skipped by debouncing, parsed too
                     \* early, or whose edges the update of another file of their
                     \* path removed, and in no update or scan since
          overlapped \* files last updated by the watcher during a scan that has
                     \* not stored the same version

assetVars == <<disk, active, hasGraph, graph, checked, scan, report, listed, changed,
          updating, record, failed, overlapped>>
watcher == <<changed, updating, record>>
scanner == <<scan, report, listed>>
assetHistory == <<failed, overlapped>>

Pairs == UNION {Edges[v] : v \in AssetVersions}
Content == AssetVersions \union {Absent}

AssetTypeOK ==
    /\ disk \in [Assets -> Content]
    /\ active \in BOOLEAN /\ hasGraph \in BOOLEAN /\ checked \in BOOLEAN
    /\ graph \in SUBSET (Pairs \X AssetPaths)
    /\ scan \in [Scanners -> {"idle", "list", "parse", "insert", "release"}]
    /\ report \in [Scanners -> [Assets -> Content]]
    /\ listed \in [Scanners -> SUBSET Assets]
    /\ changed \in SUBSET Assets
    /\ updating \in Assets \union {Absent}
    /\ record \in Content
    /\ failed \in SUBSET Assets /\ overlapped \in SUBSET Assets

Nothing == [a \in Assets |-> Absent]

AssetInit ==
    /\ disk \in [Assets -> Content]
    /\ active = FALSE /\ hasGraph = FALSE /\ checked = FALSE
    /\ graph = {}
    /\ scan = [s \in Scanners |-> "idle"]
    /\ report = [s \in Scanners |-> Nothing]
    /\ listed = [s \in Scanners |-> {}]
    /\ changed = {} /\ updating = Absent /\ record = Absent
    /\ failed = {} /\ overlapped = {}

FilesOf(p) == {a \in Assets : PathOf[a] = p}

\* The edges that version v of file a has, and those the graph has for a path.
EdgesOf(v, a) == IF v = Absent THEN {} ELSE Edges[v] \X {PathOf[a]}
InGraph(p) == {e \in graph : e[2] = p}

-----------------------------------------------------------------------------
\* Starting a scan

\* Faulty variant: the flag is set without looking at it.
ClaimAnyway == active' = TRUE

\* active_asset_scans.insert under its lock.
Claim == ~active /\ active' = TRUE

Spawn(s) ==
    /\ scan[s] = "idle"
    /\ Claim
    /\ scan' = [scan EXCEPT ![s] = "list"]

\* spawn_asset_scan_if_needed: a setup scans even when there is a graph.
SetupScan(s) ==
    /\ Spawn(s)
    /\ UNCHANGED <<disk, hasGraph, graph, checked, report, listed, watcher, assetHistory>>

\* ensure_asset_scan_started: has_graph is read under one lock ...
QueryLooks ==
    /\ ~hasGraph /\ ~checked
    /\ checked' = TRUE
    /\ UNCHANGED <<disk, active, hasGraph, graph, scanner, watcher, assetHistory>>

\* ... and the flag claimed under another.
QueryClaims(s) ==
    /\ checked
    /\ checked' = FALSE
    /\ \/ Spawn(s)
       \/ active /\ UNCHANGED <<active, scan>>
    /\ UNCHANGED <<disk, hasGraph, graph, report, listed, watcher, assetHistory>>

-----------------------------------------------------------------------------
\* handle_asset_scan

\* collect_candidate_assets; discovery may fail as a whole.
List(s) ==
    /\ scan[s] = "list"
    /\ \/ /\ scan' = [scan EXCEPT ![s] = "parse"]
          /\ listed' = [listed EXCEPT ![s] = {a \in Assets : disk[a] # Absent}]
       \/ /\ scan' = [scan EXCEPT ![s] = "release"]
          /\ UNCHANGED listed
    /\ UNCHANGED <<disk, active, hasGraph, graph, checked, report, watcher, assetHistory>>

\* The files are parsed in any order; one that cannot be parsed is left out.
ScanFile(s, a) ==
    /\ scan[s] = "parse" /\ a \in listed[s]
    /\ listed' = [listed EXCEPT ![s] = @ \ {a}]
    /\ \/ /\ report' = [report EXCEPT ![s][a] = disk[a]]
          /\ UNCHANGED failed
       \/ /\ failed' = failed \union {a}
          /\ UNCHANGED report
    /\ UNCHANGED <<disk, active, hasGraph, graph, checked, scan, watcher, overlapped>>

EndParse(s) ==
    /\ scan[s] = "parse" /\ listed[s] = {}
    /\ scan' = [scan EXCEPT ![s] = "insert"]
    /\ UNCHANGED <<disk, active, hasGraph, graph, checked, report, listed, watcher,
                   assetHistory>>

\* Faulty variant: the records are added to the graph that is there.
BuiltOnto(r) == graph \union UNION {EdgesOf(r[a], a) : a \in Assets}

\* build_asset_graph
Built(r) == UNION {EdgesOf(r[a], a) : a \in Assets}

\* The new graph replaces the old one, if any.
Insert(s) ==
    /\ scan[s] = "insert"
    /\ graph' = Built(report[s])
    /\ hasGraph' = TRUE
    /\ scan' = [scan EXCEPT ![s] = "release"]
    /\ report' = [report EXCEPT ![s] = Nothing]
    /\ LET fresh == {a \in Assets : report[s][a] = disk[a]} IN
       /\ failed' = failed \ fresh
       /\ overlapped' = overlapped \ fresh
    /\ UNCHANGED <<disk, active, checked, listed, watcher>>

\* Drop of ActiveAssetScanGuard
DropGuard == active' = FALSE

Release(s) ==
    /\ scan[s] = "release"
    /\ DropGuard
    /\ scan' = [scan EXCEPT ![s] = "idle"]
    /\ UNCHANGED <<disk, hasGraph, graph, checked, report, listed, watcher, assetHistory>>

-----------------------------------------------------------------------------
\* Changes of files, and the watcher

ChangeAsset(a, v) ==
    /\ v # disk[a]
    /\ disk' = [disk EXCEPT ![a] = v]
    /\ changed' = changed \union {a}
    /\ failed' = IF v = Absent THEN failed \union {a} ELSE failed
    /\ UNCHANGED <<active, hasGraph, graph, checked, scanner, updating, record,
                   overlapped>>

\* should_skip_by_debounce drops the event of a second change.
DebounceAsset(a) ==
    /\ a \in changed
    /\ changed' = changed \ {a}
    /\ failed' = failed \union {a}
    /\ UNCHANGED <<disk, active, hasGraph, graph, checked, scanner, updating, record,
                   overlapped>>

\* handle_file_change: a path that is gone is ignored.
TakeEvent(a) ==
    /\ updating = Absent
    /\ a \in changed
    /\ changed' = changed \ {a}
    /\ updating' = IF disk[a] = Absent THEN Absent ELSE a
    /\ UNCHANGED <<disk, active, hasGraph, graph, checked, scanner, record, assetHistory>>

\* parse_asset_record; an error ends the update.
ParseUpdate ==
    /\ updating # Absent /\ record = Absent
    /\ \/ /\ disk[updating] # Absent
          /\ record' = disk[updating]
          /\ UNCHANGED <<updating, failed>>
       \/ /\ updating' = Absent
          /\ failed' = failed \union {updating}
          /\ UNCHANGED record
    /\ UNCHANGED <<disk, active, hasGraph, graph, checked, scanner, changed,
                   overlapped>>

Scanning == \E s \in Scanners : scan[s] \in {"parse", "insert"}

\* Faulty variant: the functions table is not cleaned.
WithoutFunctionsKept(p) == {e \in graph : e[2] # p \/ e[1][1] = "functions"}

\* remove_asset_from_graph: by path, whatever file the edges are of.
Without(p) == {e \in graph : e[2] # p}

\* The files whose edges an update of a removes.
Displaced(a) == {b \in FilesOf(PathOf[a]) \ {a} : disk[b] # Absent}

\* Without a graph the update has no effect.
ApplyUpdate ==
    /\ record # Absent
    /\ graph' = IF hasGraph
                THEN Without(PathOf[updating]) \union EdgesOf(record, updating)
                ELSE graph
    /\ overlapped' = IF Scanning THEN overlapped \union {updating}
                                 ELSE overlapped \ {updating}
    /\ failed' = Displaced(updating)
                 \union IF record = disk[updating] THEN failed \ {updating}
                                                  ELSE failed \union {updating}
    /\ updating' = Absent /\ record' = Absent
    /\ UNCHANGED <<disk, active, hasGraph, checked, scanner, changed>>

Scan(s) == List(s) \/ (\E a \in Assets : ScanFile(s, a)) \/ EndParse(s)
           \/ Insert(s) \/ Release(s)

AssetNext ==
    \/ \E s \in Scanners : SetupScan(s) \/ QueryClaims(s) \/ Scan(s)
    \/ QueryLooks
    \/ \E a \in Assets : (\E v \in Content : ChangeAsset(a, v)) \/ DebounceAsset(a) \/ TakeEvent(a)
    \/ ParseUpdate \/ ApplyUpdate

AssetSpec == AssetInit /\ [][AssetNext]_assetVars

-----------------------------------------------------------------------------
\* Properties

(* Scans of a project exclude each other, and the flag queries answer
   "scanning" by is set exactly as long as one runs: claimed by setups and
   queries under the lock, cleared by the guard on every way out. *)
OneScan ==
    /\ \A s, t \in Scanners : scan[s] # "idle" /\ scan[t] # "idle" => s = t
    /\ active <=> \E s \in Scanners : scan[s] # "idle"

(* Of each file the edges of an asset path show one version, or nothing, and
   nothing else is in them: neither a scan replacing the graph nor an update
   mixes two versions of a file. *)
OneVersionPerFile ==
    \A p \in AssetPaths : \E ver \in [Assets -> Content] :
        InGraph(p) = UNION {EdgesOf(ver[a], a) : a \in FilesOf(p)}

Settled == /\ hasGraph /\ ~active
           /\ changed = {} /\ updating = Absent

(* Once scans and updates have settled, the graph shows the present version of
   every asset file, unless its last update fell into a scan or failed: a scan
   that parsed the file before the change replaces the graph after the update
   (handle_asset_scan against update_single_asset), and the update of another
   file of the same asset path removes its edges. A path none of whose files is
   so excepted has the edges of its files and no others. A later scan makes up
   for what updates have missed. *)
GraphFollowsDisk ==
    Settled =>
        LET excepted == failed \union overlapped IN
        /\ \A a \in Assets \ excepted : EdgesOf(disk[a], a) \subseteq graph
        /\ \A p \in AssetPaths : FilesOf(p) \cap excepted = {} =>
               InGraph(p) = UNION {EdgesOf(disk[a], a) : a \in FilesOf(p)}
=============================================================================
