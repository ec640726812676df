---------------------------- MODULE CachesProofs ----------------------------
(* Theorems about AssetScan, ConfigCache and ConfigMerge, for any assets, ini
   files and lines, and any numbers of scanners and queries. *)
EXTENDS AssetScan, ConfigCache, ConfigMerge, WellFoundedInduction, TLAPS

-----------------------------------------------------------------------------
\* Operators of AssetScan

(* No file has no edges, a version has those of its file. *)
LEMMA EdgesTyped ==
    ASSUME NEW a \in Assets, NEW v \in Content
    PROVE  EdgesOf(v, a) \subseteq Pairs \X AssetPaths
  BY AssetAssumption DEF EdgesOf, Content, Pairs

(* Every edge of a version of a file is filed under the path of the file. *)
LEMMA EdgesNameAsset ==
    ASSUME NEW a, NEW v, NEW e \in EdgesOf(v, a)
    PROVE  e[2] = PathOf[a]
  BY DEF EdgesOf

(* build_asset_graph gives every path the edges of the versions reported of its
   files. *)
LEMMA BuiltShows ==
    ASSUME NEW r, NEW p
    PROVE  {e \in Built(r) : e[2] = p} = UNION {EdgesOf(r[a], a) : a \in FilesOf(p)}
<1>1. \A e \in Built(r) : \E b \in Assets : e \in EdgesOf(r[b], b)
  BY DEF Built
<1>2. \A e \in Built(r) : e[2] = p => \E b \in FilesOf(p) : e \in EdgesOf(r[b], b)
  BY <1>1, EdgesNameAsset DEF FilesOf
<1>3. \A b \in FilesOf(p) : \A e \in EdgesOf(r[b], b) : e \in Built(r) /\ e[2] = p
  BY EdgesNameAsset DEF Built, FilesOf
<1> QED
  BY <1>2, <1>3

(* An update replaces the edges of its asset path ... *)
LEMMA UpdateShows ==
    ASSUME NEW a, NEW v
    PROVE  {e \in Without(PathOf[a]) \union EdgesOf(v, a) : e[2] = PathOf[a]}
           = EdgesOf(v, a)
  BY EdgesNameAsset DEF Without

(* ... and leaves those of the others alone. *)
LEMMA UpdateKeeps ==
    ASSUME NEW a, NEW v, NEW p, p # PathOf[a]
    PROVE  {e \in Without(PathOf[a]) \union EdgesOf(v, a) : e[2] = p} = InGraph(p)
  BY EdgesNameAsset DEF Without, InGraph

-----------------------------------------------------------------------------
\* Invariants of AssetScan

\* What is parsed is stored for the path that is updated.
RecordHasPath == record # Absent => updating # Absent

\* A scan stores its result only after the last file.
ParsedAll == \A s \in Scanners : scan[s] = "insert" => listed[s] = {}

\* A scan has parsed nothing before it lists the files.
ReportEmpty == \A s \in Scanners :
    scan[s] \notin {"parse", "insert"} => report[s] = Nothing

\* No event of a is left that an update could follow, and no update or scan has
\* missed it.
Followed(a) == /\ a \notin failed \union overlapped
               /\ disk[a] = Absent \/ (a \notin changed /\ updating # a)

\* The stored graph shows such a file, and of a path with only such files
\* nothing else ...
GraphCurrent ==
    hasGraph =>
        /\ \A a \in Assets : Followed(a) => EdgesOf(disk[a], a) \subseteq graph
        /\ \A p \in AssetPaths : (\A a \in FilesOf(p) : Followed(a)) =>
               InGraph(p) = UNION {EdgesOf(disk[a], a) : a \in FilesOf(p)}

\* ... and so will the graph of a running scan.
ReportCurrent ==
    \A s \in Scanners : scan[s] \in {"parse", "insert"} =>
        \A a \in Assets : Followed(a) /\ a \notin listed[s] => report[s][a] = disk[a]

\* Strengthening of GraphFollowsDisk.
AssetInv == /\ AssetTypeOK /\ RecordHasPath /\ OneScan /\ ParsedAll
            /\ ReportEmpty /\ GraphCurrent /\ ReportCurrent

-----------------------------------------------------------------------------
(* Init satisfies the invariant: there is no graph and no scan. *)
LEMMA AssetInitInv == AssetInit => AssetInv /\ OneVersionPerFile
<1> SUFFICES ASSUME AssetInit PROVE AssetInv /\ OneVersionPerFile
  OBVIOUS
<1>1. AssetTypeOK
  BY DEF AssetInit, AssetTypeOK, Nothing, Content
<1>2. RecordHasPath /\ OneScan /\ ParsedAll /\ ReportEmpty /\ GraphCurrent
      /\ ReportCurrent
  BY DEF AssetInit, RecordHasPath, OneScan, ParsedAll, ReportEmpty, GraphCurrent,
     ReportCurrent
<1>3. OneVersionPerFile
  <2>1. Nothing \in [Assets -> Content] /\ \A a \in Assets : EdgesOf(Nothing[a], a) = {}
    BY DEF Nothing, Content, EdgesOf
  <2>2. \A p \in AssetPaths : InGraph(p) = UNION {EdgesOf(Nothing[a], a) : a \in FilesOf(p)}
    BY <2>1 DEF AssetInit, InGraph, FilesOf
  <2> QED
    BY <2>1, <2>2 DEF OneVersionPerFile
<1> QED
  BY <1>1, <1>2, <1>3 DEF AssetInv

(* Every step of scans and updates keeps the types. *)
LEMMA AssetNextType ==
    AssetTypeOK /\ RecordHasPath /\ [AssetNext]_assetVars => AssetTypeOK'
<1> SUFFICES ASSUME AssetTypeOK, RecordHasPath, [AssetNext]_assetVars PROVE AssetTypeOK'
  OBVIOUS
<1> USE DEF AssetTypeOK
<1>1. ASSUME NEW s \in Scanners, SetupScan(s) PROVE AssetTypeOK'
  BY <1>1 DEF SetupScan, Spawn, Claim, watcher, assetHistory
<1>2. CASE QueryLooks
  BY <1>2 DEF QueryLooks, scanner, watcher, assetHistory
<1>3. ASSUME NEW s \in Scanners, QueryClaims(s) PROVE AssetTypeOK'
  BY <1>3 DEF QueryClaims, Spawn, Claim, watcher, assetHistory
<1>4. ASSUME NEW s \in Scanners, List(s) PROVE AssetTypeOK'
  BY <1>4 DEF List, watcher, assetHistory
<1>5. ASSUME NEW s \in Scanners, NEW a \in Assets, ScanFile(s, a) PROVE AssetTypeOK'
  <2>1. [report[s] EXCEPT ![a] = disk[a]] \in [Assets -> Content]
    OBVIOUS
  <2>2. report' \in [Scanners -> [Assets -> Content]]
    BY <1>5, <2>1 DEF ScanFile
  <2> QED
    BY <1>5, <2>2 DEF ScanFile, watcher
<1>6. ASSUME NEW s \in Scanners, EndParse(s) PROVE AssetTypeOK'
  BY <1>6 DEF EndParse, watcher, assetHistory
<1>7. ASSUME NEW s \in Scanners, Insert(s) PROVE AssetTypeOK'
  <2>1. Built(report[s]) \subseteq Pairs \X AssetPaths
    BY EdgesTyped DEF Built
  <2>2. report' \in [Scanners -> [Assets -> Content]]
    BY <1>7 DEF Insert, Nothing, Content
  <2>3. failed' \in SUBSET Assets /\ overlapped' \in SUBSET Assets
    BY <1>7 DEF Insert
  <2> QED
    BY <1>7, <2>1, <2>2, <2>3 DEF Insert, watcher
<1>8. ASSUME NEW s \in Scanners, Release(s) PROVE AssetTypeOK'
  BY <1>8 DEF Release, DropGuard, watcher, assetHistory
<1>9. ASSUME NEW a \in Assets, NEW v \in Content, ChangeAsset(a, v) PROVE AssetTypeOK'
  BY <1>9 DEF ChangeAsset, scanner
<1>10. ASSUME NEW a \in Assets, DebounceAsset(a) PROVE AssetTypeOK'
  BY <1>10 DEF DebounceAsset, scanner
<1>11. ASSUME NEW a \in Assets, TakeEvent(a) PROVE AssetTypeOK'
  BY <1>11 DEF TakeEvent, scanner, assetHistory
<1>12. CASE ParseUpdate
  <2>1. updating \in Assets /\ disk[updating] \in Content
    BY <1>12 DEF ParseUpdate
  <2> QED
    BY <1>12, <2>1 DEF ParseUpdate, scanner
<1>13. CASE ApplyUpdate
  <2>1. updating \in Assets
    BY <1>13 DEF ApplyUpdate, RecordHasPath
  <2>2. graph' \in SUBSET (Pairs \X AssetPaths)
    BY <1>13, <2>1, EdgesTyped DEF ApplyUpdate, Without
  <2>3. record' \in Content /\ updating' \in Assets \union {Absent}
    BY <1>13 DEF ApplyUpdate, Content
  <2>4. failed' \in SUBSET Assets /\ overlapped' \in SUBSET Assets
    BY <1>13, <2>1 DEF ApplyUpdate, Displaced, FilesOf
  <2> QED
    BY <1>13, <2>2, <2>3, <2>4 DEF ApplyUpdate, scanner
<1>14. CASE UNCHANGED assetVars
  BY <1>14 DEF assetVars
<1> QED
  BY <1>1, <1>2, <1>3, <1>4, <1>5, <1>6, <1>7, <1>8, <1>9, <1>10, <1>11, <1>12, <1>13,
     <1>14 DEF AssetNext, Scan

(* The watcher parses a path it has taken. *)
LEMMA NextRecordHasPath ==
    AssetTypeOK /\ RecordHasPath /\ [AssetNext]_assetVars => RecordHasPath'
<1> SUFFICES ASSUME AssetTypeOK, RecordHasPath, [AssetNext]_assetVars
             PROVE  RecordHasPath'
  OBVIOUS
<1>1. CASE ParseUpdate
  BY <1>1 DEF ParseUpdate, RecordHasPath
<1>2. CASE ApplyUpdate
  BY <1>2 DEF ApplyUpdate, RecordHasPath
<1>3. ASSUME NEW a \in Assets, TakeEvent(a) PROVE RecordHasPath'
  BY <1>3 DEF TakeEvent, RecordHasPath
<1>4. CASE UNCHANGED <<updating, record>>
  BY <1>4 DEF RecordHasPath
<1> QED
  BY <1>1, <1>2, <1>3, <1>4 DEF AssetNext, Scan, SetupScan, QueryClaims, QueryLooks, List,
     ScanFile, EndParse, Insert, Release, ChangeAsset, DebounceAsset, watcher, assetVars

-----------------------------------------------------------------------------
(* Spawn claims the flag for a scan of its own. *)
LEMMA SpawnKeepsOneScan ==
    ASSUME AssetTypeOK, OneScan, NEW s \in Scanners, Spawn(s)
    PROVE  OneScan'
  BY DEF AssetTypeOK, OneScan, Spawn, Claim

(* A scan that goes on keeps the flag. *)
LEMMA StepKeepsOneScan ==
    ASSUME AssetTypeOK, OneScan, NEW s \in Scanners, NEW step,
           scan[s] # "idle", step # "idle", scan' = [scan EXCEPT ![s] = step],
           UNCHANGED active
    PROVE  OneScan'
  BY DEF AssetTypeOK, OneScan

(* Scans exclude each other, and the flag tells of them. *)
LEMMA NextOneScan == AssetTypeOK /\ OneScan /\ [AssetNext]_assetVars => OneScan'
<1> SUFFICES ASSUME AssetTypeOK, OneScan, [AssetNext]_assetVars PROVE OneScan'
  OBVIOUS
<1>1. ASSUME NEW s \in Scanners, SetupScan(s) PROVE OneScan'
  BY <1>1, SpawnKeepsOneScan DEF SetupScan
<1>2. ASSUME NEW s \in Scanners, QueryClaims(s) PROVE OneScan'
  <2>1. CASE Spawn(s)
    BY <2>1, SpawnKeepsOneScan
  <2>2. CASE UNCHANGED <<active, scan>>
    BY <2>2 DEF OneScan
  <2> QED
    BY <1>2, <2>1, <2>2 DEF QueryClaims
<1>3. ASSUME NEW s \in Scanners, List(s) PROVE OneScan'
  BY <1>3, StepKeepsOneScan DEF List
<1>4. ASSUME NEW s \in Scanners, EndParse(s) PROVE OneScan'
  BY <1>4, StepKeepsOneScan DEF EndParse
<1>5. ASSUME NEW s \in Scanners, Insert(s) PROVE OneScan'
  BY <1>5, StepKeepsOneScan DEF Insert
<1>6. ASSUME NEW s \in Scanners, Release(s) PROVE OneScan'
  BY <1>6 DEF Release, DropGuard, OneScan, AssetTypeOK
<1>7. CASE UNCHANGED <<active, scan>>
  BY <1>7 DEF OneScan
<1> QED
  BY <1>1, <1>2, <1>3, <1>4, <1>5, <1>6, <1>7 DEF AssetNext, Scan, QueryLooks, ScanFile,
     ChangeAsset, DebounceAsset, TakeEvent, ParseUpdate, ApplyUpdate, scanner, assetVars

(* The edges of an asset path are replaced as a whole. *)
LEMMA NextOneVersion ==
    /\ AssetTypeOK /\ RecordHasPath /\ OneVersionPerFile
    /\ [AssetNext]_assetVars
    => OneVersionPerFile'
<1> SUFFICES ASSUME AssetTypeOK, RecordHasPath, OneVersionPerFile, [AssetNext]_assetVars
             PROVE  OneVersionPerFile'
  OBVIOUS
<1> DEFINE ShowsOf(p, ver) == InGraph(p)' = UNION {EdgesOf(ver[a], a) : a \in FilesOf(p)}
<1>0. SUFFICES ASSUME NEW p \in AssetPaths
               PROVE  \E ver \in [Assets -> Content] : ShowsOf(p, ver)
  BY DEF OneVersionPerFile, EdgesOf, FilesOf
<1>1. ASSUME NEW s \in Scanners, Insert(s)
      PROVE  \E ver \in [Assets -> Content] : ShowsOf(p, ver)
  <2>1. ShowsOf(p, report[s])
    BY <1>1, BuiltShows DEF Insert, InGraph
  <2>2. report[s] \in [Assets -> Content]
    BY DEF AssetTypeOK
  <2> QED
    BY <2>1, <2>2
<1>2. CASE UNCHANGED graph
  <2>1. InGraph(p)' = InGraph(p)
    BY <1>2 DEF InGraph
  <2> QED
    BY <2>1 DEF OneVersionPerFile
<1>3. CASE ApplyUpdate
  <2> DEFINE u == updating
             last == [a \in Assets |-> IF a = u THEN record ELSE Absent]
  <2>1. u \in Assets /\ last \in [Assets -> Content]
    BY <1>3 DEF ApplyUpdate, RecordHasPath, AssetTypeOK, Content
  <2>2. CASE graph' = Without(PathOf[u]) \union EdgesOf(record, u) /\ p = PathOf[u]
    <3>1. InGraph(p)' = EdgesOf(record, u)
      BY <2>2, UpdateShows DEF InGraph
    <3>2. u \in FilesOf(p) /\ EdgesOf(last[u], u) = EdgesOf(record, u)
      BY <2>1, <2>2 DEF FilesOf
    <3>3. \A a \in FilesOf(p) \ {u} : EdgesOf(last[a], a) = {}
      BY DEF FilesOf, EdgesOf
    <3> HIDE DEF last, u
    <3>4. UNION {EdgesOf(last[a], a) : a \in FilesOf(p)} = EdgesOf(record, u)
      BY <3>2, <3>3
    <3> QED
      BY <2>1, <3>1, <3>4
  <2>3. CASE graph' = Without(PathOf[u]) \union EdgesOf(record, u) /\ p # PathOf[u]
    <3>1. InGraph(p)' = InGraph(p)
      BY <2>3, UpdateKeeps DEF InGraph
    <3> QED
      BY <3>1 DEF OneVersionPerFile
  <2> QED
    BY <1>2, <1>3, <2>2, <2>3 DEF ApplyUpdate
<1> QED
  BY <1>1, <1>2, <1>3 DEF AssetNext, Scan, SetupScan, QueryClaims, QueryLooks, List,
     ScanFile, EndParse, Release, ChangeAsset, DebounceAsset, TakeEvent, ParseUpdate,
     assetVars

-----------------------------------------------------------------------------
(* Only a new graph and an update bring an asset into line again; any other step
   leaves those that are in line afterwards as they were. *)
LEMMA FollowedBefore ==
    ASSUME AssetTypeOK, [AssetNext]_assetVars, NEW a \in Assets, Followed(a)'
    PROVE  \/ Followed(a) /\ disk'[a] = disk[a]
           \/ \E s \in Scanners : Insert(s)
           \/ ApplyUpdate
<1>1. ASSUME NEW b \in Assets, NEW v \in Content, ChangeAsset(b, v)
      PROVE  Followed(a) /\ disk'[a] = disk[a]
  <2>1. a # b
    <3>1. b \in changed' /\ disk'[b] = v /\ (v = Absent => b \in failed')
      BY <1>1 DEF ChangeAsset, AssetTypeOK
    <3> QED
      BY <3>1 DEF Followed
  <2> QED
    BY <1>1, <2>1 DEF ChangeAsset, Followed, AssetTypeOK
<1>2. ASSUME NEW b \in Assets, DebounceAsset(b) PROVE Followed(a) /\ disk'[a] = disk[a]
  BY <1>2 DEF DebounceAsset, Followed
<1>3. ASSUME NEW b \in Assets, TakeEvent(b) PROVE Followed(a) /\ disk'[a] = disk[a]
  BY <1>3, AssetAssumption DEF TakeEvent, Followed, assetHistory
<1>4. CASE ParseUpdate
  BY <1>4 DEF ParseUpdate, Followed
<1>5. ASSUME NEW s \in Scanners, NEW b \in Assets, ScanFile(s, b)
      PROVE  Followed(a) /\ disk'[a] = disk[a]
  BY <1>5 DEF ScanFile, Followed, watcher
<1>6. CASE UNCHANGED <<disk, watcher, assetHistory>>
  BY <1>6 DEF Followed, watcher, assetHistory
<1> QED
  BY <1>1, <1>2, <1>3, <1>4, <1>5, <1>6 DEF AssetNext, Scan, SetupScan, QueryClaims,
     QueryLooks, List, EndParse, Release, assetVars, watcher, assetHistory

(* A scan ends its parsing when nothing is listed any more. *)
LEMMA NextParsedAll == AssetTypeOK /\ ParsedAll /\ [AssetNext]_assetVars => ParsedAll'
<1> SUFFICES ASSUME AssetTypeOK, ParsedAll, [AssetNext]_assetVars PROVE ParsedAll'
  OBVIOUS
<1> USE DEF AssetTypeOK, ParsedAll
<1>1. ASSUME NEW s \in Scanners, Spawn(s), UNCHANGED listed PROVE ParsedAll'
  BY <1>1 DEF Spawn
<1>2. ASSUME NEW s \in Scanners, Scan(s) PROVE ParsedAll'
  <2>1. CASE List(s)
    BY <2>1 DEF List
  <2>2. ASSUME NEW a \in Assets, ScanFile(s, a) PROVE ParsedAll'
    BY <2>2 DEF ScanFile
  <2>3. CASE EndParse(s)
    BY <2>3 DEF EndParse
  <2>4. CASE Insert(s)
    BY <2>4 DEF Insert
  <2>5. CASE Release(s)
    BY <2>5 DEF Release
  <2> QED
    BY <1>2, <2>1, <2>2, <2>3, <2>4, <2>5 DEF Scan
<1>3. CASE UNCHANGED <<scan, listed>>
  BY <1>3
<1> QED
  BY <1>1, <1>2, <1>3 DEF AssetNext, SetupScan, QueryClaims, QueryLooks, ChangeAsset,
     DebounceAsset, TakeEvent, ParseUpdate, ApplyUpdate, scanner, assetVars

(* The report is emptied when the graph is stored. *)
LEMMA NextReportEmpty == AssetTypeOK /\ ReportEmpty /\ [AssetNext]_assetVars => ReportEmpty'
<1> SUFFICES ASSUME AssetTypeOK, ReportEmpty, [AssetNext]_assetVars PROVE ReportEmpty'
  OBVIOUS
<1> USE DEF AssetTypeOK, ReportEmpty
<1>1. ASSUME NEW s \in Scanners, Spawn(s), UNCHANGED report PROVE ReportEmpty'
  BY <1>1 DEF Spawn
<1>2. ASSUME NEW s \in Scanners, Scan(s) PROVE ReportEmpty'
  <2>1. CASE List(s)
    BY <2>1 DEF List
  <2>2. ASSUME NEW a \in Assets, ScanFile(s, a) PROVE ReportEmpty'
    BY <2>2 DEF ScanFile
  <2>3. CASE EndParse(s)
    BY <2>3 DEF EndParse
  <2>4. CASE Insert(s)
    BY <2>4 DEF Insert
  <2>5. CASE Release(s)
    BY <2>5 DEF Release
  <2> QED
    BY <1>2, <2>1, <2>2, <2>3, <2>4, <2>5 DEF Scan
<1>3. CASE UNCHANGED <<scan, report>>
  BY <1>3
<1> QED
  BY <1>1, <1>2, <1>3 DEF AssetNext, SetupScan, QueryClaims, QueryLooks, ChangeAsset,
     DebounceAsset, TakeEvent, ParseUpdate, ApplyUpdate, scanner, assetVars

(* What an update leaves of the files that are followed after it. *)
LEMMA FollowedAcrossUpdate ==
    ASSUME AssetInv, ApplyUpdate, NEW a \in Assets, Followed(a)'
    PROVE  /\ a = updating => record = disk[a]
           /\ a # updating => Followed(a)
           /\ a # updating /\ PathOf[a] = PathOf[updating] => disk[a] = Absent
<1>1. a = updating => record = disk[a]
  BY DEF ApplyUpdate, Followed
<1>2. ASSUME a # updating PROVE Followed(a) /\ a \notin Displaced(updating)
  BY <1>2 DEF ApplyUpdate, Followed
<1> QED
  BY <1>1, <1>2 DEF Displaced, FilesOf

(* A new graph, and an update of the one there is, leave the graph current. *)
LEMMA NextGraphCurrent == AssetInv /\ [AssetNext]_assetVars => GraphCurrent'
<1> SUFFICES ASSUME AssetInv, [AssetNext]_assetVars, hasGraph'
             PROVE  GraphCurrent'
  BY DEF GraphCurrent
<1>1. ASSUME NEW s \in Scanners, Insert(s) PROVE GraphCurrent'
  <2>1. ASSUME NEW a \in Assets, Followed(a)' PROVE report[s][a] = disk'[a]
    <3>1. CASE Followed(a)
      BY <1>1, <3>1 DEF Insert, AssetInv, ReportCurrent, ParsedAll
    <3>2. CASE ~Followed(a)
      BY <1>1, <2>1, <3>2 DEF Insert, Followed, watcher
    <3> QED
      BY <1>1, <3>1, <3>2 DEF Insert
  <2>2. \A p : InGraph(p)' = UNION {EdgesOf(report[s][a], a) : a \in FilesOf(p)}
    BY <1>1, BuiltShows DEF Insert, InGraph
  <2>3. ASSUME NEW a \in Assets, Followed(a)' PROVE EdgesOf(disk'[a], a) \subseteq graph'
    BY <1>1, <2>1, <2>3 DEF Insert, Built
  <2>4. ASSUME NEW p \in AssetPaths, \A a \in FilesOf(p) : Followed(a)'
        PROVE  InGraph(p)' = UNION {EdgesOf(disk'[a], a) : a \in FilesOf(p)}
    <3>1. \A a \in FilesOf(p) : EdgesOf(report[s][a], a) = EdgesOf(disk'[a], a)
      BY <2>1, <2>4 DEF FilesOf
    <3> QED
      BY <2>2, <3>1
  <2> QED
    BY <2>3, <2>4 DEF GraphCurrent, FilesOf, EdgesOf
<1>2. CASE ApplyUpdate
  <2> DEFINE u == updating
  <2>1. /\ hasGraph /\ disk' = disk /\ u \in Assets
        /\ graph' = Without(PathOf[u]) \union EdgesOf(record, u)
    BY <1>2 DEF ApplyUpdate, AssetInv, RecordHasPath, AssetTypeOK
  <2>2. \A p : p # PathOf[u] => InGraph(p)' = InGraph(p)
    BY <2>1, UpdateKeeps DEF InGraph
  <2>3. {e \in graph' : e[2] = PathOf[u]} = EdgesOf(record, u)
    BY <2>1, UpdateShows
  <2>4. ASSUME NEW a \in Assets, Followed(a)' PROVE EdgesOf(disk[a], a) \subseteq graph'
    <3>1. CASE a = u
      BY <1>2, <2>1, <2>4, <3>1, FollowedAcrossUpdate
    <3>2. CASE a # u /\ PathOf[a] = PathOf[u]
      BY <1>2, <2>4, <3>2, FollowedAcrossUpdate DEF EdgesOf
    <3>3. CASE a # u /\ PathOf[a] # PathOf[u]
      <4>1. EdgesOf(disk[a], a) \subseteq graph
        BY <1>2, <2>1, <2>4, <3>3, FollowedAcrossUpdate DEF AssetInv, GraphCurrent
      <4>2. \A e \in EdgesOf(disk[a], a) : e[2] # PathOf[u]
        BY <3>3, EdgesNameAsset
      <4> QED
        BY <2>1, <4>1, <4>2 DEF Without
    <3> QED
      BY <3>1, <3>2, <3>3
  <2>5. ASSUME NEW p \in AssetPaths, \A a \in FilesOf(p) : Followed(a)'
        PROVE  InGraph(p)' = UNION {EdgesOf(disk[a], a) : a \in FilesOf(p)}
    <3>1. CASE p = PathOf[u]
      <4>1. u \in FilesOf(p) /\ record = disk[u]
        BY <1>2, <2>1, <2>5, <3>1, FollowedAcrossUpdate DEF FilesOf
      <4>2. \A a \in FilesOf(p) \ {u} : EdgesOf(disk[a], a) = {}
        BY <1>2, <2>5, <3>1, FollowedAcrossUpdate DEF FilesOf, EdgesOf
      <4>3. UNION {EdgesOf(disk[a], a) : a \in FilesOf(p)} = EdgesOf(record, u)
        BY <4>1, <4>2
      <4>4. InGraph(p)' = {e \in graph' : e[2] = p}
        BY DEF InGraph
      <4> QED
        BY <2>3, <3>1, <4>3, <4>4
    <3>2. CASE p # PathOf[u]
      <4>1. \A a \in FilesOf(p) : Followed(a)
        BY <1>2, <2>1, <2>5, <3>2, FollowedAcrossUpdate DEF FilesOf
      <4> QED
        BY <2>1, <2>2, <3>2, <4>1 DEF AssetInv, GraphCurrent
    <3> QED
      BY <3>1, <3>2
  <2> QED
    BY <2>1, <2>4, <2>5 DEF GraphCurrent, FilesOf, EdgesOf
<1>3. CASE /\ UNCHANGED <<graph, hasGraph>>
           /\ \A a \in Assets : Followed(a)' => Followed(a) /\ disk'[a] = disk[a]
  <2>1. \A a \in Assets : Followed(a)' => EdgesOf(disk'[a], a) \subseteq graph'
    BY <1>3 DEF AssetInv, GraphCurrent
  <2>2. ASSUME NEW p \in AssetPaths, \A a \in FilesOf(p) : Followed(a)'
        PROVE  InGraph(p)' = UNION {EdgesOf(disk'[a], a) : a \in FilesOf(p)}
    <3>1. InGraph(p)' = InGraph(p)
      BY <1>3 DEF InGraph
    <3>2. \A a \in FilesOf(p) : Followed(a) /\ disk'[a] = disk[a]
      BY <1>3, <2>2 DEF FilesOf
    <3>3. InGraph(p) = UNION {EdgesOf(disk[a], a) : a \in FilesOf(p)}
      BY <1>3, <3>2 DEF AssetInv, GraphCurrent
    <3> QED
      BY <3>1, <3>2, <3>3
  <2> QED
    BY <2>1, <2>2 DEF GraphCurrent, FilesOf, EdgesOf
<1>4. \/ \E s \in Scanners : Insert(s)
      \/ ApplyUpdate
      \/ UNCHANGED <<graph, hasGraph>>
  BY DEF AssetNext, Scan, SetupScan, QueryClaims, QueryLooks, List, ScanFile, EndParse,
     Release, ChangeAsset, DebounceAsset, TakeEvent, ParseUpdate, assetVars
<1>5. AssetTypeOK
  BY DEF AssetInv
<1> QED
  BY <1>1, <1>2, <1>3, <1>4, <1>5, FollowedBefore

(* A running scan has read, or will read, the present version of an asset that is
   followed: an update during the scan does not count. *)
LEMMA NextReportCurrent == AssetInv /\ [AssetNext]_assetVars => ReportCurrent'
<1> SUFFICES ASSUME AssetInv, [AssetNext]_assetVars,
                    NEW s \in Scanners, scan'[s] \in {"parse", "insert"},
                    NEW a \in Assets, Followed(a)', a \notin listed'[s]
             PROVE  report'[s][a] = disk'[a]
  BY DEF ReportCurrent
<1> USE DEF AssetInv, AssetTypeOK
<1>1. ASSUME NEW t \in Scanners, List(t) PROVE report'[s][a] = disk'[a]
  <2>1. s = t /\ scan[s] = "list"
    BY <1>1 DEF List, OneScan
  <2>2. report'[s][a] = Absent
    BY <1>1, <2>1 DEF List, ReportEmpty, Nothing
  <2> QED
    BY <1>1, <2>1, <2>2 DEF List
<1>2. ASSUME NEW t \in Scanners, NEW b \in Assets, ScanFile(t, b)
      PROVE  report'[s][a] = disk'[a]
  <2>1. s = t
    BY <1>2 DEF ScanFile, OneScan
  <2>2. Followed(a) /\ disk' = disk /\ a \notin failed'
    BY <1>2 DEF ScanFile, Followed, watcher
  <2>3. CASE a = b
    BY <1>2, <2>1, <2>2, <2>3 DEF ScanFile
  <2>4. CASE a # b
    <3>1. a \notin listed[s] /\ report'[s][a] = report[s][a]
      BY <1>2, <2>1, <2>4 DEF ScanFile
    <3> QED
      BY <1>2, <2>1, <2>2, <3>1 DEF ScanFile, ReportCurrent
  <2> QED
    BY <2>3, <2>4
<1>3. ASSUME NEW t \in Scanners, EndParse(t) PROVE report'[s][a] = disk'[a]
  BY <1>3, FollowedBefore DEF EndParse, ReportCurrent, Followed, watcher, assetHistory
<1>4. ASSUME NEW t \in Scanners, Insert(t) PROVE report'[s][a] = disk'[a]
  BY <1>4 DEF Insert, OneScan
<1>5. CASE ApplyUpdate
  <2>1. scan[s] \in {"parse", "insert"} /\ a \notin listed[s]
    BY <1>5 DEF ApplyUpdate, scanner
  <2>2. a # updating
    BY <1>5, <2>1 DEF ApplyUpdate, Scanning, Followed
  <2>3. Followed(a)
    BY <1>5, <2>2 DEF ApplyUpdate, Followed
  <2> QED
    BY <1>5, <2>1, <2>3 DEF ApplyUpdate, ReportCurrent, scanner
<1>6. ASSUME NEW t \in Scanners, Spawn(t), UNCHANGED <<disk, report, listed, watcher, assetHistory>>
      PROVE  report'[s][a] = disk'[a]
  BY <1>6 DEF Spawn, ReportCurrent, Followed, watcher, assetHistory
<1>7. ASSUME NEW t \in Scanners, Release(t) PROVE report'[s][a] = disk'[a]
  BY <1>7 DEF Release, ReportCurrent, Followed, watcher, assetHistory
<1>8. CASE UNCHANGED scanner /\ Followed(a) /\ disk'[a] = disk[a]
  BY <1>8 DEF ReportCurrent, scanner
<1>9. \/ \E t \in Scanners : SetupScan(t) \/ QueryClaims(t) \/ Scan(t)
      \/ ApplyUpdate
      \/ UNCHANGED scanner
  BY DEF AssetNext, QueryLooks, ChangeAsset, DebounceAsset, TakeEvent, ParseUpdate,
     assetVars, scanner
<1>10. ASSUME NEW t \in Scanners, QueryClaims(t), UNCHANGED scan
       PROVE  UNCHANGED scanner
  BY <1>10 DEF QueryClaims, scanner
<1> QED
  BY <1>1, <1>2, <1>3, <1>4, <1>5, <1>6, <1>7, <1>8, <1>9, <1>10, FollowedBefore
     DEF Scan, SetupScan, QueryClaims, watcher, assetHistory
-----------------------------------------------------------------------------
(* What every step of scans and updates keeps. *)
LEMMA AssetInvariants == AssetSpec => [](AssetInv /\ OneVersionPerFile)
<1>1. AssetInv /\ OneVersionPerFile /\ [AssetNext]_assetVars
      => (AssetInv /\ OneVersionPerFile)'
  BY AssetNextType, NextRecordHasPath, NextOneScan, NextParsedAll, NextReportEmpty,
     NextGraphCurrent, NextReportCurrent, NextOneVersion DEF AssetInv
<1> QED
  BY <1>1, AssetInitInv, PTL DEF AssetSpec

(* Graph, scans and the watcher's update of an asset keep their types. *)
THEOREM AssetTypeCorrect == AssetSpec => []AssetTypeOK
<1>1. AssetInv => AssetTypeOK
  BY DEF AssetInv
<1> QED
  BY <1>1, AssetInvariants, PTL

(* However many setups and queries ask for a scan of a project, one runs, and
   the flag in active_asset_scans is set exactly as long as it does. *)
THEOREM ScanExclusion == AssetSpec => []OneScan
<1>1. AssetInv => OneScan
  BY DEF AssetInv
<1> QED
  BY <1>1, AssetInvariants, PTL

(* Neither a scan that replaces the graph nor an update leaves edges of two
   versions of a file, however many files share an asset path
   (build_asset_graph, remove_asset_from_graph). *)
THEOREM OneVersion == AssetSpec => []OneVersionPerFile
  BY AssetInvariants, PTL

(* Once settled, the graph shows the present version of every file that no
   update missed, whose last update did not fall into a scan and whose edges
   the update of another file of its path has not removed
   (handle_asset_scan, update_single_asset). *)
THEOREM GraphIsCurrent == AssetSpec => []GraphFollowsDisk
<1>1. AssetInv => GraphFollowsDisk
  <2> SUFFICES ASSUME AssetInv, Settled PROVE GraphFollowsDisk
    BY DEF GraphFollowsDisk
  <2>1. \A a \in Assets \ (failed \union overlapped) : Followed(a)
    BY AssetAssumption DEF Settled, Followed
  <2>2. hasGraph /\ GraphCurrent
    BY DEF AssetInv, Settled
  <2>3. \A p \in AssetPaths : FilesOf(p) \cap (failed \union overlapped) = {} =>
            \A a \in FilesOf(p) : Followed(a)
    BY <2>1 DEF FilesOf
  <2> QED
    BY <2>1, <2>2, <2>3 DEF GraphFollowsDisk, GraphCurrent
<1> QED
  BY <1>1, AssetInvariants, PTL
-----------------------------------------------------------------------------
\* Invariants of ConfigCache

\* A query has read a prefix of its files, and all of them when it stores.
ReadsInOrder ==
    \A q \in Queries :
        /\ Len(read[q]) <= Len(ReadOrder)
        /\ pc[q] \in {"idle", "look"} => read[q] = << >>
        /\ pc[q] = "store" => Len(read[q]) = Len(ReadOrder)

\* The event of a file that is gone will be ignored.
RemovedIsUnnoticed == \A f \in pending : files[f] = 0 => f \in unnoticed

\* What values says of the files up to its end is present, as far as the watcher
\* has been told.
Present(values) ==
    \A i \in 1..Len(values) :
        ReadOrder[i] \notin pending \union unnoticed => values[i] = files[ReadOrder[i]]

\* A query that no mark has overtaken has read present files.
ReadsPresent == \A q \in Queries \ early : Present(read[q])

\* A clean entry no such query has stored is complete and present.
EntryPresent ==
    data # NoEntry /\ ~is_dirty /\ ~raced => Len(data) = Len(ReadOrder) /\ Present(data)

\* Strengthening of OnlyRacingReadersStoreStale.
ConfigInv == /\ TypeOK /\ ReadsInOrder /\ RemovedIsUnnoticed
             /\ ReadsPresent /\ EntryPresent

-----------------------------------------------------------------------------
(* Init satisfies the invariant: nothing is read and there is no entry. *)
LEMMA ConfigInitInv == Init => ConfigInv
<1> SUFFICES ASSUME Init PROVE ConfigInv
  OBVIOUS
<1>1. TypeOK
  <2>1. \A f \in Files : {0, 1} \subseteq 0..MaxVersion[f]
    BY ConfigAssumption
  <2>2. files \in [Files -> Versions]
    BY <2>1 DEF Init, Versions
  <2>3. read \in [Queries -> Seq(Versions)] /\ pc \in [Queries -> {"idle", "look", "resolve", "store"}]
    <3>1. << >> \in Seq(Versions)
      OBVIOUS
    <3> QED
      BY <3>1 DEF Init
  <2> QED
    BY <2>2, <2>3 DEF Init, TypeOK
<1>2. ReadsInOrder /\ RemovedIsUnnoticed /\ ReadsPresent /\ EntryPresent
  BY ConfigAssumption DEF Init, ReadsInOrder, RemovedIsUnnoticed, ReadsPresent, EntryPresent,
     Present
<1> QED
  BY <1>1, <1>2 DEF ConfigInv

(* Every step of queries and watcher keeps the types. *)
LEMMA ConfigNextType == TypeOK /\ [Next]_vars => TypeOK'
<1> SUFFICES ASSUME TypeOK, [Next]_vars PROVE TypeOK'
  OBVIOUS
<1> USE DEF TypeOK, cache, tasks, history
<1>1. ASSUME NEW q \in Queries, Start(q) PROVE TypeOK'
  BY <1>1 DEF Start, Goto
<1>2. ASSUME NEW q \in Queries, Look(q) PROVE TypeOK'
  BY <1>2 DEF Look, Goto
<1>3. ASSUME NEW q \in Queries, ReadFile(q) PROVE TypeOK'
  <2>1. CASE Goto(q, "store") /\ UNCHANGED read
    BY <1>3, <2>1 DEF ReadFile, Goto
  <2>2. CASE /\ Len(read[q]) < Len(ReadOrder)
             /\ read' = [read EXCEPT ![q] = Append(@, ReadIni(ReadOrder[Len(read[q]) + 1]))]
             /\ UNCHANGED pc
    <3>1. ReadOrder[Len(read[q]) + 1] \in Files
      BY <2>2, ConfigAssumption
    <3>2. ReadIni(ReadOrder[Len(read[q]) + 1]) \in Versions
      BY <3>1 DEF ReadIni
    <3> QED
      BY <1>3, <2>2, <3>2 DEF ReadFile
  <2> QED
    BY <1>3, <2>1, <2>2 DEF ReadFile
<1>4. ASSUME NEW q \in Queries, Store(q) PROVE TypeOK'
  <2>1. << >> \in Seq(Versions) /\ read[q] \in Seq(Versions)
    OBVIOUS
  <2>2. read' \in [Queries -> Seq(Versions)]
    BY <1>4, <2>1 DEF Store
  <2>3. data' \in Seq(Versions) /\ is_dirty' = FALSE
    BY <1>4, <2>1 DEF Store
  <2>4. raced' \in BOOLEAN
    <3>1. raced' = (q \in early)
      BY <1>4 DEF Store
    <3>2. (q \in early) \in BOOLEAN
      OBVIOUS
    <3> QED
      BY <3>1, <3>2, Zenon
  <2> QED
    BY <1>4, <2>2, <2>3, <2>4 DEF Store, Goto
<1>5. ASSUME NEW f \in Files, NEW v \in 0..MaxVersion[f], Change(f, v) PROVE TypeOK'
  BY <1>5 DEF Change, Versions
<1>6. ASSUME NEW f \in Files, Debounce(f) PROVE TypeOK'
  BY <1>6 DEF Debounce
<1>7. ASSUME NEW f \in Files, HandleChange(f) PROVE TypeOK'
  BY <1>7 DEF HandleChange, MarkDirty
<1>8. CASE UNCHANGED vars
  BY <1>8 DEF vars
<1> QED
  BY <1>1, <1>2, <1>3, <1>4, <1>5, <1>6, <1>7, <1>8 DEF Next

(* A query reads its files one after the other and starts anew afterwards. *)
LEMMA NextReadsInOrder == TypeOK /\ ReadsInOrder /\ [Next]_vars => ReadsInOrder'
<1> SUFFICES ASSUME TypeOK, ReadsInOrder, [Next]_vars PROVE ReadsInOrder'
  OBVIOUS
<1> USE DEF TypeOK, ReadsInOrder
<1>l. Len(ReadOrder) \in Nat /\ \A q \in Queries : Len(read[q]) \in Nat
  BY ConfigAssumption
<1>1. ASSUME NEW q \in Queries, Start(q) PROVE ReadsInOrder'
  BY <1>1 DEF Start, Goto
<1>2. ASSUME NEW q \in Queries, Look(q) PROVE ReadsInOrder'
  BY <1>2 DEF Look, Goto
<1>3. ASSUME NEW q \in Queries, ReadFile(q) PROVE ReadsInOrder'
  <2>1. CASE Len(read[q]) = Len(ReadOrder) /\ Goto(q, "store") /\ UNCHANGED read
    BY <1>3, <2>1 DEF ReadFile, Goto
  <2>2. CASE /\ Len(read[q]) < Len(ReadOrder)
             /\ read' = [read EXCEPT ![q] = Append(@, ReadIni(ReadOrder[Len(read[q]) + 1]))]
             /\ UNCHANGED pc
    <3>1. pc[q] = "resolve"
      BY <1>3 DEF ReadFile
    <3>2. Len(read'[q]) = Len(read[q]) + 1
      BY <2>2
    <3> QED
      BY <1>l, <2>2, <3>1, <3>2
  <2> QED
    BY <1>3, <2>1, <2>2 DEF ReadFile
<1>4. ASSUME NEW q \in Queries, Store(q) PROVE ReadsInOrder'
  BY <1>4, <1>l DEF Store, Goto
<1>5. CASE UNCHANGED tasks
  BY <1>5 DEF tasks
<1> QED
  BY <1>1, <1>2, <1>3, <1>4, <1>5 DEF Next, Change, Debounce, HandleChange, tasks, vars

(* A file is not there again before the watcher has looked at the path. *)
LEMMA NextRemovedIsUnnoticed ==
    TypeOK /\ RemovedIsUnnoticed /\ [Next]_vars => RemovedIsUnnoticed'
<1> SUFFICES ASSUME TypeOK, RemovedIsUnnoticed, [Next]_vars PROVE RemovedIsUnnoticed'
  OBVIOUS
<1> USE DEF TypeOK, RemovedIsUnnoticed
<1>1. ASSUME NEW f \in Files, NEW v \in 0..MaxVersion[f], Change(f, v)
      PROVE  RemovedIsUnnoticed'
  BY <1>1 DEF Change
<1>2. ASSUME NEW f \in Files, Debounce(f) PROVE RemovedIsUnnoticed'
  BY <1>2 DEF Debounce
<1>3. ASSUME NEW f \in Files, HandleChange(f) PROVE RemovedIsUnnoticed'
  BY <1>3 DEF HandleChange
<1>4. CASE UNCHANGED <<files, pending, unnoticed>>
  BY <1>4
<1> QED
  BY <1>1, <1>2, <1>3, <1>4 DEF Next, Start, Look, ReadFile, Store, history, vars

(* Of a file whose event is neither waiting nor lost nothing has changed, unless
   the watcher is just marking the entry. *)
LEMMA ToldBefore ==
    ASSUME TypeOK, RemovedIsUnnoticed, [Next]_vars,
           \A g \in Files : ~(HandleChange(g) /\ files[g] # 0),
           NEW f \in Files, f \notin pending' \union unnoticed'
    PROVE  f \notin pending \union unnoticed /\ files'[f] = files[f]
<1> USE DEF TypeOK
<1>1. ASSUME NEW g \in Files, NEW v \in 0..MaxVersion[g], Change(g, v)
      PROVE  f \notin pending \union unnoticed /\ files'[f] = files[f]
  BY <1>1 DEF Change
<1>2. ASSUME NEW g \in Files, Debounce(g)
      PROVE  f \notin pending \union unnoticed /\ files'[f] = files[f]
  BY <1>2 DEF Debounce
<1>3. ASSUME NEW g \in Files, HandleChange(g)
      PROVE  f \notin pending \union unnoticed /\ files'[f] = files[f]
  BY <1>3 DEF HandleChange, RemovedIsUnnoticed
<1>4. CASE UNCHANGED <<files, pending, unnoticed>>
  BY <1>4
<1> QED
  BY <1>1, <1>2, <1>3, <1>4 DEF Next, Start, Look, ReadFile, Store, history, vars

(* A query that no mark has overtaken goes on reading present files: a change is
   pending until the watcher marks the entry, which overtakes every reader. *)
LEMMA NextReadsPresent == ConfigInv /\ [Next]_vars => ReadsPresent'
<1> SUFFICES ASSUME ConfigInv, [Next]_vars, NEW q \in Queries, q \notin early',
                    NEW i \in 1..Len(read'[q]),
                    ReadOrder[i] \notin pending' \union unnoticed'
             PROVE  read'[q][i] = files'[ReadOrder[i]]
  BY DEF ReadsPresent, Present
<1> USE DEF ConfigInv
<1>n. /\ \A t \in Queries : read[t] \in Seq(Versions) /\ Len(read[t]) \in Nat
      /\ Len(read[q]) <= Len(ReadOrder) /\ Len(ReadOrder) \in Nat
  BY ConfigAssumption DEF TypeOK, ReadsInOrder
<1>1. ASSUME NEW f \in Files, HandleChange(f), files[f] # 0 PROVE FALSE
  <2>1. read'[q] = << >>
    BY <1>1 DEF HandleChange, tasks, ReadsInOrder, TypeOK
  <2> QED
    BY <2>1
<1>2. CASE Store(q)
  <2>1. read'[q] = << >>
    BY <1>2 DEF Store, TypeOK
  <2> QED
    BY <2>1
<1>3. ASSUME ~Store(q), \A g \in Files : ~(HandleChange(g) /\ files[g] # 0)
      PROVE  read'[q][i] = files'[ReadOrder[i]]
  <2>1. \A f \in Files : f \notin pending' \union unnoticed'
                         => f \notin pending \union unnoticed /\ files'[f] = files[f]
    BY <1>3, ToldBefore
  <2>2. q \notin early
    BY <1>3 DEF Next, Start, Look, ReadFile, Store, Change, Debounce, HandleChange,
       history, vars
  <2>3. CASE read'[q] = read[q]
    <3>1. ReadOrder[i] \in Files
      BY <1>n, <2>3, ConfigAssumption
    <3> QED
      BY <2>1, <2>2, <2>3, <3>1 DEF ReadsPresent, Present
  <2>4. CASE /\ Len(read[q]) < Len(ReadOrder)
             /\ read'[q] = Append(read[q], files[ReadOrder[Len(read[q]) + 1]])
    <3>1. Len(read'[q]) = Len(read[q]) + 1
      BY <1>n, <2>4
    <3>2. ReadOrder[i] \in Files
      BY <1>n, <2>4, <3>1, ConfigAssumption
    <3>3. CASE i = Len(read[q]) + 1
      <4>1. read'[q][i] = files[ReadOrder[i]]
        BY <1>n, <2>4, <3>3
      <4> QED
        BY <2>1, <3>2, <4>1
    <3>4. CASE i # Len(read[q]) + 1
      <4>1. i \in 1..Len(read[q]) /\ read'[q][i] = read[q][i]
        BY <1>n, <2>4, <3>1, <3>4
      <4> QED
        BY <2>1, <2>2, <3>2, <4>1 DEF ReadsPresent, Present
    <3> QED
      BY <3>3, <3>4
  <2>5. ASSUME NEW t \in Queries, ReadFile(t)
        PROVE  \/ read'[q] = read[q]
               \/ /\ Len(read[q]) < Len(ReadOrder)
                  /\ read'[q] = Append(read[q], files[ReadOrder[Len(read[q]) + 1]])
    BY <2>5 DEF ReadFile, ReadIni, TypeOK
  <2>6. ASSUME NEW t \in Queries, Store(t) PROVE read'[q] = read[q]
    BY <1>3, <2>6 DEF Store, TypeOK
  <2> QED
    BY <2>3, <2>4, <2>5, <2>6 DEF Next, Start, Look, Change, Debounce, HandleChange,
       tasks, vars
<1> QED
  BY <1>1, <1>2, <1>3

(* Only a query that no mark has overtaken stores an entry that counts, and a
   mark leaves no entry clean. *)
LEMMA NextEntryPresent == ConfigInv /\ [Next]_vars => EntryPresent'
<1> SUFFICES ASSUME ConfigInv, [Next]_vars, data' # NoEntry, ~is_dirty', ~raced'
             PROVE  Len(data') = Len(ReadOrder) /\ Present(data)'
  BY DEF EntryPresent
<1> USE DEF ConfigInv
<1>1. ASSUME NEW q \in Queries, Store(q)
      PROVE  Len(data') = Len(ReadOrder) /\ Present(data)'
  <2>1. q \in Queries \ early /\ data' = read[q] /\ UNCHANGED <<files, pending, unnoticed>>
    BY <1>1 DEF Store
  <2>2. Len(read[q]) = Len(ReadOrder)
    BY <1>1 DEF Store, ReadsInOrder
  <2> QED
    BY <2>1, <2>2 DEF ReadsPresent, Present
<1>2. ASSUME UNCHANGED <<data, raced>>, is_dirty' = is_dirty,
             \A g \in Files : ~(HandleChange(g) /\ files[g] # 0)
      PROVE  Len(data') = Len(ReadOrder) /\ Present(data)'
  <2>1. Len(data) = Len(ReadOrder) /\ Present(data)
    BY <1>2 DEF EntryPresent
  <2>2. ASSUME NEW i \in 1..Len(data), ReadOrder[i] \notin pending' \union unnoticed'
        PROVE  data[i] = files'[ReadOrder[i]]
    <3>1. ReadOrder[i] \in Files
      BY <2>1, ConfigAssumption
    <3>2. ReadOrder[i] \notin pending \union unnoticed /\ files'[ReadOrder[i]] = files[ReadOrder[i]]
      BY <1>2, <2>2, <3>1, ToldBefore
    <3> QED
      BY <2>1, <3>2 DEF Present
  <2> QED
    BY <1>2, <2>1, <2>2 DEF Present
<1>3. ASSUME NEW f \in Files, HandleChange(f), files[f] # 0 PROVE FALSE
  BY <1>3 DEF HandleChange, MarkDirty
<1>4. ASSUME NEW f \in Files, HandleChange(f), files[f] = 0
      PROVE  UNCHANGED <<data, raced>> /\ is_dirty' = is_dirty
  BY <1>4 DEF HandleChange
<1>5. \/ \E q \in Queries : Store(q)
      \/ \E f \in Files : HandleChange(f)
      \/ UNCHANGED <<data, raced>> /\ is_dirty' = is_dirty
  BY DEF Next, Start, Look, ReadFile, Change, Debounce, cache, history, vars
<1> QED
  BY <1>1, <1>2, <1>3, <1>4, <1>5

-----------------------------------------------------------------------------
(* What every step of queries and watcher keeps. *)
LEMMA ConfigInvariants == Spec => []ConfigInv
<1>1. ConfigInv /\ [Next]_vars => ConfigInv'
  BY ConfigNextType, NextReadsInOrder, NextRemovedIsUnnoticed, NextReadsPresent,
     NextEntryPresent DEF ConfigInv
<1> QED
  BY <1>1, ConfigInitInv, PTL DEF Spec

(* The entry, the queries that fill it and the watcher keep their types. *)
THEOREM ConfigTypeCorrect == Spec => []TypeOK
<1>1. ConfigInv => TypeOK
  BY DEF ConfigInv
<1> QED
  BY <1>1, ConfigInvariants, PTL

(* When every change has been handled, a clean entry shows the present ini files,
   unless a query stored it that was reading when the last change was handled
   (get_config_data_with_cache, mark_config_cache_dirty). *)
THEOREM StaleByRacingReaders == Spec => []OnlyRacingReadersStoreStale
<1>1. ConfigInv => OnlyRacingReadersStoreStale
  <2> SUFFICES ASSUME ConfigInv, Clean, ~raced, NEW f \in Files \ unnoticed,
                      NEW i \in DOMAIN ReadOrder, ReadOrder[i] = f
               PROVE  data[i] = files[f]
    BY DEF OnlyRacingReadersStoreStale, Shows
  <2>1. Len(data) = Len(ReadOrder) /\ Present(data)
    BY DEF ConfigInv, EntryPresent, Clean
  <2>2. i \in 1..Len(data)
    BY <2>1, ConfigAssumption
  <2> QED
    BY <2>1, <2>2 DEF Present, Clean
<1> QED
  BY <1>1, ConfigInvariants, PTL

-----------------------------------------------------------------------------
(* The least of some numbers. *)
LEMMA LeastNat ==
    ASSUME NEW S \in SUBSET Nat, S # {}
    PROVE  \E x \in S : \A y \in S : x <= y
<1>1. PICK x \in S : \A y \in S : ~(<<y, x>> \in OpToRel(<, Nat))
  BY WFMin, NatLessThanWellFounded
<1>2. ASSUME NEW y \in S PROVE ~(y < x)
  <2>1. ~(<<y, x>> \in {ss \in Nat \X Nat : ss[1] < ss[2]})
    BY <1>1 DEF OpToRel
  <2> QED BY <2>1
<1> QED BY <1>2

\* Vec::retain visits the values one by one.
RetainLoop(s, v, r, m) ==
    r = [n \in 0..m |-> IF n = 0 THEN << >>
                        ELSE IF s[n] = v THEN r[n - 1] ELSE Append(r[n - 1], s[n])]

(* Its loop computes something, for any number of values. *)
LEMMA RetainLoops ==
    ASSUME NEW s, NEW v, NEW m \in Nat
    PROVE  \E r : RetainLoop(s, v, r, m)
<1> DEFINE bad == {k \in Nat : ~\E r : RetainLoop(s, v, r, k)}
<1>1. bad = {}
  <2> SUFFICES ASSUME bad # {} PROVE FALSE
    OBVIOUS
  <2>1. PICK x \in bad : \A y \in bad : x <= y
    <3>1. bad \in SUBSET Nat
      OBVIOUS
    <3> HIDE DEF bad
    <3> QED BY <3>1, LeastNat
  <2>2. CASE x = 0
    <3>1. RetainLoop(s, v, [n \in 0..0 |-> << >>], 0)
      BY DEF RetainLoop
    <3> QED BY <2>2, <3>1
  <2>3. CASE x # 0
    <3>1. x \in Nat /\ x - 1 \in Nat /\ ~(x <= x - 1)
      BY <2>3
    <3>2. PICK r : RetainLoop(s, v, r, x - 1)
      BY <2>1, <3>1
    <3> DEFINE last == IF s[x] = v THEN r[x - 1] ELSE Append(r[x - 1], s[x])
               h == [n \in 0..x |-> IF n = x THEN last ELSE r[n]]
    <3>3. \A n \in 0..(x - 1) : r[n] = IF n = 0 THEN << >>
                        ELSE IF s[n] = v THEN r[n - 1] ELSE Append(r[n - 1], s[n])
      BY <3>1, <3>2 DEF RetainLoop
    <3>4. ASSUME NEW n \in 0..x
          PROVE  h[n] = IF n = 0 THEN << >>
                        ELSE IF s[n] = v THEN h[n - 1] ELSE Append(h[n - 1], s[n])
      <4>1. CASE n = x
        <5>1. h[n] = last /\ h[n - 1] = r[x - 1] /\ n # 0
          BY <2>3, <3>1, <4>1
        <5> QED BY <4>1, <5>1
      <4>2. CASE n # x
        <5>1. n \in 0..(x - 1) /\ h[n] = r[n]
          BY <3>1, <4>2
        <5>2. n # 0 => h[n - 1] = r[n - 1]
          BY <3>1, <4>2
        <5> QED BY <3>3, <5>1, <5>2
      <4> QED BY <4>1, <4>2
    <3>5. RetainLoop(s, v, h, x)
      <4>1. h = [n \in 0..x |-> h[n]]
        OBVIOUS
      <4> HIDE DEF h
      <4> QED BY <3>4, <4>1 DEF RetainLoop
    <3> QED BY <3>5
  <2> QED BY <2>2, <2>3
<1> QED BY <1>1

LEMMA RetainIsLoop ==
    ASSUME NEW V, NEW s \in Seq(V), NEW v
    PROVE  \E r : RetainLoop(s, v, r, Len(s)) /\ Retain(s, v) = r[Len(s)]
<1> DEFINE r == CHOOSE kept : kept = [n \in 0..Len(s) |-> IF n = 0 THEN << >>
                        ELSE IF s[n] = v THEN kept[n - 1] ELSE Append(kept[n - 1], s[n])]
<1>1. \E kept : kept = [n \in 0..Len(s) |-> IF n = 0 THEN << >>
                        ELSE IF s[n] = v THEN kept[n - 1] ELSE Append(kept[n - 1], s[n])]
  <2>1. Len(s) \in Nat
    OBVIOUS
  <2>2. PICK q : RetainLoop(s, v, q, Len(s))
    BY <2>1, RetainLoops
  <2> QED BY <2>2, Zenon DEF RetainLoop
<1>2. RetainLoop(s, v, r, Len(s))
  BY <1>1 DEF RetainLoop
<1>3. Retain(s, v) = r[Len(s)]
  BY DEF Retain
<1> QED BY <1>2, <1>3

LEMMA RetainFew ==
    ASSUME NEW v, NEW w
    PROVE  Retain(<< >>, v) = << >> /\ Retain(<<w>>, v) = IF w = v THEN << >> ELSE <<w>>
<1>1. Retain(<< >>, v) = << >>
  <2>1. << >> \in Seq({w}) /\ Len(<< >>) = 0
    OBVIOUS
  <2>2. PICK r : RetainLoop(<< >>, v, r, 0) /\ Retain(<< >>, v) = r[0]
    BY <2>1, RetainIsLoop
  <2> QED BY <2>2 DEF RetainLoop
<1>2. Retain(<<w>>, v) = IF w = v THEN << >> ELSE <<w>>
  <2>1. <<w>> \in Seq({w}) /\ Len(<<w>>) = 1 /\ <<w>>[1] = w /\ Append(<< >>, w) = <<w>>
    OBVIOUS
  <2>2. PICK r : RetainLoop(<<w>>, v, r, 1) /\ Retain(<<w>>, v) = r[1]
    BY <2>1, RetainIsLoop
  <2>3. r[0] = << >> /\ r[1] = IF w = v THEN r[0] ELSE Append(r[0], w)
    BY <2>1, <2>2 DEF RetainLoop
  <2> QED BY <2>1, <2>2, <2>3
<1> QED BY <1>1, <1>2

-----------------------------------------------------------------------------
(* What is picked from a sequence. *)

\* One place more, behind the others.
LEMMA PicksAppend ==
    ASSUME NEW V, NEW t \in Seq(V), NEW s \in Seq(V), NEW n \in 1..Len(s),
           NEW K \in SUBSET (1..(n - 1)), ValueList!Picks(t, s, K)
    PROVE  ValueList!Picks(Append(t, s[n]), s, K \union {n})
<1>1. PICK at \in [DOMAIN t -> DOMAIN s] :
        /\ \A i, j \in DOMAIN t : i < j => at[i] < at[j]
        /\ K = {at[i] : i \in DOMAIN t}
        /\ \A i \in DOMAIN t : t[i] = s[at[i]]
  BY DEF ValueList!Picks
<1> DEFINE l == Len(t)
           u == Append(t, s[n])
           to == [i \in 1..(l + 1) |-> IF i = l + 1 THEN n ELSE at[i]]
<1>2. /\ l \in Nat /\ DOMAIN t = 1..l /\ DOMAIN s = 1..Len(s) /\ DOMAIN u = 1..(l + 1)
      /\ u[l + 1] = s[n] /\ \A i \in 1..l : u[i] = t[i] /\ i # l + 1 /\ i \in 1..(l + 1)
  OBVIOUS
<1>3. \A i \in 1..l : at[i] \in 1..(n - 1) /\ at[i] < n
  BY <1>1, <1>2
<1>4. to[l + 1] = n /\ \A i \in 1..l : to[i] = at[i]
  BY <1>2
<1>5. to \in [DOMAIN u -> DOMAIN s]
  BY <1>1, <1>2
<1>6. \A i, j \in DOMAIN u : i < j => to[i] < to[j]
  <2> SUFFICES ASSUME NEW i \in 1..(l + 1), NEW j \in 1..(l + 1), i < j PROVE to[i] < to[j]
    BY <1>2
  <2>1. i \in 1..l /\ to[i] = at[i]
    BY <1>2, <1>4
  <2>2. CASE j = l + 1
    BY <1>3, <1>4, <2>1, <2>2
  <2>3. CASE j # l + 1
    <3>1. j \in 1..l /\ to[j] = at[j]
      BY <1>2, <1>4, <2>3
    <3> QED BY <1>1, <1>2, <2>1, <3>1
  <2> QED BY <2>2, <2>3
<1>7. K \union {n} = {to[i] : i \in DOMAIN u}
  <2>1. \A i \in 1..(l + 1) : to[i] \in K \union {n}
    BY <1>1, <1>2, <1>4
  <2>2. \A k \in K : \E i \in 1..(l + 1) : k = to[i]
    BY <1>1, <1>2, <1>4
  <2>3. \E i \in 1..(l + 1) : n = to[i]
    BY <1>2, <1>4
  <2>4. DOMAIN u = 1..(l + 1)
    BY <1>2
  <2> HIDE DEF to, u
  <2>5. K \union {n} = {to[i] : i \in 1..(l + 1)}
    BY <2>1, <2>2, <2>3
  <2> QED BY <2>4, <2>5
<1>8. \A i \in DOMAIN u : u[i] = s[to[i]]
  BY <1>1, <1>2, <1>4
<1> HIDE DEF to, u
<1>9. ValueList!Picks(u, s, K \union {n})
  BY <1>5, <1>6, <1>7, <1>8 DEF ValueList!Picks
<1> QED BY <1>9 DEF u

\* Nothing picked.
LEMMA PicksNone ==
    ASSUME NEW s
    PROVE  ValueList!Picks(<< >>, s, {})
<1> DEFINE at == [i \in {} |-> 0]
<1>1. at \in [{} -> DOMAIN s] /\ {} = {at[i] : i \in {}}
  OBVIOUS
<1>2. DOMAIN << >> = {}
  OBVIOUS
<1> QED BY <1>1, <1>2 DEF ValueList!Picks

\* A longer sequence to pick from.
LEMMA PicksGrow ==
    ASSUME NEW V, NEW t \in Seq(V), NEW s \in Seq(V), NEW v \in V, NEW K,
           ValueList!Picks(t, s, K)
    PROVE  ValueList!Picks(t, Append(s, v), K)
<1>1. PICK at \in [DOMAIN t -> DOMAIN s] :
        /\ \A i, j \in DOMAIN t : i < j => at[i] < at[j]
        /\ K = {at[i] : i \in DOMAIN t}
        /\ \A i \in DOMAIN t : t[i] = s[at[i]]
  BY DEF ValueList!Picks
<1>2. /\ DOMAIN s \subseteq DOMAIN Append(s, v)
      /\ \A i \in DOMAIN s : Append(s, v)[i] = s[i]
  OBVIOUS
<1>3. at \in [DOMAIN t -> DOMAIN Append(s, v)]
  BY <1>2
<1>4. \A i \in DOMAIN t : t[i] = Append(s, v)[at[i]]
  BY <1>1, <1>2
<1> QED BY <1>1, <1>3, <1>4 DEF ValueList!Picks

\* Picking from what was picked.
LEMMA PicksWithout ==
    ASSUME NEW u, NEW t, NEW s, NEW v, NEW J, NEW K, NEW L,
           J = {j \in DOMAIN t : t[j] # v}, L = {i \in K : s[i] # v},
           DOMAIN u \subseteq Nat, DOMAIN t \subseteq Nat,
           ValueList!Picks(u, t, J), ValueList!Picks(t, s, K)
    PROVE  ValueList!Picks(u, s, L)
<1>1. PICK f \in [DOMAIN u -> DOMAIN t] :
        /\ \A i, j \in DOMAIN u : i < j => f[i] < f[j]
        /\ J = {f[i] : i \in DOMAIN u}
        /\ \A i \in DOMAIN u : u[i] = t[f[i]]
  BY DEF ValueList!Picks
<1>2. PICK g \in [DOMAIN t -> DOMAIN s] :
        /\ \A i, j \in DOMAIN t : i < j => g[i] < g[j]
        /\ K = {g[i] : i \in DOMAIN t}
        /\ \A i \in DOMAIN t : t[i] = s[g[i]]
  BY DEF ValueList!Picks
<1> DEFINE h == [i \in DOMAIN u |-> g[f[i]]]
<1>3. h \in [DOMAIN u -> DOMAIN s]
  BY <1>1, <1>2
<1>4. \A i, j \in DOMAIN u : i < j => h[i] < h[j]
  BY <1>1, <1>2
<1>5. \A i \in DOMAIN u : u[i] = s[h[i]]
  BY <1>1, <1>2
<1>6. L = {h[i] : i \in DOMAIN u}
  <2>1. ASSUME NEW i \in DOMAIN u PROVE h[i] \in K /\ s[h[i]] # v
    <3>1. f[i] \in DOMAIN t /\ t[f[i]] # v
      BY <1>1
    <3> QED BY <1>2, <3>1
  <2>2. ASSUME NEW k \in K, s[k] # v PROVE \E i \in DOMAIN u : k = h[i]
    <3>1. PICK j \in DOMAIN t : k = g[j]
      BY <1>2
    <3>2. t[j] # v
      BY <1>2, <2>2, <3>1
    <3>3. PICK i \in DOMAIN u : j = f[i]
      BY <1>1, <3>2
    <3> QED BY <3>1, <3>3
  <2> HIDE DEF h
  <2> QED BY <2>1, <2>2
<1> HIDE DEF h
<1> QED BY <1>3, <1>4, <1>5, <1>6 DEF ValueList!Picks

(* Vec::retain keeps what is not v, in its order. *)
LEMMA RetainPicks ==
    ASSUME NEW V, NEW s \in Seq(V), NEW v
    PROVE  /\ Retain(s, v) \in Seq(V) /\ Len(Retain(s, v)) <= Len(s)
           /\ ValueList!Picks(Retain(s, v), s, {i \in DOMAIN s : s[i] # v})
<1>1. PICK r : RetainLoop(s, v, r, Len(s)) /\ Retain(s, v) = r[Len(s)]
  BY RetainIsLoop
<1>2. Len(s) \in Nat /\ DOMAIN s = 1..Len(s)
  OBVIOUS
<1>3. \A n \in 0..Len(s) : r[n] = IF n = 0 THEN << >>
                        ELSE IF s[n] = v THEN r[n - 1] ELSE Append(r[n - 1], s[n])
  BY <1>1, <1>2 DEF RetainLoop
<1> DEFINE kept(n) == {i \in 1..n : s[i] # v}
           Good(n) == r[n] \in Seq(V) /\ Len(r[n]) <= n /\ ValueList!Picks(r[n], s, kept(n))
           bad == {n \in 0..Len(s) : ~Good(n)}
<1>4. bad = {}
  <2> SUFFICES ASSUME bad # {} PROVE FALSE
    OBVIOUS
  <2>1. PICK x \in bad : \A y \in bad : x <= y
    <3>1. bad \in SUBSET Nat
      OBVIOUS
    <3> HIDE DEF bad
    <3> QED BY <3>1, LeastNat
  <2>2. CASE x = 0
    <3>1. r[0] = << >> /\ kept(0) = {}
      BY <1>2, <1>3
    <3>2. Good(0)
      BY <3>1, PicksNone
    <3> QED BY <2>1, <2>2, <3>2
  <2>3. CASE x # 0
    <3>1. x \in 1..Len(s) /\ x - 1 \in 0..Len(s) /\ ~(x <= x - 1) /\ x \in 0..Len(s) /\ s[x] \in V
      BY <2>3
    <3>2. Good(x - 1)
      <4>1. x - 1 \notin bad
        BY <2>1, <3>1
      <4> QED BY <3>1, <4>1
    <3>3. CASE s[x] = v
      <4>1. r[x] = r[x - 1] /\ kept(x) = kept(x - 1)
        BY <1>3, <2>3, <3>1, <3>3
      <4>2. r[x] \in Seq(V) /\ Len(r[x]) <= x
        BY <3>1, <3>2, <4>1
      <4>3. ValueList!Picks(r[x], s, kept(x))
        <5> HIDE DEF kept
        <5> QED BY <3>2, <4>1
      <4> QED BY <2>1, <4>2, <4>3
    <3>4. CASE s[x] # v
      <4>1. r[x] = Append(r[x - 1], s[x])
        BY <1>3, <2>3, <3>1, <3>4
      <4>2. kept(x) = kept(x - 1) \union {x}
        BY <3>1, <3>4
      <4>3. kept(x - 1) \in SUBSET (1..(x - 1))
        OBVIOUS
      <4>4. r[x - 1] \in Seq(V) /\ ValueList!Picks(r[x - 1], s, kept(x - 1)) /\ Len(r[x - 1]) <= x - 1
        BY <3>2
      <4>5. ValueList!Picks(r[x], s, kept(x))
        <5>1. ValueList!Picks(Append(r[x - 1], s[x]), s, kept(x - 1) \union {x})
          <6> HIDE DEF kept
          <6> QED BY <3>1, <4>3, <4>4, PicksAppend
        <5> QED BY <4>1, <4>2, <5>1
      <4>6. r[x] \in Seq(V) /\ Len(r[x]) <= x
        BY <3>1, <4>1, <4>4
      <4> QED BY <2>1, <4>5, <4>6
    <3> QED BY <3>3, <3>4
  <2> QED BY <2>2, <2>3
<1>5. Good(Len(s))
  <2>1. Len(s) \in 0..Len(s)
    BY <1>2
  <2>2. Len(s) \notin bad
    <3> HIDE DEF bad
    <3> QED BY <1>4
  <2> HIDE DEF kept
  <2> QED BY <2>1, <2>2
<1> QED BY <1>1, <1>2, <1>5

-----------------------------------------------------------------------------
\* Merging the lines of one key.

Written == [i \in DOMAIN lines |-> lines[i].value]
Survivors == {i \in DOMAIN lines : Survives(i)}

\* The values a key can have, whatever the number of lines.
Shapes == {Null} \union {String(v) : v \in Values} \union {Array(s) : s \in Seq(Values) \ {<< >>}}

\* A key has at most as many values as lines.
MergeTypes ==
    /\ value \in Shapes /\ Len(value.items) <= Len(lines) /\ Len(lines) <= MaxLines
    /\ lines \in Seq([op : Ops, value : Values, left : Json])

MergeInv == MergeTypes /\ MergedIsWhatSurvives

LEMMA ShapeOf ==
    ASSUME NEW x \in Shapes
    PROVE  /\ x.items \in Seq(Values)
           /\ \/ x = Null /\ x.items = << >> /\ x.shape = "null"
              \/ \E v \in Values : x = String(v) /\ x.items = <<v>> /\ x.shape = "string"
              \/ x.shape = "array" /\ x = Array(x.items) /\ x.items # << >>
<1>1. CASE x = Null
  BY <1>1 DEF Null
<1>2. ASSUME NEW v \in Values, x = String(v)
      PROVE  x.items \in Seq(Values) /\ x.items = <<v>> /\ x.shape = "string"
  BY <1>2 DEF String
<1>3. ASSUME NEW s \in Seq(Values) \ {<< >>}, x = Array(s)
      PROVE  x.items \in Seq(Values) /\ x.shape = "array" /\ x = Array(x.items) /\ x.items # << >>
  <2>1. x.items = s /\ x.shape = "array"
    BY <1>3 DEF Array
  <2> QED BY <1>3, <2>1
<1>4. \/ x = Null \/ \E v \in Values : x = String(v)
      \/ \E s \in Seq(Values) \ {<< >>} : x = Array(s)
  BY DEF Shapes
<1> QED BY <1>1, <1>2, <1>3, <1>4

\* Whatever the shape, removing a value retains the others.
LEMMA RemovedRetains ==
    ASSUME NEW x \in Shapes, NEW v
    PROVE  Removed(x, v).items = Retain(x.items, v) /\ Removed(x, v) \in Shapes
<1> DEFINE u == Retain(x.items, v)
           y == Removed(x, v)
<1>1. CASE x.shape = "array"
  <2>1. y = ArrayOrNull(u)
    BY <1>1 DEF Removed, String
  <2>2. CASE u = << >>
    BY <2>1, <2>2 DEF ArrayOrNull, Null, Shapes
  <2>3. CASE u # << >>
    <3>1. u \in Seq(Values)
      BY ShapeOf, RetainPicks
    <3>2. y = Array(u)
      BY <2>1, <2>3 DEF ArrayOrNull
    <3> HIDE DEF u, y
    <3>3. y.items = u
      BY <3>2 DEF Array
    <3>4. y \in Shapes
      BY <2>3, <3>1, <3>2 DEF Shapes
    <3> QED BY <3>3, <3>4 DEF u, y
  <2> QED BY <2>2, <2>3
<1>2. CASE x = Null
  <2>1. y = x /\ x.items = << >>
    BY <1>2 DEF Removed, Null, String
  <2>2. u = << >>
    BY <2>1, RetainFew
  <2> QED BY <2>1, <2>2
<1>3. ASSUME NEW w \in Values, x = String(w)
      PROVE  y.items = u /\ y \in Shapes
  <2>1. x.items = <<w>> /\ x.shape # "array"
    BY <1>3 DEF String
  <2>2. u = IF w = v THEN << >> ELSE <<w>>
    BY <2>1, RetainFew
  <2>3. CASE w = v
    <3>1. y = Null
      BY <1>3, <2>1, <2>3 DEF Removed
    <3> QED BY <2>2, <2>3, <3>1 DEF Null, Shapes
  <2>4. CASE w # v
    <3>1. y = x
      BY <1>3, <2>1, <2>4 DEF Removed, String
    <3> QED BY <2>1, <2>2, <2>4, <3>1
  <2> QED BY <2>3, <2>4
<1>4. \/ x = Null
      \/ \E w \in Values : x = String(w)
      \/ x.shape = "array"
  BY ShapeOf
<1> QED BY <1>1, <1>2, <1>3, <1>4

LEMMA ShapeIsJson ==
    ASSUME NEW x \in Shapes, Len(x.items) <= MaxLines
    PROVE  x \in Json
<1>1. CASE x.shape = "array" /\ x = Array(x.items) /\ x.items # << >>
  <2>1. x.items \in Seq(Values) /\ Len(x.items) \in 0..MaxLines
    BY ShapeOf, MergeAssumption
  <2>2. x.items \in [1..Len(x.items) -> Values]
    BY <2>1
  <2>3. x.items \in BoundedSeq(Values, MaxLines)
    BY <2>1, <2>2, Zenon DEF BoundedSeq, SeqOf
  <2> QED BY <1>1, <2>3, Zenon DEF Json, Lists
<1>2. CASE ~(x.shape = "array" /\ x = Array(x.items) /\ x.items # << >>)
  BY <1>2, ShapeOf, Zenon DEF Json
<1> QED BY <1>1, <1>2

LEMMA LinesWritten ==
    ASSUME MergeTypes
    PROVE  /\ Written \in Seq(Values) /\ Len(Written) = Len(lines)
           /\ DOMAIN lines = 1..Len(lines) /\ Len(lines) \in Nat
<1>1. lines \in Seq([op : Ops, value : Values, left : Json])
  BY DEF MergeTypes
<1>2. DOMAIN lines = 1..Len(lines) /\ Len(lines) \in Nat
  BY <1>1
<1>3. \A i \in 1..Len(lines) : lines[i].value \in Values
  <2> DEFINE R == [op : Ops, value : Values, left : Json]
  <2>1. \A r \in R : r.value \in Values
    OBVIOUS
  <2>2. lines \in Seq(R)
    BY <1>1
  <2> HIDE DEF R
  <2>3. \A i \in 1..Len(lines) : lines[i] \in R
    BY <2>2
  <2> QED BY <2>1, <2>3
<1>4. Written = [i \in 1..Len(lines) |-> lines[i].value]
  BY <1>2 DEF Written
<1> QED BY <1>2, <1>3, <1>4

LEMMA SeqIsFunction ==
    ASSUME NEW V, NEW s \in Seq(V)
    PROVE  s = [i \in 1..Len(s) |-> s[i]]
OBVIOUS

LEMMA NextMergeInv ==
    ASSUME MergeInv, NEW op \in Ops, NEW v \in Values, Line(op, v)
    PROVE  MergeInv'
<1> DEFINE n == Len(lines)
           W == Written
           S == Survivors
<1>0. MergeTypes /\ ValueList!Picks(value.items, W, S)
  BY DEF MergeInv, MergedIsWhatSurvives, Written, Survivors
<1>1. /\ value.items \in Seq(Values) /\ W \in Seq(Values) /\ Len(W) = n /\ n \in Nat
      /\ DOMAIN lines = 1..n /\ Len(value.items) \in Nat /\ Len(value.items) <= n
      /\ S \in SUBSET (1..n)
  <2>1. value.items \in Seq(Values) /\ Len(value.items) \in Nat /\ Len(value.items) <= n
    BY <1>0, ShapeOf DEF MergeTypes
  <2>2. W \in Seq(Values) /\ Len(W) = n /\ n \in Nat /\ DOMAIN lines = 1..n
    BY <1>0, LinesWritten
  <2> QED BY <2>1, <2>2 DEF Survivors
<1>2. /\ value' = apply_op(value, op, v) /\ n < MaxLines
      /\ lines' = Append(lines, [op |-> op, value |-> v, left |-> value'])
  BY DEF Line
<1>3. /\ DOMAIN lines' = 1..(n + 1) /\ Len(lines') = n + 1
      /\ lines'[n + 1].op = op /\ lines'[n + 1].value = v
      /\ \A i \in 1..n : lines'[i] = lines[i]
  <2>1. lines \in Seq([op : Ops, value : Values, left : Json])
    BY <1>0 DEF MergeTypes
  <2> QED BY <1>1, <1>2, <2>1
<1>4. Written' = Append(W, v)
  <2>1. Written' = [i \in 1..(n + 1) |-> lines'[i].value]
    BY <1>3 DEF Written
  <2>2. \A i \in 1..(n + 1) : lines'[i].value = Append(W, v)[i]
    <3>1. ASSUME NEW i \in 1..n PROVE lines'[i].value = Append(W, v)[i]
      BY <1>1, <1>3 DEF Written
    <3>2. lines'[n + 1].value = Append(W, v)[n + 1]
      BY <1>1, <1>3
    <3> QED BY <1>1, <3>1, <3>2
  <2>3. Append(W, v) = [i \in 1..(n + 1) |-> Append(W, v)[i]]
    <3>1. Append(W, v) \in Seq(Values) /\ Len(Append(W, v)) = n + 1
      BY <1>1
    <3> QED BY <3>1, SeqIsFunction
  <2> QED BY <2>1, <2>2, <2>3
\* What survives one more line.
<1>5. /\ \A i \in S : i \in Survivors' <=> op \notin {"Set", "Clear"} /\ (op = "Remove" => W[i] # v)
      /\ \A i \in Survivors' : i \in S \/ i = n + 1
      /\ n + 1 \in Survivors' <=> op \in {"Set", "Add"}
  <2>1. ASSUME NEW i \in 1..n
        PROVE  Survives(i)' <=> /\ Survives(i) /\ op \notin {"Set", "Clear"}
                                /\ op = "Remove" => W[i] # v
    <3>1. W[i] = lines[i].value /\ lines'[i] = lines[i]
      BY <1>1, <1>3 DEF Written
    <3>2. \A j \in (i + 1)..(n + 1) : j = n + 1 \/ (j \in (i + 1)..n /\ j \in 1..n)
      BY <1>1
    <3>3. \A j \in (i + 1)..n : j \in (i + 1)..(n + 1) /\ j \in 1..n
      BY <1>1
    <3>4. n + 1 \in (i + 1)..(n + 1)
      BY <1>1
    <3> QED BY <1>3, <3>1, <3>2, <3>3, <3>4 DEF Survives
  <2>2. ASSUME NEW k, k = n + 1 PROVE Survives(k)' <=> op \in {"Set", "Add"}
    <3>1. (k + 1)..(n + 1) = {}
      BY <1>1, <2>2
    <3> QED BY <1>3, <2>2, <3>1 DEF Survives
  <2>3. Survivors' = {i \in 1..(n + 1) : Survives(i)'}
    BY <1>3 DEF Survivors
  <2>4. S = {i \in 1..n : Survives(i)}
    BY <1>1 DEF Survivors
  <2>5. \A i : i \in 1..(n + 1) <=> i \in 1..n \/ i = n + 1
    BY <1>1
  <2>6. \A i \in S : i \in Survivors' <=> op \notin {"Set", "Clear"} /\ (op = "Remove" => W[i] # v)
    BY <2>1, <2>3, <2>4, <2>5
  <2>7. \A i \in Survivors' : i \in S \/ i = n + 1
    BY <2>1, <2>3, <2>4, <2>5
  <2>8. n + 1 \in Survivors' <=> op \in {"Set", "Add"}
    BY <2>2, <2>3, <2>5
  <2> QED BY <2>6, <2>7, <2>8
<1>6. /\ ValueList!Picks(value'.items, Written', Survivors')
      /\ value' \in Shapes
      /\ Len(value'.items) <= n + 1
  <2>0. /\ Append(W, v) \in Seq(Values) /\ Append(W, v)[n + 1] = v
        /\ n + 1 \in 1..Len(Append(W, v)) /\ S \in SUBSET (1..((n + 1) - 1))
    BY <1>1
  <2>9. ASSUME NEW t \in Seq(Values), NEW K \in SUBSET (1..n), ValueList!Picks(t, Append(W, v), K)
        PROVE  ValueList!Picks(Append(t, v), Append(W, v), K \union {n + 1})
    <3>1. K \in SUBSET (1..((n + 1) - 1))
      BY <1>1
    <3> HIDE DEF W, n
    <3> QED BY <2>0, <2>9, <3>1, PicksAppend
  <2>1. CASE op = "Clear"
    <3>1. value' = Null
      BY <1>2, <2>1 DEF apply_op
    <3>2. Survivors' = {}
      BY <1>5, <2>1
    <3>3. value'.items = << >> /\ value' \in Shapes
      BY <3>1 DEF Null, Shapes
    <3>4. ValueList!Picks(<< >>, Written', {})
      BY PicksNone
    <3> QED BY <1>1, <3>2, <3>3, <3>4
  <2>2. CASE op = "Set"
    <3>1. value' = String(v)
      BY <1>2, <2>2 DEF apply_op
    <3>2. Survivors' = {} \union {n + 1}
      BY <1>5, <2>2
    <3>3. value'.items = Append(<< >>, v) /\ value' \in Shapes
      BY <3>1 DEF String, Shapes
    <3>4. ValueList!Picks(<< >>, Append(W, v), {})
      BY PicksNone
    <3>5. ValueList!Picks(Append(<< >>, v), Append(W, v), {} \union {n + 1})
      <4>1. << >> \in Seq(Values) /\ {} \in SUBSET (1..n)
        OBVIOUS
      <4> QED BY <2>9, <3>4, <4>1
    <3> QED BY <1>1, <1>4, <3>2, <3>3, <3>5
  <2>3. CASE op = "Add"
    <3>1. value' = Array(Append(value.items, v))
      BY <1>2, <2>3 DEF apply_op, Added
    <3>2. Survivors' = S \union {n + 1}
      BY <1>5, <2>3
    <3>3. value'.items = Append(value.items, v)
      BY <3>1 DEF Array
    <3>4. ValueList!Picks(value.items, Append(W, v), S)
      BY <1>0, <1>1, PicksGrow
    <3>5. ValueList!Picks(Append(value.items, v), Append(W, v), S \union {n + 1})
      BY <1>1, <2>0, <2>9, <3>4
    <3>6. Append(value.items, v) \in Seq(Values) /\ Len(Append(value.items, v)) <= n + 1
      BY <1>1
    <3>7. Append(value.items, v) # << >>
      BY <1>1
    <3>8. value' \in Shapes
      BY <3>1, <3>6, <3>7 DEF Shapes
    <3> QED BY <1>4, <3>2, <3>3, <3>5, <3>6, <3>8
  <2>4. CASE op = "Remove"
    <3> DEFINE u == Retain(value.items, v)
    <3>0. value' = Removed(value, v)
      BY <1>2, <2>4 DEF apply_op
    <3>1. Survivors' = {i \in S : Append(W, v)[i] # v}
      <4>1. Survivors' = {i \in S : W[i] # v}
        BY <1>5, <2>4
      <4>2. \A i \in S : Append(W, v)[i] = W[i]
        BY <1>1
      <4> QED BY <4>1, <4>2
    <3>2. /\ u \in Seq(Values) /\ Len(u) <= Len(value.items)
          /\ ValueList!Picks(u, value.items, {j \in DOMAIN value.items : value.items[j] # v})
      BY <1>1, RetainPicks
    <3>3. ValueList!Picks(u, Append(W, v), {i \in S : Append(W, v)[i] # v})
      <4>1. ValueList!Picks(value.items, Append(W, v), S)
        BY <1>0, <1>1, PicksGrow
      <4>2. value.items \in Seq(Values)
        BY <1>1
      <4> DEFINE s == Append(W, v)
                 t == value.items
                 J == {j \in DOMAIN t : t[j] # v}
                 L == {i \in S : s[i] # v}
      <4>3. ValueList!Picks(t, s, S) /\ ValueList!Picks(u, t, J)
        BY <3>2, <4>1
      <4>4. DOMAIN t \subseteq Nat /\ DOMAIN u \subseteq Nat
        BY <3>2, <4>2
      <4>5. J = {j \in DOMAIN t : t[j] # v} /\ L = {i \in S : s[i] # v}
        OBVIOUS
      <4> HIDE DEF u, S, s, t, J, L
      <4>6. ValueList!Picks(u, s, L)
        BY <4>3, <4>4, <4>5, PicksWithout
      <4> QED BY <4>6 DEF s, L
    <3>4. value'.items = u /\ value' \in Shapes
      BY <1>0, <3>0, RemovedRetains DEF MergeTypes
    <3>5. Len(u) <= n + 1
      <4>1. Len(u) \in Nat /\ Len(u) <= Len(value.items)
        BY <3>2
      <4> HIDE DEF u
      <4> QED BY <1>1, <4>1
    <3> QED BY <1>4, <3>1, <3>3, <3>4, <3>5
  <2> QED BY <2>1, <2>2, <2>3, <2>4 DEF Ops
<1>7. MergeTypes'
  <2>1. Len(lines') <= MaxLines /\ Len(value'.items) <= Len(lines')
    BY <1>1, <1>2, <1>3, <1>6, MergeAssumption
  <2>2. value' \in Json
    <3>1. Len(value'.items) <= MaxLines
      <4>1. Len(value'.items) \in Nat
        BY <1>6, ShapeOf
      <4> QED BY <1>1, <1>2, <1>6, <4>1, MergeAssumption
    <3> QED BY <1>6, <3>1, ShapeIsJson
  <2> QED BY <1>0, <1>2, <1>6, <2>1, <2>2 DEF MergeTypes
<1> QED BY <1>6, <1>7 DEF MergeInv, MergedIsWhatSurvives, Written, Survivors

-----------------------------------------------------------------------------
(* What every line of the stack keeps. *)
LEMMA MergeInvariants == MergeSpec => []MergeInv
<1>1. MergeInit => MergeInv
  <2> SUFFICES ASSUME MergeInit PROVE MergeInv
    OBVIOUS
  <2>1. value = Null /\ lines = << >> /\ value.items = << >>
    BY DEF MergeInit, Null
  <2>2. Survivors = {}
    BY <2>1 DEF Survivors
  <2>3. ValueList!Picks(<< >>, Written, {})
    BY PicksNone
  <2>4. MergeTypes
    BY <2>1, MergeAssumption DEF MergeTypes, Shapes
  <2> QED BY <2>1, <2>2, <2>3, <2>4 DEF MergeInv, MergedIsWhatSurvives, Written, Survivors
<1>2. MergeInv /\ [MergeNext]_mergeVars => MergeInv'
  <2>1. CASE UNCHANGED mergeVars
    BY <2>1 DEF mergeVars, MergeInv, MergeTypes, MergedIsWhatSurvives, Survives
  <2> QED BY <2>1, NextMergeInv DEF MergeNext
<1> QED BY <1>1, <1>2, PTL DEF MergeSpec

(* The merged value is null, a string or an array that is not empty, of values that the
   lines have. *)
THEOREM MergeTypeCorrect == MergeSpec => []MergeTypeOK
<1>1. MergeInv => MergeTypeOK
  <2> SUFFICES ASSUME MergeInv PROVE MergeTypeOK
    OBVIOUS
  <2>1. value \in Shapes /\ Len(value.items) <= MaxLines
    <3>1. Len(value.items) \in Nat /\ Len(lines) \in Nat
      BY ShapeOf, LinesWritten DEF MergeInv, MergeTypes
    <3> QED BY <3>1, MergeAssumption DEF MergeInv, MergeTypes
  <2> QED BY <2>1, ShapeIsJson DEF MergeInv, MergeTypes, MergeTypeOK
<1> QED BY <1>1, MergeInvariants, PTL

(* Whatever lines a key has, its merged value lists what they set or added and no later
   line replaced, cleared or removed (apply_op, line by line). *)
THEOREM MergedSurvives == MergeSpec => []MergedIsWhatSurvives
<1>1. MergeInv => MergedIsWhatSurvives
  BY DEF MergeInv
<1> QED BY <1>1, MergeInvariants, PTL

(* Whatever shapes the value of a key takes in between (null, string, array), its
   strings change as the operators of ini lines say (apply_op). *)
THEOREM MergeRefinement == MergeSpec => ImplementsConfigList
<1>1. MergeInit => ValueList!Init
  BY DEF MergeInit, Null, ValueList!Init
<1>2. MergeInv /\ [MergeNext]_mergeVars => [ValueList!Next]_(value.items)
  <2> SUFFICES ASSUME MergeInv, [MergeNext]_mergeVars PROVE [ValueList!Next]_(value.items)
    OBVIOUS
  <2>1. ASSUME NEW op \in Ops, NEW v \in Values, Line(op, v)
        PROVE  ValueList!Next
    <3>0. value' = apply_op(value, op, v)
      BY <2>1 DEF Line
    <3>1. CASE op = "Clear"
      <4>1. ValueList!Clear
        BY <3>0, <3>1 DEF apply_op, Null, ValueList!Clear
      <4> QED BY <4>1 DEF ValueList!Next
    <3>2. CASE op = "Set"
      <4>1. ValueList!Set(v)
        BY <3>0, <3>2 DEF apply_op, String, ValueList!Set
      <4> QED BY <4>1 DEF ValueList!Next
    <3>3. CASE op = "Add"
      <4>1. ValueList!Add(v)
        BY <3>0, <3>3 DEF apply_op, Added, Array, ValueList!Add
      <4> QED BY <4>1 DEF ValueList!Next
    <3>4. CASE op = "Remove"
      <4>1. value' = Removed(value, v) /\ value \in Shapes
        BY <3>0, <3>4 DEF apply_op, MergeInv, MergeTypes
      <4>2. value'.items = Retain(value.items, v) /\ value.items \in Seq(Values)
        BY <4>1, RemovedRetains, ShapeOf
      <4>3. ValueList!Remove(v)
        BY <4>2, RetainPicks DEF ValueList!Remove
      <4> QED BY <4>3 DEF ValueList!Next
    <3> QED BY <3>1, <3>2, <3>3, <3>4 DEF Ops
  <2>2. CASE UNCHANGED mergeVars
    BY <2>2 DEF mergeVars
  <2> QED BY <2>1, <2>2 DEF MergeNext
<1> QED
  BY <1>1, <1>2, MergeInvariants, PTL DEF MergeSpec, ImplementsConfigList, ValueList!Spec
=============================================================================
