--------------------------- MODULE IndexDbProofs ---------------------------
(***************************************************************************)
(* What can be proved of the index and of the queries that walk it:        *)
(*   - of IndexDb, for any set of files and any disk: rows keep their      *)
(*     symbols, links name a parent, refreshes repair, the index follows   *)
(*     the disk;                                                           *)
(*   - of SymbolIndex, Members and Goto, for any sequence of refreshes and *)
(*     saves: what is listed has its type, what is inherited is offered,   *)
(*     the requests at a cursor agree, and goto finds what is offered.     *)
(*                                                                         *)
(* The walks along bases are loops of which nobody knows the number of     *)
(* turns (Loop): what their turns keep holds where they end, since each    *)
(* turn leaves less to visit (LoopEnds). Loops over 0..n are proved about  *)
(* as in QueriesProofs.                                                    *)
(***************************************************************************)
EXTENDS IndexDb, Goto, QueriesProofs

-----------------------------------------------------------------------------
\* The rows of IndexDb.

\* A replaced row never belongs to a source, given that no stored path is found
\* again among the paths on disk.
ReplacesNoSource == others \cap Sources = {}

\* Strengthening of RowsHaveSymbols.
RowInv == TypeOK /\ ReplacesNoSource /\ RowsHaveSymbols

\* Nothing is parsed before the step that parses, and all is when it is saved.
ParsedInOrder ==
    \A f \in Sources :
        /\ rstep \in {"idle", "load", "modules", "plan", "delete"} => parsed[f] = 0
        /\ rstep = "save" /\ f \in toParse => parsed[f] # 0

\* The plan is one of the present disk.
PlanOfDisk ==
    /\ planned = disk
    /\ toParse = onDisk \cap Sources
    /\ others = onDisk \ Sources

\* How far an undisturbed refresh has come: it empties the index, fills in the
\* sources, then the other files.
QuietInv == quiet =>
    /\ rstep # "idle" /\ pending = {} /\ watch = NoFile
    /\ onDisk = {f \in Files : disk[f] # 0}
    /\ \A f \in Sources : parsed[f] \in {0, disk[f]}
    /\ rstep \in {"modules", "plan"} => \A f \in Files : existing[f] # NoTime <=> row[f] # 0
    /\ rstep \notin {"load", "modules", "plan"} => PlanOfDisk
    /\ rstep = "delete" => deleted = {f \in Files : row[f] # 0}
    /\ rstep \in {"parse", "save"} => \A f \in Files : row[f] = 0
    /\ rstep \in {"resolve", "upsert"} =>
          (\A f \in Sources : UpToDate(f)) /\ \A f \in Others : row[f] = 0
    /\ rstep = "end" => \A f \in Files : UpToDate(f)

\* Strengthening of RefreshRepairs.
RepairInv == RowInv /\ ParsedInOrder /\ QuietInv

\* The watcher has still to save the present version of f.
Coming(f) == f \in pending \/ (watch = f /\ wread # 0)

\* A source that no update or refresh has missed is current or will be ...
Kept == \A f \in Sources \ (missed \union raced) : Coming(f) \/ Current(f)

\* ... and the refresh that goes on does not put an earlier version back.
ParsedPresent ==
    rstep \in {"parse", "save"} =>
        \A f \in toParse \ (missed \union raced) :
            parsed[f] = 0 \/ Coming(f) \/ parsed[f] = disk[f]

\* Strengthening of IndexFollowsDisk.
FollowInv == RowInv /\ ParsedInOrder /\ Kept /\ ParsedPresent

-----------------------------------------------------------------------------
(* Init satisfies the type invariant. *)
LEMMA InitType == Init => TypeOK
<1>1. {0, 1} \subseteq Versions
  BY IndexAssumption DEF Versions
<1>2. \A S : Zero(S) \in [S -> Versions] /\ Zero(S) \in [S -> Nat]
  BY <1>1 DEF Zero, Versions
<1> SUFFICES ASSUME Init PROVE TypeOK
  OBVIOUS
<1>3. disk \in [Files -> Versions] /\ clock \in Versions
  BY <1>1 DEF Init
<1>4. existing \in [Files -> Versions \union {NoTime}]
  BY DEF Init
<1>5. /\ row \in [Files -> Nat] /\ mtime \in [Files -> Versions]
      /\ gens \in [Files -> Nat] /\ planned \in [Files -> Versions]
      /\ parsed \in [Sources -> Versions]
  BY <1>2 DEF Init
<1> QED
  BY <1>1, <1>3, <1>4, <1>5 DEF Init, TypeOK, RefreshSteps

(* The statements of remove_deleted_files and upsert_non_source_files keep the
   types of the symbol tables. *)
LEMMA CascadeType ==
    ASSUME TypeOK, NEW S, Cascade(S)
    PROVE  classes' \subseteq Sources \X Nat \X Versions /\ links' \subseteq Ids \X Ids
  BY DEF TypeOK, Cascade

(* resolve_inheritance links class ids. *)
LEMMA ResolveKeepsType ==
    ASSUME TypeOK, Resolve
    PROVE  links' \subseteq Ids \X Ids
<1>1. ClassIds \subseteq Ids
  BY DEF TypeOK, ClassIds, Id, Ids
<1>2. Unresolved \subseteq ClassIds
  BY DEF Unresolved
<1> QED
  BY <1>1, <1>2 DEF TypeOK, Resolve

(* A files row is inserted with a fresh generation. *)
LEMMA InsertType ==
    ASSUME TypeOK, NEW S \in SUBSET Files, NEW times \in [Files -> Versions],
           InsertRows(S, times)
    PROVE  /\ row' \in [Files -> Nat] /\ gens' \in [Files -> Nat]
           /\ mtime' \in [Files -> Versions]
  BY DEF TypeOK, InsertRows

(* save_to_db keeps the types of files and classes. *)
LEMMA SaveType ==
    ASSUME TypeOK, NEW S \in SUBSET Sources, NEW content \in [Sources -> Versions],
           NEW times \in [Files -> Versions], Save(S, content, times)
    PROVE  /\ row' \in [Files -> Nat] /\ gens' \in [Files -> Nat]
           /\ mtime' \in [Files -> Versions]
           /\ classes' \subseteq Sources \X Nat \X Versions
<1>1. S \in SUBSET Files
  BY DEF Files
<1>2. InsertRows(S, times)
  BY DEF Save
<1>3. \A f \in S : <<f, gens[f] + 1, content[f]>> \in Sources \X Nat \X Versions
  BY <1>1 DEF TypeOK
<1>4. classes' \subseteq Sources \X Nat \X Versions
  BY <1>3 DEF TypeOK, Save, ReplaceFiles
<1> QED
  BY <1>1, <1>2, <1>4, InsertType

-----------------------------------------------------------------------------
(* Every step keeps the types. *)
LEMMA NextType == TypeOK /\ [Next]_vars => TypeOK'
<1> SUFFICES ASSUME TypeOK, [Next]_vars PROVE TypeOK'
  OBVIOUS
<1> USE DEF Files
<1>z. /\ \A S : Zero(S) \in [S -> Versions]
      /\ [f \in Files |-> NoTime] \in [Files -> Versions \union {NoTime}]
      /\ 0 \in Versions
  BY IndexAssumption DEF Zero, Versions
<1>s. RefreshSteps = {"idle", "load", "modules", "plan", "delete", "parse",
                      "save", "resolve", "upsert", "end"}
  BY DEF RefreshSteps
<1>1. CASE BeginRefresh
  BY <1>1, <1>s DEF TypeOK, BeginRefresh, GotoStep, disks, files, symbols, plan, watcher
<1>2. CASE LoadExisting
  BY <1>2, <1>s DEF TypeOK, LoadExisting, GotoStep, disks, files, symbols, plan, watcher,
     history
<1>3. CASE WriteModules
  BY <1>3, <1>s DEF TypeOK, WriteModules, GotoStep, disks, files, symbols, plan, watcher,
     history
<1>4. CASE BuildPlan
  <2>1. planned' \in [Files -> Versions]
    BY <1>4, <1>z DEF TypeOK, BuildPlan, FileMtime
  <2>2. toParse' \in SUBSET Sources /\ others' \in SUBSET Files /\ deleted' \in SUBSET Files
    BY <1>4 DEF TypeOK, BuildPlan, DeletedPaths
  <2> QED
    BY <1>4, <1>s, <2>1, <2>2 DEF TypeOK, BuildPlan, GotoStep, disks, files, symbols,
       watcher, history
<1>5. CASE RemoveDeleted
  <2>1. classes' \subseteq Sources \X Nat \X Versions /\ links' \subseteq Ids \X Ids
    BY <1>5, CascadeType DEF RemoveDeleted
  <2>2. row' \in [Files -> Nat] /\ mtime' \in [Files -> Versions]
    BY <1>5, <1>z DEF TypeOK, RemoveDeleted
  <2> QED
    BY <1>5, <1>s, <2>1, <2>2 DEF TypeOK, RemoveDeleted, GotoStep, disks, plan, watcher
<1>6. ASSUME NEW f \in Sources, ParseFile(f) PROVE TypeOK'
  BY <1>6 DEF TypeOK, ParseFile, disks, files, symbols, watcher
<1>7. CASE EndParse
  BY <1>7, <1>s DEF TypeOK, EndParse, GotoStep, disks, files, symbols, plan, watcher,
     history
<1>8. CASE SaveParsed
  <2>1. /\ row' \in [Files -> Nat] /\ gens' \in [Files -> Nat]
        /\ mtime' \in [Files -> Versions]
        /\ classes' \subseteq Sources \X Nat \X Versions
    BY <1>8, SaveType DEF SaveParsed, TypeOK
  <2>2. links' = links
    BY <1>8 DEF SaveParsed, Save
  <2> QED
    BY <1>8, <1>s, <2>1, <2>2 DEF TypeOK, SaveParsed, GotoStep, disks, plan, watcher
<1>9. CASE ResolveParsed
  <2>1. links' \subseteq Ids \X Ids
    BY <1>9, ResolveKeepsType DEF ResolveParsed
  <2> QED
    BY <1>9, <1>s, <2>1 DEF TypeOK, ResolveParsed, GotoStep, disks, files, plan, watcher,
       history
<1>10. CASE UpsertOthers
  <2>1. classes' \subseteq Sources \X Nat \X Versions /\ links' \subseteq Ids \X Ids
    BY <1>10, CascadeType DEF UpsertOthers
  <2>2. /\ row' \in [Files -> Nat] /\ gens' \in [Files -> Nat]
        /\ mtime' \in [Files -> Versions]
    BY <1>10, InsertType DEF UpsertOthers, TypeOK
  <2> QED
    BY <1>10, <1>s, <2>1, <2>2 DEF TypeOK, UpsertOthers, GotoStep, disks, plan, watcher,
       history
<1>11. ASSUME RefreshOver PROVE
        /\ rstep' \in RefreshSteps /\ onDisk' \in SUBSET Files
        /\ existing' \in [Files -> Versions \union {NoTime}]
        /\ planned' \in [Files -> Versions]
        /\ toParse' \in SUBSET Sources /\ others' \in SUBSET Files
        /\ deleted' \in SUBSET Files /\ parsed' \in [Sources -> Versions]
        /\ quiet' \in BOOLEAN
  BY <1>11, <1>z, <1>s DEF RefreshOver, GotoStep
<1>12. CASE EndRefresh \/ FailRefresh
  BY <1>11, <1>12 DEF TypeOK, EndRefresh, FailRefresh, disks, files, symbols, watcher
<1>13. ASSUME NEW f \in Files, NEW v \in Versions, Change(f, v) PROVE TypeOK'
  <2>1. clock' \in Versions
    BY <1>13, IndexAssumption DEF TypeOK, Change, Versions
  <2>2. disk' \in [Files -> Versions]
    BY <1>13 DEF TypeOK, Change
  <2>3. pending' \in SUBSET Sources
    BY <1>13 DEF TypeOK, Change
  <2> QED
    BY <1>13, <2>1, <2>2, <2>3 DEF TypeOK, Change, files, symbols, refresh, plan
<1>14. ASSUME NEW f \in Sources, DropEvent(f) PROVE TypeOK'
  BY <1>14 DEF TypeOK, DropEvent, disks, files, symbols, refresh, plan
<1>15. ASSUME NEW f \in Sources, ParseWatched(f) PROVE TypeOK'
  BY <1>15 DEF TypeOK, ParseWatched, disks, files, symbols, refresh, plan, history
<1>16. CASE SaveWatched
  <2>0. watch \in Sources /\ wread \in Versions
    BY <1>16 DEF TypeOK, SaveWatched
  <2>1. /\ row' \in [Files -> Nat] /\ gens' \in [Files -> Nat]
        /\ mtime' \in [Files -> Versions]
        /\ classes' \subseteq Sources \X Nat \X Versions
    <3>1. /\ {watch} \in SUBSET Sources
          /\ [g \in Sources |-> wread] \in [Sources -> Versions]
          /\ [g \in Files |-> wread] \in [Files -> Versions]
      BY <2>0
    <3>2. Save({watch}, [g \in Sources |-> wread], [g \in Files |-> wread])
      BY <1>16 DEF SaveWatched, SaveOne
    <3> QED
      BY <3>1, <3>2, SaveType
  <2>2. links' = links
    BY <1>16 DEF SaveWatched, SaveOne, Save
  <2>3. /\ wread' \in Versions /\ missed' \in SUBSET Files /\ raced' \in SUBSET Sources
    BY <1>16, <1>z, <2>0 DEF TypeOK, SaveWatched
  <2> QED
    BY <1>16, <2>1, <2>2, <2>3 DEF TypeOK, SaveWatched, disks, refresh, plan
<1>17. CASE ResolveWatched
  <2>1. links' \subseteq Ids \X Ids
    BY <1>17, ResolveKeepsType DEF ResolveWatched
  <2> QED
    BY <1>17, <2>1 DEF TypeOK, ResolveWatched, disks, files, refresh, plan, history
<1>18. CASE FailWatch
  BY <1>18, <1>z DEF TypeOK, FailWatch, disks, files, symbols, refresh, plan
<1>19. CASE UNCHANGED vars
  BY <1>19 DEF TypeOK, vars, disks, files, symbols, refresh, plan, watcher, history
<1> QED
  BY <1>1, <1>2, <1>3, <1>4, <1>5, <1>6, <1>7, <1>8, <1>9, <1>10, <1>12, <1>13, <1>14,
     <1>15, <1>16, <1>17, <1>18, <1>19 DEF Next, RefreshStep, WatchStep

(* The types of the index, its writers and their histories. *)
THEOREM IndexTypeCorrect == Spec => []TypeOK
  BY InitType, NextType, PTL DEF Spec

-----------------------------------------------------------------------------
(* Deleting with foreign keys on leaves the classes of the other rows. *)
LEMMA CascadeKeeps ==
    ASSUME RowsHaveSymbols, NEW S, Cascade(S),
           NEW f \in Sources \ S, row[f] # 0
    PROVE  \E c \in classes' : c[1] = f /\ c[2] = row[f]
<1>1. PICK c \in classes : c[1] = f /\ c[2] = row[f]
  BY DEF RowsHaveSymbols
<1>2. c \in classes'
  BY <1>1 DEF Cascade
<1> QED
  BY <1>1, <1>2

(* save_to_db leaves every source row with classes of its own. *)
LEMMA SaveKeeps ==
    ASSUME RowsHaveSymbols, TypeOK, NEW S \in SUBSET Sources, NEW content, NEW times,
           Save(S, content, times)
    PROVE  RowsHaveSymbols'
<1> SUFFICES ASSUME NEW f \in Sources, row'[f] # 0
             PROVE  \E c \in classes' : c[1] = f /\ c[2] = row'[f]
  BY DEF RowsHaveSymbols
<1> f \in Files
  BY DEF Files
<1>1. CASE f \in S
  <2> DEFINE c == <<f, gens[f] + 1, content[f]>>
  <2>1. c \in classes'
    BY <1>1 DEF Save, ReplaceFiles
  <2>2. row'[f] = gens[f] + 1
    BY <1>1 DEF Save, InsertRows
  <2> QED
    BY <2>1, <2>2
<1>2. CASE f \notin S
  <2>1. row'[f] = row[f] /\ classes \subseteq classes'
    BY <1>2 DEF Save, InsertRows, ReplaceFiles
  <2> QED
    BY <2>1 DEF RowsHaveSymbols
<1> QED
  BY <1>1, <1>2

(* With paths that do not round-trip the plan replaces no row of a source. *)
LEMMA PlanReplacesNoSource ==
    ASSUME TypeOK, ~RoundTrips, BuildPlan
    PROVE  ReplacesNoSource'
<1>1. \A f \in Sources : KnownMtime(f) # FileMtime(f)
  BY IndexAssumption DEF TypeOK, KnownMtime, FileMtime, Files, Versions
<1>2. toParse' = onDisk \cap Sources
  BY <1>1 DEF BuildPlan
<1> QED
  BY <1>2 DEF BuildPlan, ReplacesNoSource

(* Every step keeps the classes of the source rows. *)
LEMMA NextRows ==
    ASSUME ~RoundTrips, RowInv, [Next]_vars
    PROVE  RowInv'
<1> USE DEF RowInv
<1>t. TypeOK'
  BY NextType
<1>a. ASSUME UNCHANGED <<row, classes>>, ReplacesNoSource' PROVE RowInv'
  BY <1>a, <1>t DEF RowsHaveSymbols
<1>1. CASE BuildPlan
  BY <1>1, <1>a, PlanReplacesNoSource DEF BuildPlan, files, symbols
<1>2. CASE RemoveDeleted
  <2>1. ReplacesNoSource'
    BY <1>2 DEF RemoveDeleted, plan, ReplacesNoSource
  <2>2. ASSUME NEW f \in Sources, row'[f] # 0
        PROVE  \E c \in classes' : c[1] = f /\ c[2] = row'[f]
    <3>1. f \notin deleted /\ row'[f] = row[f]
      BY <1>2, <2>2 DEF RemoveDeleted, Files
    <3>2. Cascade(deleted)
      BY <1>2 DEF RemoveDeleted
    <3> QED
      BY <2>2, <3>1, <3>2, CascadeKeeps
  <2> QED
    BY <1>t, <2>1, <2>2 DEF RowsHaveSymbols
<1>3. CASE SaveParsed
  <2>1. RowsHaveSymbols'
    BY <1>3, SaveKeeps DEF SaveParsed, TypeOK
  <2> QED
    BY <1>3, <1>t, <2>1 DEF SaveParsed, plan, ReplacesNoSource
<1>4. CASE UpsertOthers
  <2>1. ReplacesNoSource'
    BY <1>4 DEF UpsertOthers, plan, ReplacesNoSource
  <2>2. ASSUME NEW f \in Sources, row'[f] # 0
        PROVE  \E c \in classes' : c[1] = f /\ c[2] = row'[f]
    <3>1. f \notin others
      BY DEF ReplacesNoSource
    <3>2. Cascade(others) /\ row'[f] = row[f]
      BY <1>4, <3>1 DEF UpsertOthers, InsertRows, Files
    <3> QED
      BY <2>2, <3>1, <3>2, CascadeKeeps
  <2> QED
    BY <1>t, <2>1, <2>2 DEF RowsHaveSymbols
<1>5. CASE SaveWatched
  <2>1. watch \in Sources
    BY <1>5 DEF SaveWatched, TypeOK
  <2>2. RowsHaveSymbols'
    BY <1>5, <2>1, SaveKeeps DEF SaveWatched, SaveOne
  <2> QED
    BY <1>5, <1>t, <2>2 DEF SaveWatched, refresh, plan, ReplacesNoSource
<1>6. CASE EndRefresh \/ FailRefresh
  BY <1>6, <1>a DEF EndRefresh, FailRefresh, RefreshOver, files, symbols, ReplacesNoSource
<1>7. CASE BeginRefresh \/ LoadExisting \/ WriteModules \/ EndParse \/ ResolveParsed
  BY <1>7, <1>a DEF BeginRefresh, LoadExisting, WriteModules, EndParse, ResolveParsed,
     files, symbols, plan, ReplacesNoSource
<1>8. ASSUME NEW f \in Sources, ParseFile(f) PROVE RowInv'
  BY <1>8, <1>a DEF ParseFile, files, symbols, ReplacesNoSource
<1>9. ASSUME NEW f \in Files, NEW v \in Versions, Change(f, v) PROVE RowInv'
  BY <1>9, <1>a DEF Change, files, symbols, refresh, plan, ReplacesNoSource
<1>10. ASSUME NEW f \in Sources, DropEvent(f) \/ ParseWatched(f) PROVE RowInv'
  BY <1>10, <1>a DEF DropEvent, ParseWatched, files, symbols, refresh, plan,
     ReplacesNoSource
<1>11. CASE ResolveWatched \/ FailWatch \/ UNCHANGED vars
  BY <1>11, <1>a DEF ResolveWatched, FailWatch, vars, files, symbols, refresh, plan,
     ReplacesNoSource
<1> QED
  BY <1>1, <1>2, <1>3, <1>4, <1>5, <1>6, <1>7, <1>8, <1>9, <1>10, <1>11
  DEF Next, RefreshStep, WatchStep

(* When reconstructed paths are never found (every absolute project root), no
   refresh or update, finished or cut short, leaves a source row without the
   classes parsed for it. *)
THEOREM RowsKeepSymbols ==
    ASSUME ~RoundTrips
    PROVE  Spec => []RowsHaveSymbols
<1>1. Init => RowInv
  BY InitType DEF Init, RowInv, ReplacesNoSource, RowsHaveSymbols, Zero, Files
<1>2. RowInv /\ [Next]_vars => RowInv'
  BY NextRows
<1>3. RowInv => RowsHaveSymbols
  BY DEF RowInv
<1> QED
  BY <1>1, <1>2, <1>3, PTL DEF Spec

-----------------------------------------------------------------------------
(* A deletion with foreign keys on leaves no link to a class it removes. *)
LEMMA CascadeLinks ==
    ASSUME LinksNameAParent, NEW S, Cascade(S)
    PROVE  LinksNameAParent'
<1> SUFFICES ASSUME NEW l \in links'
             PROVE  /\ l[1] \in ClassIds' /\ l[2] \in ClassIds'
                    /\ l[2][1] = ParentOf[l[1][1]]
  BY DEF LinksNameAParent
<1> DEFINE gone == {c \in classes : c[1] \in S /\ c[2] = row[c[1]]}
<1>1. /\ l \in links
      /\ l[1] \notin {Id(c) : c \in gone} /\ l[2] \notin {Id(c) : c \in gone}
      /\ classes' = classes \ gone
  BY DEF Cascade
<1>2. \A i \in ClassIds : i \notin {Id(c) : c \in gone} => i \in ClassIds'
  BY <1>1 DEF ClassIds
<1> QED
  BY <1>1, <1>2 DEF LinksNameAParent

(* resolve_inheritance links to classes of the right name. *)
LEMMA ResolveLinks ==
    ASSUME LinksNameAParent, Resolve, UNCHANGED classes
    PROVE  LinksNameAParent'
<1>1. ClassIds' = ClassIds
  BY DEF ClassIds, Id
<1>2. Unresolved \subseteq ClassIds
  BY DEF Unresolved
<1> QED
  BY <1>1, <1>2 DEF LinksNameAParent, Resolve

(* save_to_db only adds classes. *)
LEMMA MoreClasses ==
    ASSUME LinksNameAParent, classes \subseteq classes', UNCHANGED links
    PROVE  LinksNameAParent'
<1>1. ClassIds \subseteq ClassIds'
  BY DEF ClassIds, Id
<1> QED
  BY <1>1 DEF LinksNameAParent

(* A parent_class_id always refers to a class that exists and is named as the
   parent, for both kinds of path. *)
THEOREM LinksAreNamed == Spec => []LinksNameAParent
<1>1. Init => LinksNameAParent
  BY DEF Init, LinksNameAParent
<1>2. LinksNameAParent /\ [Next]_vars => LinksNameAParent'
  <2> SUFFICES ASSUME LinksNameAParent, [Next]_vars PROVE LinksNameAParent'
    OBVIOUS
  <2>1. CASE RemoveDeleted \/ UpsertOthers
    BY <2>1, CascadeLinks DEF RemoveDeleted, UpsertOthers
  <2>2. CASE ResolveParsed \/ ResolveWatched
    BY <2>2, ResolveLinks DEF ResolveParsed, ResolveWatched
  <2>3. CASE SaveParsed \/ SaveWatched
    BY <2>3, MoreClasses DEF SaveParsed, SaveWatched, SaveOne, Save, ReplaceFiles
  <2>4. CASE UNCHANGED symbols
    BY <2>4, MoreClasses DEF symbols
  <2>5. CASE RefreshStep
    BY <2>1, <2>2, <2>3, <2>4, <2>5 DEF RefreshStep, LoadExisting, WriteModules, BuildPlan,
       ParseFile, EndParse, EndRefresh
  <2> QED
    BY <2>2, <2>3, <2>4, <2>5 DEF Next, WatchStep, BeginRefresh, FailRefresh, Change,
       DropEvent, ParseWatched, FailWatch, vars, symbols
<1> QED
  BY <1>1, <1>2, PTL DEF Spec

-----------------------------------------------------------------------------
(* A refresh parses what it plans to, once, before it saves it. *)
LEMMA NextParsedInOrder == TypeOK /\ ParsedInOrder /\ [Next]_vars => ParsedInOrder'
<1> SUFFICES ASSUME TypeOK, ParsedInOrder, [Next]_vars PROVE ParsedInOrder'
  OBVIOUS
<1> USE DEF ParsedInOrder, GotoStep
<1>1. CASE BeginRefresh \/ LoadExisting \/ WriteModules \/ BuildPlan
  BY <1>1 DEF BeginRefresh, LoadExisting, WriteModules, BuildPlan
<1>2. CASE RemoveDeleted \/ SaveParsed \/ ResolveParsed \/ UpsertOthers
  BY <1>2 DEF RemoveDeleted, SaveParsed, ResolveParsed, UpsertOthers
<1>3. ASSUME NEW f \in Sources, ParseFile(f) PROVE ParsedInOrder'
  BY <1>3 DEF ParseFile
<1>4. CASE EndParse
  BY <1>4 DEF EndParse, plan
<1>5. CASE EndRefresh \/ FailRefresh
  BY <1>5 DEF EndRefresh, FailRefresh, RefreshOver, Zero
<1>6. CASE UNCHANGED refresh
  BY <1>6 DEF refresh, plan
<1> QED
  BY <1>1, <1>2, <1>3, <1>4, <1>5, <1>6 DEF Next, RefreshStep, WatchStep, Change, DropEvent,
     ParseWatched, SaveWatched, ResolveWatched, FailWatch, vars

(* While paths do not round-trip an undisturbed plan covers the whole disk. *)
LEMMA QuietPlan ==
    ASSUME ~RoundTrips, TypeOK, onDisk = {f \in Files : disk[f] # 0}, BuildPlan
    PROVE  /\ planned' = disk
           /\ toParse' = onDisk \cap Sources /\ others' = onDisk \ Sources
           /\ deleted' = {f \in Files : existing[f] # NoTime}
<1>1. \A f \in Sources : KnownMtime(f) # FileMtime(f)
  BY IndexAssumption DEF TypeOK, KnownMtime, FileMtime, Files, Versions
<1>2. toParse' = onDisk \cap Sources
  BY <1>1 DEF BuildPlan
<1>3. planned' = disk
  BY DEF TypeOK, BuildPlan, FileMtime
<1> QED
  BY <1>2, <1>3 DEF BuildPlan, DeletedPaths

(* An undisturbed refresh that saves what it has parsed brings every source into
   line with the disk. *)
LEMMA QuietSave ==
    ASSUME RepairInv, quiet, SaveParsed
    PROVE  (\A f \in Sources : UpToDate(f)') /\ \A f \in Others : row'[f] = 0
<1> USE DEF RepairInv, RowInv
<1>1. /\ toParse = {f \in Sources : disk[f] # 0} /\ planned = disk
      /\ \A f \in Files : row[f] = 0
      /\ \A f \in toParse : parsed[f] = disk[f]
      /\ UNCHANGED disk /\ toParse \subseteq Files
  BY DEF QuietInv, PlanOfDisk, SaveParsed, ParsedInOrder, disks, Files
<1>2. /\ \A f \in Files : row'[f] = IF f \in toParse THEN gens[f] + 1 ELSE 0
      /\ \A f \in toParse : mtime'[f] = disk[f] /\ <<f, gens[f] + 1, disk[f]>> \in classes'
  BY <1>1 DEF SaveParsed, Save, InsertRows, ReplaceFiles
<1>3. \A f \in Others : row'[f] = 0
  BY <1>1, <1>2, IndexAssumption DEF Files
<1>4. \A f \in Sources : UpToDate(f)'
  BY <1>1, <1>2 DEF UpToDate, Files, TypeOK
<1> QED
  BY <1>3, <1>4

(* The upsert then adds the other files and leaves the sources alone. *)
LEMMA QuietUpsert ==
    ASSUME RepairInv, quiet, UpsertOthers
    PROVE  \A f \in Files : UpToDate(f)'
<1> USE DEF RepairInv, RowInv
<1>1. /\ others = {f \in Others : disk[f] # 0} /\ planned = disk
      /\ UNCHANGED disk /\ others \subseteq Files
      /\ \A f \in Sources : UpToDate(f)
      /\ \A f \in Others : row[f] = 0
  BY IndexAssumption DEF QuietInv, PlanOfDisk, UpsertOthers, disks, Files
<1>2. /\ \A f \in Files \ others : row'[f] = row[f] /\ mtime'[f] = mtime[f]
      /\ \A f \in others : row'[f] = gens[f] + 1 /\ mtime'[f] = disk[f]
  BY <1>1 DEF UpsertOthers, InsertRows
<1>3. ASSUME NEW f \in Sources PROVE UpToDate(f)'
  <2>1. f \in Files \ others
    BY <1>1, IndexAssumption DEF Files
  <2>2. row[f] # 0 => <<f, row[f], disk[f]>> \in classes'
    BY <1>1, <2>1 DEF UpsertOthers, Cascade, UpToDate
  <2> QED
    BY <1>1, <1>2, <2>1, <2>2 DEF UpToDate
<1>4. ASSUME NEW f \in Others PROVE UpToDate(f)'
  <2>1. f \notin Sources /\ f \in Files
    BY IndexAssumption DEF Files
  <2> QED
    BY <1>1, <1>2, <2>1 DEF UpToDate, TypeOK
<1> QED
  BY <1>3, <1>4 DEF Files

(* Nothing but the refresh's own steps goes on while it is undisturbed. *)
LEMMA QuietAlone ==
    ASSUME QuietInv, [Next]_vars, quiet'
    PROVE  \/ BeginRefresh
           \/ quiet /\ RefreshStep /\ ~EndRefresh
           \/ quiet /\ UNCHANGED vars
<1>1. CASE quiet
  <2>1. pending = {} /\ watch = NoFile
    BY <1>1 DEF QuietInv
  <2> QED
    BY <1>1, <2>1 DEF Next, WatchStep, EndRefresh, FailRefresh, RefreshOver, Change,
       DropEvent, ParseWatched, SaveWatched, ResolveWatched, FailWatch
<1>2. CASE ~quiet
  <2>1. BeginRefresh \/ UNCHANGED quiet \/ quiet' = FALSE
    BY DEF Next, RefreshStep, WatchStep, LoadExisting, WriteModules, BuildPlan, RemoveDeleted,
       ParseFile, EndParse, SaveParsed, ResolveParsed, UpsertOthers, EndRefresh, FailRefresh,
       RefreshOver, Change, DropEvent, ParseWatched, SaveWatched, ResolveWatched, FailWatch,
       history, vars
  <2> QED
    BY <1>2, <2>1
<1> QED
  BY <1>1, <1>2

(* An undisturbed refresh goes on as QuietInv has it. *)
LEMMA NextQuiet ==
    ASSUME ~RoundTrips, RepairInv, [Next]_vars
    PROVE  QuietInv'
<1> SUFFICES ASSUME quiet' PROVE QuietInv'
  BY DEF QuietInv
<1> USE DEF RepairInv, GotoStep
<1>1. CASE BeginRefresh
  BY <1>1 DEF BeginRefresh, QuietInv, ParsedInOrder, disks, plan, watcher
<1>2. CASE quiet /\ LoadExisting
  <2>1. \A f \in Files : existing'[f] # NoTime <=> row'[f] # 0
    BY <1>2, IndexAssumption DEF LoadExisting, files, RowInv, TypeOK, Versions
  <2> QED
    BY <1>2, <2>1 DEF LoadExisting, QuietInv, disks, files, plan, watcher, history
<1>3. CASE quiet /\ WriteModules
  BY <1>3 DEF WriteModules, QuietInv, disks, files, plan, watcher, history
<1>4. CASE quiet /\ BuildPlan
  <2>1. onDisk = {f \in Files : disk[f] # 0} /\ \A f \in Files : existing[f] # NoTime <=> row[f] # 0
    BY <1>4 DEF BuildPlan, QuietInv
  <2>2. PlanOfDisk' /\ deleted' = {f \in Files : row[f] # 0}
    <3>1. UNCHANGED <<disk, onDisk>>
      BY <1>4 DEF BuildPlan, disks
    <3> QED
      BY <1>4, <2>1, <3>1, QuietPlan DEF PlanOfDisk, RowInv
  <2> QED
    BY <1>4, <2>1, <2>2 DEF BuildPlan, QuietInv, disks, files, watcher, history
<1>5. CASE quiet /\ RemoveDeleted
  <2>1. \A f \in Files : row'[f] = 0
    BY <1>5 DEF RemoveDeleted, QuietInv
  <2>2. PlanOfDisk' /\ UNCHANGED <<disk, onDisk, parsed, pending, watch, toParse>>
    BY <1>5 DEF RemoveDeleted, QuietInv, PlanOfDisk, disks, plan, watcher
  <2>3. onDisk = {f \in Files : disk[f] # 0} /\ toParse = onDisk \cap Sources
    BY <1>5 DEF RemoveDeleted, QuietInv, PlanOfDisk
  <2>4. toParse = {} => \A f \in Sources : UpToDate(f)'
    BY <2>1, <2>2, <2>3 DEF UpToDate, Files
  <2>5. rstep' \in {"parse", "upsert"} /\ (rstep' = "upsert" => toParse = {})
    BY <1>5 DEF RemoveDeleted
  <2> QED
    BY <1>5, <2>1, <2>2, <2>3, <2>4, <2>5 DEF QuietInv, Files
<1>6. ASSUME quiet, NEW f \in Sources, ParseFile(f) PROVE QuietInv'
  <2>1. UNCHANGED <<toParse, disk, row, rstep, onDisk, planned, others, pending, watch>>
    BY <1>6 DEF ParseFile, disks, files, watcher
  <2>2. parsed' = [parsed EXCEPT ![f] = disk[f]] /\ rstep = "parse"
    BY <1>6 DEF ParseFile
  <2>3. \A g \in Sources : parsed'[g] \in {0, disk[g]}
    BY <1>6, <2>2 DEF QuietInv, RowInv, TypeOK
  <2> QED
    BY <1>6, <2>1, <2>2, <2>3 DEF QuietInv, PlanOfDisk
<1>7. CASE quiet /\ EndParse
  BY <1>7 DEF EndParse, QuietInv, PlanOfDisk, disks, files, plan, watcher
<1>8. CASE quiet /\ SaveParsed
  <2>1. (\A f \in Sources : UpToDate(f)') /\ \A f \in Others : row'[f] = 0
    BY <1>8, QuietSave
  <2> QED
    BY <1>8, <2>1 DEF SaveParsed, QuietInv, PlanOfDisk, disks, plan, watcher
<1>9. CASE quiet /\ ResolveParsed
  BY <1>9 DEF ResolveParsed, QuietInv, PlanOfDisk, UpToDate, disks, files, plan, watcher
<1>10. CASE quiet /\ UpsertOthers
  <2>1. \A f \in Files : UpToDate(f)'
    BY <1>10, QuietUpsert
  <2> QED
    BY <1>10, <2>1 DEF UpsertOthers, QuietInv, PlanOfDisk, disks, plan, watcher
<1>11. CASE quiet /\ UNCHANGED vars
  BY <1>11 DEF QuietInv, PlanOfDisk, UpToDate, vars, disks, files, symbols, refresh, plan, watcher,
     history
<1> QED
  BY <1>1, <1>2, <1>3, <1>4, <1>5, <1>6, <1>7, <1>8, <1>9, <1>10, <1>11, QuietAlone
     DEF RefreshStep

(* For absolute project roots a refresh that nothing disturbs leaves an index of
   exactly the files on disk, whatever earlier refreshes and updates that failed
   half-way have left (run_refresh). *)
THEOREM RefreshesRepair ==
    ASSUME ~RoundTrips
    PROVE  Spec => []RefreshRepairs
<1>1. Init => RepairInv
  BY InitType DEF Init, RepairInv, RowInv, ReplacesNoSource, RowsHaveSymbols, ParsedInOrder,
     QuietInv, Zero, Files
<1>2. RepairInv /\ [Next]_vars => RepairInv'
  BY NextRows, NextParsedInOrder, NextQuiet DEF RepairInv, RowInv
<1>3. RepairInv => RefreshRepairs
  BY DEF RepairInv, QuietInv, RefreshRepairs
<1> QED
  BY <1>1, <1>2, <1>3, PTL DEF Spec

-----------------------------------------------------------------------------
(* Deleting other rows leaves a source current. *)
LEMMA CascadeCurrent ==
    ASSUME NEW S, Cascade(S), NEW f \in Sources \ S, Current(f), UNCHANGED <<row[f], disk[f]>>
    PROVE  Current(f)'
  BY DEF Cascade, Current

(* save_to_db leaves a source current that it does not save. *)
LEMMA SaveCurrent ==
    ASSUME TypeOK, NEW S \in SUBSET Sources, NEW content, NEW times, Save(S, content, times),
           NEW f \in Sources \ S, Current(f), UNCHANGED disk
    PROVE  Current(f)'
<1>1. row'[f] = row[f] /\ classes \subseteq classes'
  BY DEF Save, InsertRows, ReplaceFiles, Files
<1> QED
  BY <1>1 DEF Current

(* A source saved with its present version is current. *)
LEMMA SavedIsCurrent ==
    ASSUME TypeOK, NEW S \in SUBSET Sources, NEW content, NEW times, Save(S, content, times),
           NEW f \in S, content[f] = disk[f], UNCHANGED disk
    PROVE  Current(f)'
<1>1. row'[f] = gens[f] + 1 /\ gens[f] \in Nat
  BY DEF Save, InsertRows, Files, TypeOK
<1>2. <<f, gens[f] + 1, disk[f]>> \in classes'
  BY DEF Save, ReplaceFiles
<1> QED
  BY <1>1, <1>2 DEF Current

(* Every step leaves a source that is not missed current or about to be. *)
LEMMA NextKept == FollowInv /\ [Next]_vars => Kept'
<1> SUFFICES ASSUME FollowInv, [Next]_vars, NEW f \in Sources, f \notin missed' \union raced'
             PROVE  Coming(f)' \/ Current(f)'
  BY DEF Kept
<1> USE DEF FollowInv, RowInv
<1>f. f \in Files /\ f # NoFile
  BY IndexAssumption DEF Files
<1>1. CASE RemoveDeleted
  <2>1. f \notin deleted /\ f \notin missed \union raced /\ UNCHANGED <<disk, pending, watch, wread>>
    BY <1>1 DEF RemoveDeleted, disks, watcher
  <2>2. row'[f] = row[f] /\ Cascade(deleted)
    BY <1>1, <1>f, <2>1 DEF RemoveDeleted
  <2> QED
    BY <2>1, <2>2, CascadeCurrent DEF Kept, Coming
<1>2. CASE SaveParsed
  <2>1. UNCHANGED <<disk, pending, watch, wread>> /\ Save(toParse, parsed, planned)
    BY <1>2 DEF SaveParsed, disks, watcher
  <2>2. CASE f \in toParse /\ parsed[f] = disk[f]
    BY <2>1, <2>2, SavedIsCurrent DEF TypeOK
  <2>3. CASE f \in toParse /\ parsed[f] # disk[f]
    <3>1. f \notin missed \union raced
      BY <1>2, <2>3 DEF SaveParsed
    <3>2. Coming(f)
      BY <1>2, <2>3, <3>1 DEF SaveParsed, ParsedPresent, ParsedInOrder
    <3> QED
      BY <2>1, <3>2 DEF Coming
  <2>4. CASE f \notin toParse
    <3>1. f \notin missed \union raced
      BY <1>2, <2>4 DEF SaveParsed
    <3> QED
      BY <2>1, <2>4, <3>1, SaveCurrent DEF Kept, Coming, TypeOK
  <2> QED
    BY <2>2, <2>3, <2>4
<1>3. CASE UpsertOthers
  <2>1. f \notin others /\ f \notin missed \union raced /\ UNCHANGED <<disk, pending, watch, wread>>
    BY <1>3 DEF UpsertOthers, ReplacesNoSource, disks, watcher, history
  <2>2. row'[f] = row[f] /\ Cascade(others)
    BY <1>3, <1>f, <2>1 DEF UpsertOthers, InsertRows
  <2> QED
    BY <2>1, <2>2, CascadeCurrent DEF Kept, Coming
<1>4. CASE SaveWatched
  <2>1. watch \in Sources /\ UNCHANGED <<disk, pending, watch>>
        /\ Save({watch}, [g \in Sources |-> wread], [g \in Files |-> wread])
    BY <1>4 DEF SaveWatched, SaveOne, TypeOK, disks
  <2>2. CASE f = watch
    <3>1. wread = disk[f]
      BY <1>4, <2>2 DEF SaveWatched
    <3> QED
      BY <2>1, <2>2, <3>1, SavedIsCurrent
  <2>3. CASE f # watch
    <3>1. f \notin missed \union raced
      BY <1>4, <2>3 DEF SaveWatched
    <3>2. Coming(f) \/ Current(f)
      BY <3>1 DEF Kept
    <3>3. Coming(f) => Coming(f)'
      BY <2>1, <2>3 DEF Coming
    <3> QED
      BY <2>1, <2>3, <3>2, <3>3, SaveCurrent
  <2> QED
    BY <2>2, <2>3
<1>5. ASSUME NEW g \in Files, NEW v \in Versions, Change(g, v) PROVE Coming(f)' \/ Current(f)'
  <2>1. CASE f = g
    BY <1>5, <2>1 DEF Change, Coming
  <2>2. CASE f # g
    <3>1. f \notin missed \union raced /\ disk'[f] = disk[f]
      BY <1>5, <2>2 DEF Change, TypeOK
    <3> QED
      BY <1>5, <3>1 DEF Change, Kept, Coming, Current, files, symbols
  <2> QED
    BY <2>1, <2>2
<1>6. ASSUME NEW g \in Sources, DropEvent(g) PROVE Coming(f)' \/ Current(f)'
  BY <1>6 DEF DropEvent, Kept, Coming, Current, disks, files, symbols
<1>7. ASSUME NEW g \in Sources, ParseWatched(g) PROVE Coming(f)' \/ Current(f)'
  BY <1>7, <1>f DEF ParseWatched, Kept, Coming, Current, disks, files, symbols, history
<1>8. CASE FailWatch
  BY <1>8 DEF FailWatch, Kept, Coming, Current, disks, files, symbols
<1>9. CASE ResolveWatched
  BY <1>9, <1>f DEF ResolveWatched, Kept, Coming, Current, disks, files, history
<1>10. CASE UNCHANGED <<disk, row, classes, watcher, missed, raced>>
  BY <1>10 DEF Kept, Coming, Current, watcher
<1> QED
  BY <1>1, <1>2, <1>3, <1>4, <1>5, <1>6, <1>7, <1>8, <1>9, <1>10 DEF Next, RefreshStep, WatchStep,
     BeginRefresh, LoadExisting, WriteModules, BuildPlan, ParseFile, EndParse, ResolveParsed,
     EndRefresh, FailRefresh, disks, files, symbols, history, vars

(* What a refresh has parsed is present, or the watcher comes after it, or an
   update fell into the refresh. *)
LEMMA NextParsedPresent == FollowInv /\ [Next]_vars => ParsedPresent'
<1> SUFFICES ASSUME FollowInv, [Next]_vars, rstep' \in {"parse", "save"},
                    NEW f \in toParse', f \notin missed' \union raced', parsed'[f] # 0
             PROVE  Coming(f)' \/ parsed'[f] = disk'[f]
  BY DEF ParsedPresent
<1> USE DEF FollowInv, RowInv, GotoStep
<1>1. CASE RemoveDeleted
  BY <1>1 DEF RemoveDeleted, ParsedInOrder, TypeOK, plan
<1>2. ASSUME NEW g \in Sources, ParseFile(g) PROVE Coming(f)' \/ parsed'[f] = disk'[f]
  BY <1>2 DEF ParseFile, ParsedPresent, Coming, TypeOK, disks, watcher
<1>3. CASE EndParse
  BY <1>3 DEF EndParse, ParsedPresent, Coming, plan, disks, watcher, history
<1>4. ASSUME UNCHANGED refresh
      PROVE  /\ rstep \in {"parse", "save"} /\ f \in toParse /\ parsed'[f] = parsed[f]
             /\ f \in Sources
             /\ f \notin missed \union raced => Coming(f) \/ parsed[f] = disk[f]
  BY <1>4 DEF refresh, plan, ParsedPresent, TypeOK
<1>5. ASSUME NEW g \in Files, NEW v \in Versions, Change(g, v)
      PROVE  Coming(f)' \/ parsed'[f] = disk'[f]
  <2>1. CASE f = g
    BY <1>4, <1>5, <2>1 DEF Change, Coming
  <2>2. CASE f # g
    <3>1. f \notin missed \union raced /\ disk'[f] = disk[f]
      BY <1>4, <1>5, <2>2 DEF Change, TypeOK, Files
    <3> QED
      BY <1>4, <1>5, <3>1 DEF Change, Coming
  <2> QED
    BY <2>1, <2>2
<1>6. ASSUME NEW g \in Sources, DropEvent(g) PROVE Coming(f)' \/ parsed'[f] = disk'[f]
  BY <1>4, <1>6 DEF DropEvent, Coming, disks
<1>7. ASSUME NEW g \in Sources, ParseWatched(g) PROVE Coming(f)' \/ parsed'[f] = disk'[f]
  BY <1>4, <1>7, IndexAssumption DEF ParseWatched, Coming, disks, history
<1>8. CASE SaveWatched
  <2>1. f # watch
    BY <1>4, <1>8 DEF SaveWatched
  <2> QED
    BY <1>4, <1>8, <2>1 DEF SaveWatched, Coming, disks
<1>9. CASE ResolveWatched \/ FailWatch
  BY <1>4, <1>9, IndexAssumption DEF ResolveWatched, FailWatch, Coming, disks, history
<1>10. CASE UNCHANGED vars
  BY <1>4, <1>10 DEF vars, Coming, disks, watcher, history
<1> QED
  BY <1>1, <1>2, <1>3, <1>5, <1>6, <1>7, <1>8, <1>9, <1>10 DEF Next, RefreshStep, WatchStep,
     BeginRefresh, LoadExisting, WriteModules, BuildPlan, SaveParsed, ResolveParsed,
     UpsertOthers, EndRefresh, FailRefresh, RefreshOver

(* For absolute project roots the index has the present version of every source
   once refreshes and updates are done, unless the source's last update was lost
   or fell into a refresh (run_refresh, handle_source_change). *)
THEOREM IndexIsCurrent ==
    ASSUME ~RoundTrips
    PROVE  Spec => []IndexFollowsDisk
<1>1. Init => FollowInv
  BY InitType DEF Init, FollowInv, RowInv, ReplacesNoSource, RowsHaveSymbols, ParsedInOrder,
     Kept, ParsedPresent, Zero, Files
<1>2. FollowInv /\ [Next]_vars => FollowInv'
  BY NextRows, NextParsedInOrder, NextKept, NextParsedPresent DEF FollowInv, RowInv
<1>3. FollowInv => IndexFollowsDisk
  BY IndexAssumption DEF FollowInv, RowInv, Kept, Coming, Settled, IndexFollowsDisk
<1> QED
  BY <1>1, <1>2, <1>3, PTL DEF Spec

-----------------------------------------------------------------------------
\* Loops end: each turn of Loop brings a state nearer to where it is done.

\* A loop whose steps stay in D.
IsLoop(D, done, step) == DOMAIN step = D /\ \A s \in D : s \notin done => step[s] \in D

\* What a loop ends with is a function of where it starts.
LEMMA EndsExist ==
    ASSUME NEW D, NEW done, NEW step, IsLoop(D, done, step)
    PROVE  \E run : run = [s \in D |-> IF s \in done THEN s ELSE run[step[s]]]
<1> DEFINE StaysIn(C) == \A y \in C : y \notin done => step[y] \in C
           Reach(s) == {x \in D : \A C \in SUBSET D : s \in C /\ StaysIn(C) => x \in C}
           End(s) == CHOOSE e : e \in Reach(s) /\ e \in done
           r == [s \in D |-> End(s)]
<1>1. ASSUME NEW s \in D PROVE s \in Reach(s) /\ StaysIn(Reach(s)) /\ Reach(s) \in SUBSET D
  <2>1. ASSUME NEW y \in Reach(s), y \notin done PROVE step[y] \in Reach(s)
    <3>1. step[y] \in D
      BY <2>1 DEF IsLoop
    <3> QED BY <2>1, <3>1
  <2> QED BY <2>1
<1>2. ASSUME NEW s \in D, NEW C \in SUBSET D, s \in C, StaysIn(C) PROVE Reach(s) \subseteq C
  BY <1>2
<1> HIDE DEF Reach
<1>3. ASSUME NEW s \in D, s \in done PROVE End(s) = s
  <2>1. Reach(s) \subseteq {s}
    <3>1. StaysIn({s}) /\ {s} \in SUBSET D
      BY <1>3
    <3> HIDE DEF StaysIn
    <3> QED BY <1>2, <3>1
  <2> QED BY <1>1, <1>3, <2>1
<1>4. ASSUME NEW s \in D, s \notin done PROVE step[s] \in D /\ End(s) = End(step[s])
  <2>1. step[s] \in D
    BY <1>4 DEF IsLoop
  <2> DEFINE C == {s} \union Reach(step[s])
  <2>2. StaysIn(C) /\ C \in SUBSET D
    BY <1>1, <2>1
  <2>3. Reach(s) \subseteq C
    <3> HIDE DEF StaysIn, C
    <3>1. s \in C
      BY DEF C
    <3> QED BY <1>2, <2>2, <3>1
  <2>4. Reach(step[s]) \subseteq Reach(s)
    <3>1. step[s] \in Reach(s) /\ StaysIn(Reach(s)) /\ Reach(s) \in SUBSET D
      BY <1>1, <1>4
    <3> HIDE DEF StaysIn
    <3> QED BY <1>2, <2>1, <3>1
  <2>5. \A e : e \in Reach(s) /\ e \in done <=> e \in Reach(step[s]) /\ e \in done
    BY <1>4, <2>3, <2>4
  <2> QED BY <2>1, <2>5
<1> HIDE DEF End
<1>5. r = [s \in D |-> IF s \in done THEN s ELSE r[step[s]]]
  BY <1>3, <1>4
<1> QED BY <1>5

\* A loop that is not done goes on from its next state.
LEMMA LoopStep ==
    ASSUME NEW D, NEW done, NEW step, IsLoop(D, done, step), NEW s \in D
    PROVE  Loop(s, done, step) = IF s \in done THEN s ELSE Loop(step[s], done, step)
<1> DEFINE r == CHOOSE run : run = [x \in DOMAIN step |-> IF x \in done THEN x ELSE run[step[x]]]
<1>1. r = [x \in D |-> IF x \in done THEN x ELSE r[step[x]]]
  <2>1. \E run : run = [x \in DOMAIN step |-> IF x \in done THEN x ELSE run[step[x]]]
    <3>1. \E run : run = [x \in D |-> IF x \in done THEN x ELSE run[step[x]]]
      BY EndsExist
    <3> QED BY <3>1 DEF IsLoop
  <2> QED BY <2>1 DEF IsLoop
<1>2. \A x : Loop(x, done, step) = r[x]
  BY DEF Loop
<1> HIDE DEF r
<1> QED BY <1>1, <1>2

\* From a state of P a step goes to one of P and makes a smaller, or b and leaves a.
Shrinks(P, done, step, a, b) ==
    /\ a \in [P -> Nat] /\ b \in [P -> Nat]
    /\ \A s \in P : s \notin done =>
          /\ step[s] \in P
          /\ a[step[s]] < a[s] \/ (a[step[s]] = a[s] /\ b[step[s]] < b[s])

(* A loop ends in a state that keeps what its steps keep, if each step makes the first
   of two numbers smaller, or the second and leaves the first. *)
LEMMA LoopEnds ==
    ASSUME NEW D, NEW done, NEW step, IsLoop(D, done, step),
           NEW P \in SUBSET D, NEW a, NEW b, Shrinks(P, done, step, a, b),
           NEW start \in P
    PROVE  Loop(start, done, step) \in P /\ Loop(start, done, step) \in done
<1> USE DEF Shrinks
<1> DEFINE Good(s) == Loop(s, done, step) \in P /\ Loop(s, done, step) \in done
           bad == {s \in P : ~Good(s)}
           as == {a[s] : s \in bad}
<1>1. ASSUME NEW s \in bad
      PROVE  step[s] \in bad /\ (a[step[s]] < a[s] \/ (a[step[s]] = a[s] /\ b[step[s]] < b[s]))
  <2>1. s \in D /\ s \in P
    OBVIOUS
  <2>2. s \notin done
    BY <2>1, LoopStep
  <2>3. Loop(s, done, step) = Loop(step[s], done, step)
    BY <2>1, <2>2, LoopStep
  <2> QED BY <2>1, <2>2, <2>3
<1> SUFFICES ASSUME bad # {} PROVE FALSE
  OBVIOUS
<1>2. bad \subseteq P
  OBVIOUS
<1> HIDE DEF bad
<1>3. as \in SUBSET Nat /\ as # {}
  BY <1>2
<1>4. PICK x \in as : \A y \in as : x <= y
  <2> HIDE DEF as
  <2> QED BY <1>3, NatMin
<1> DEFINE bs == {b[s] : s \in {s \in bad : a[s] = x}}
<1>5. bs \in SUBSET Nat /\ bs # {}
  BY <1>2, <1>4
<1>6. PICK y \in bs : \A z \in bs : y <= z
  <2> HIDE DEF bs
  <2> QED BY <1>5, NatMin
<1>7. PICK s \in bad : a[s] = x /\ b[s] = y
  BY <1>6
<1>8. step[s] \in bad /\ (a[step[s]] < x \/ (a[step[s]] = x /\ b[step[s]] < y))
  BY <1>1, <1>7
<1>9. x <= a[step[s]] /\ a[step[s]] \in Nat /\ b[step[s]] \in Nat
  BY <1>2, <1>4, <1>8
<1>10. a[step[s]] = x /\ y <= b[step[s]]
  BY <1>3, <1>4, <1>6, <1>8, <1>9
<1> QED BY <1>5, <1>6, <1>8, <1>9, <1>10

-----------------------------------------------------------------------------
\* Flattened sequences, images of finite sets, and Sorted.

\* Sequences put together have the items of each.
LEMMA FlatRange ==
    ASSUME NEW V, NEW q \in Seq(Seq(V))
    PROVE  FlattenSeq(q) \in Seq(V) /\ Range(FlattenSeq(q)) = UNION {Range(q[j]) : j \in 1..Len(q)}
<1>1. PICK f : FlatRun(V, q, f)
  BY FlattenIsLoop
<1> DEFINE n == Len(q)
           good == {i \in 0..n : Range(f[i]) = UNION {Range(q[j]) : j \in 1..i}}
<1>2. n \in Nat /\ \A j \in 1..n : q[j] \in Seq(V)
  OBVIOUS
<1>3. f \in [0..n -> Seq(V)] /\ f[0] = << >> /\ FlattenSeq(q) = f[n]
      /\ \A i \in 1..n : f[i] = f[i - 1] \o q[i]
  BY <1>1 DEF FlatRun
<1> HIDE DEF n
<1>4. 0 \in good
  <2>1. 1..0 = {} /\ 0 \in 0..n
    BY <1>2
  <2> QED BY <1>3, <2>1, EmptyIs
<1>5. ASSUME NEW i \in 1..n, i - 1 \in good PROVE i \in good
  <2>1. i - 1 \in 0..n /\ i \in 0..n /\ 1..i = (1..(i - 1)) \union {i}
    BY <1>2
  <2>2. f[i] = f[i - 1] \o q[i] /\ f[i - 1] \in Seq(V) /\ q[i] \in Seq(V)
    BY <1>2, <1>3, <2>1
  <2>3. Range(f[i]) = Range(f[i - 1]) \union Range(q[i])
    BY <2>2, ConcatIs
  <2>4. Range(f[i - 1]) = UNION {Range(q[j]) : j \in 1..(i - 1)}
    BY <1>5
  <2> QED BY <2>1, <2>3, <2>4
<1>6. \A i \in 0..n : i \in good
  <2> HIDE DEF good
  <2> QED BY <1>2, <1>4, <1>5, NatInd
<1>7. n \in 0..n
  BY <1>2
<1> QED BY <1>3, <1>6, <1>7 DEF n

\* A finite set as a sequence.
LEMMA SetSeq ==
    ASSUME NEW S, IsFiniteSet(S)
    PROVE  /\ SetToSeq(S) \in Seq(S) /\ Len(SetToSeq(S)) = Cardinality(S)
           /\ Range(SetToSeq(S)) = S /\ IsInjective(SetToSeq(S))
<1> DEFINE n == Cardinality(S)
           f == SetToSeq(S)
<1>1. n \in Nat /\ \E g \in [1..n -> S] : IsInjective(g)
  BY FS_CardinalityType DEF ExistsBijection, Bijection, Injection
<1>2. f \in [1..n -> S] /\ IsInjective(f)
  BY <1>1 DEF SetToSeq
<1>3. f \in Injection(1..n, S)
  BY <1>2 DEF Injection
<1>4. Cardinality(1..n) = n
  BY <1>1, FS_Interval
<1>5. f \in Surjection(1..n, S)
  <2> HIDE DEF f, n
  <2> QED BY <1>3, <1>4, FS_Injection DEF n
<1>6. Range(f) = S
  <2> HIDE DEF f
  <2> QED BY <1>5, <1>2 DEF Surjection, Range
<1> HIDE DEF f, n
<1>7. f \in Seq(S) /\ Len(f) = n
  BY <1>1, <1>2
<1> QED BY <1>2, <1>6, <1>7 DEF f, n

\* What a function makes of a finite set is finite, and no more.
LEMMA ImageIs ==
    ASSUME NEW S, IsFiniteSet(S), NEW f, DOMAIN f = S
    PROVE  IsFiniteSet({f[x] : x \in S}) /\ Cardinality({f[x] : x \in S}) <= Cardinality(S)
<1> DEFINE T == {f[x] : x \in S}
           g == [x \in S |-> f[x]]
<1>1. g \in Surjection(S, T)
  BY DEF Surjection
<1> HIDE DEF g
<1> QED BY <1>1, FS_Surjection

\* An order of some in which others may be level.
WeakOrder(S, before) ==
    /\ \A x, y \in S : <<x, y>> \in before => <<y, x>> \notin before
    /\ \A x, y, z \in S : <<x, z>> \in before => <<x, y>> \in before \/ <<y, z>> \in before

\* How many are ahead of each.
CountBefore(S, before) == [x \in S |-> Cardinality({y \in S : <<y, x>> \in before})]

TotalOrder(S, before) ==
    /\ \A x \in S : <<x, x>> \notin before
    /\ \A x, y \in S : x # y => (<<x, y>> \in before <=> <<y, x>> \notin before)
    /\ \A x, y, z \in S : <<x, y>> \in before /\ <<y, z>> \in before => <<x, z>> \in before

\* These are the numbers from 0 on.
LEMMA RanksAre ==
    ASSUME NEW S, IsFiniteSet(S), NEW before, TotalOrder(S, before)
    PROVE  LET rank == CountBefore(S, before)
           IN  /\ \A x \in S : rank[x] \in 0..(Cardinality(S) - 1)
               /\ \A x, y \in S : rank[x] = rank[y] => x = y
               /\ \A k \in 0..(Cardinality(S) - 1) : \E x \in S : rank[x] = k
<1> USE DEF TotalOrder
<1> DEFINE rank == CountBefore(S, before)
           n == Cardinality(S)
           Ahead(x) == {y \in S : <<y, x>> \in before}
<1>0. n \in Nat
  BY FS_CardinalityType
<1>1. ASSUME NEW x \in S
      PROVE  /\ IsFiniteSet(Ahead(x)) /\ Cardinality(Ahead(x)) \in Nat
             /\ Cardinality(Ahead(x)) < n /\ rank[x] = Cardinality(Ahead(x))
  <2>1. Ahead(x) \in SUBSET S /\ Ahead(x) # S
    OBVIOUS
  <2>2. IsFiniteSet(Ahead(x)) /\ Cardinality(Ahead(x)) <= n /\ Cardinality(Ahead(x)) # n
    <3> HIDE DEF Ahead
    <3> QED BY <2>1, FS_Subset
  <2>3. Cardinality(Ahead(x)) \in Nat
    BY <2>2, FS_CardinalityType
  <2>4. rank[x] = Cardinality(Ahead(x))
    BY DEF CountBefore
  <2> HIDE DEF Ahead, n
  <2> QED BY <1>0, <2>2, <2>3, <2>4
<1>2. ASSUME NEW x \in S, NEW y \in S, <<x, y>> \in before PROVE rank[x] < rank[y]
  <2>1. Ahead(x) \in SUBSET Ahead(y) /\ Ahead(x) # Ahead(y)
    BY <1>2
  <2>2. IsFiniteSet(Ahead(y)) /\ Cardinality(Ahead(x)) \in Nat /\ Cardinality(Ahead(y)) \in Nat
        /\ rank[x] = Cardinality(Ahead(x)) /\ rank[y] = Cardinality(Ahead(y))
    BY <1>1
  <2> HIDE DEF Ahead
  <2>3. Cardinality(Ahead(x)) <= Cardinality(Ahead(y)) /\ Cardinality(Ahead(x)) # Cardinality(Ahead(y))
    BY <2>1, <2>2, FS_Subset
  <2> QED BY <2>2, <2>3
<1>3. ASSUME NEW x \in S PROVE rank[x] \in 0..(n - 1)
  <2>1. rank[x] \in Nat /\ rank[x] < n
    BY <1>1
  <2> HIDE DEF n
  <2> QED BY <1>0, <2>1
<1>4. \A x, y \in S : rank[x] = rank[y] => x = y
  <2> SUFFICES ASSUME NEW x \in S, NEW y \in S, rank[x] = rank[y], x # y PROVE FALSE
    OBVIOUS
  <2>1. rank[x] < rank[y] \/ rank[y] < rank[x]
    BY <1>2
  <2> HIDE DEF n
  <2> QED BY <1>0, <1>3, <2>1
<1>5. rank \in Injection(S, 0..(n - 1))
  <2>1. rank = [x \in S |-> rank[x]]
    BY DEF CountBefore
  <2> HIDE DEF rank, n
  <2> QED BY <1>3, <1>4, <2>1 DEF Injection, IsInjective
<1>6. IsFiniteSet(0..(n - 1)) /\ Cardinality(0..(n - 1)) = n
  <2> HIDE DEF n
  <2>1. n - 1 \in Int /\ (0 > n - 1 <=> n = 0) /\ n - 1 - 0 + 1 = n
    BY <1>0
  <2> QED BY <2>1, FS_Interval
<1>7. rank \in Surjection(S, 0..(n - 1))
  <2>1. Cardinality(S) = Cardinality(0..(n - 1))
    BY <1>6
  <2> HIDE DEF n
  <2> QED BY <1>5, <1>6, <2>1, FS_Injection
<1>8. \A k \in 0..(n - 1) : \E x \in S : rank[x] = k
  BY <1>7 DEF Surjection
<1> QED BY <1>3, <1>4, <1>8

\* Rows in an order are these rows.
LEMMA SortedIs ==
    ASSUME NEW S, IsFiniteSet(S), NEW before, WeakOrder(S, before)
    PROVE  /\ Sorted(S, before) \in Seq(S) /\ Len(Sorted(S, before)) = Cardinality(S)
           /\ Range(Sorted(S, before)) = S
<1> DEFINE n == Cardinality(S)
           some == SetToSeq(S)
           At(x) == CHOOSE k \in DOMAIN some : some[k] = x
           Ahead(x) == {y \in S \ {x} : <<y, x>> \in before \/ (<<x, y>> \notin before /\ At(y) < At(x))}
           order == {p \in S \X S : p[1] \in Ahead(p[2])}
           s == Sorted(S, before)
<1>1. n \in Nat
  BY FS_CardinalityType
<1>2. \A x \in S : At(x) \in 1..n /\ some[At(x)] = x
  <2>1. \A x \in S : \E k \in DOMAIN some : some[k] = x
    BY SetSeq DEF Range
  <2>2. DOMAIN some = 1..n
    <3>1. some \in Seq(S) /\ Len(some) = n
      BY SetSeq
    <3> HIDE DEF some, n
    <3> QED BY <3>1
  <2> HIDE DEF some, n
  <2> QED BY <2>1, <2>2
<1>3. s = [k \in 1..n |-> CHOOSE x \in S : Cardinality(Ahead(x)) = k - 1]
  BY DEF Sorted
<1> HIDE DEF s, some, n, At
<1> DEFINE Precedes(y, x) == y \in Ahead(x)
<1>4. ASSUME NEW x \in S, NEW y \in S
      PROVE  <<x, y>> \in order
             <=> x # y /\ (<<x, y>> \in before \/ (<<y, x>> \notin before /\ At(x) < At(y)))
  OBVIOUS
<1>5. \A x, y \in S : At(x) \in Int /\ At(y) \in Int /\ (x # y => At(x) # At(y))
  BY <1>1, <1>2
<1>6. \A x \in S : {y \in S : <<y, x>> \in order} = Ahead(x)
  OBVIOUS
<1> HIDE DEF Ahead, order
<1>7. ASSUME NEW x \in S, NEW y \in S, x # y
      PROVE  <<x, y>> \in order <=> <<y, x>> \notin order
  <2>1. At(x) \in Int /\ At(y) \in Int /\ At(x) # At(y)
    BY <1>5, <1>7
  <2>2. <<x, y>> \in before => <<y, x>> \notin before
    BY DEF WeakOrder
  <2>3. /\ <<x, y>> \in order <=> <<x, y>> \in before \/ (<<y, x>> \notin before /\ At(x) < At(y))
        /\ <<y, x>> \in order <=> <<y, x>> \in before \/ (<<x, y>> \notin before /\ At(y) < At(x))
    BY <1>4, <1>7
  <2> QED BY <2>1, <2>2, <2>3
<1>8. \A x \in S : <<x, x>> \notin order
  BY <1>4
<1>9. ASSUME NEW x \in S, NEW y \in S, NEW z \in S, <<x, y>> \in order, <<y, z>> \in order
      PROVE  <<x, z>> \in order
  <2>1. x # z
    BY <1>7, <1>8, <1>9
  <2>2. <<y, x>> \notin before /\ <<z, y>> \notin before
    BY <1>4, <1>9 DEF WeakOrder
  <2>3. <<z, x>> \notin before
    BY <2>2 DEF WeakOrder
  <2>4. CASE <<x, z>> \in before
    BY <1>4, <2>1, <2>4
  <2>5. CASE <<x, z>> \notin before
    <3>1. <<x, y>> \notin before /\ <<y, z>> \notin before
      BY <2>2, <2>3, <2>5 DEF WeakOrder
    <3>2. At(x) < At(y) /\ At(y) < At(z)
      BY <1>4, <1>9, <3>1
    <3>3. At(x) < At(z)
      BY <1>5, <3>2
    <3> QED BY <1>4, <2>1, <2>3, <3>3
  <2> QED BY <2>4, <2>5
<1> DEFINE rank == CountBefore(S, order)
<1>10. /\ \A x \in S : rank[x] \in 0..(n - 1)
       /\ \A x, y \in S : rank[x] = rank[y] => x = y
       /\ \A k \in 0..(n - 1) : \E x \in S : rank[x] = k
  <2>1. TotalOrder(S, order)
    BY <1>7, <1>8, <1>9 DEF TotalOrder
  <2> QED BY <2>1, RanksAre DEF n
<1>11. \A x \in S : rank[x] = Cardinality(Ahead(x))
  BY <1>6 DEF CountBefore
<1> HIDE DEF rank
<1>12. \A k \in 1..n : s[k] \in S /\ rank[s[k]] = k - 1
  <2> SUFFICES ASSUME NEW k \in 1..n PROVE s[k] \in S /\ rank[s[k]] = k - 1
    OBVIOUS
  <2>1. k - 1 \in 0..(n - 1)
    BY <1>1
  <2>2. \E x \in S : Cardinality(Ahead(x)) = k - 1
    BY <1>10, <1>11, <2>1
  <2>3. s[k] = CHOOSE x \in S : Cardinality(Ahead(x)) = k - 1
    BY <1>3
  <2>4. s[k] \in S /\ Cardinality(Ahead(s[k])) = k - 1
    BY <2>2, <2>3
  <2> QED BY <1>11, <2>4
<1>13. s \in Seq(S) /\ Len(s) = n
  <2>1. s \in [1..n -> S]
    BY <1>3, <1>12
  <2> QED BY <1>1, <2>1
<1>14. Range(s) = S
  <2>1. ASSUME NEW x \in S PROVE \E k \in 1..n : s[k] = x
    <3>1. rank[x] \in 0..(n - 1) /\ rank[x] + 1 \in 1..n /\ rank[x] + 1 - 1 = rank[x]
      BY <1>1, <1>10
    <3>2. rank[s[rank[x] + 1]] = rank[x] /\ s[rank[x] + 1] \in S
      BY <1>12, <3>1
    <3> QED BY <1>10, <3>1, <3>2
  <2>2. Range(s) = {s[k] : k \in 1..n}
    BY <1>13, RangeIs
  <2> QED BY <1>12, <2>1, <2>2
<1> QED BY <1>13, <1>14 DEF s, n

-----------------------------------------------------------------------------
\* The first that is not nothing; what is reached over some steps; walks along rows.

\* The first that is not none, and the one at the front before all.
LEMMA FirstButIs ==
    ASSUME NEW none, NEW n \in Nat, NEW s, DOMAIN s = 1..n
    PROVE  LET f == FirstBut(none, s)
           IN  /\ f = none => \A i \in 1..n : s[i] = none
               /\ f # none => \E i \in 1..n : f = s[i] /\ \A j \in 1..n : j < i => s[j] = none
               /\ 1 \in 1..n /\ s[1] # none => f = s[1]
<1> DEFINE at == {i \in DOMAIN s : s[i] # none}
           least == CHOOSE i \in at : \A j \in at : i <= j
           f == FirstBut(none, s)
<1>1. f = IF at = {} THEN none ELSE s[least]
  BY DEF FirstBut
<1>2. at \in SUBSET Nat
  OBVIOUS
<1>3. at # {} => least \in at /\ \A j \in at : least <= j
  <2> HIDE DEF at
  <2> QED BY <1>2, NatMin
<1>4. CASE at = {}
  BY <1>1, <1>4
<1>5. CASE at # {}
  <2>1. f = s[least] /\ least \in 1..n /\ f # none
    BY <1>1, <1>3, <1>5
  <2>2. \A j \in 1..n : j < least => s[j] = none
    <3>1. \A j \in 1..n : j \in at => least <= j
      BY <1>3, <1>5
    <3>2. \A j \in 1..n : j < least => ~(least <= j)
      <4> HIDE DEF least
      <4> QED BY <2>1
    <3> HIDE DEF least
    <3> QED BY <3>1, <3>2
  <2>3. 1 \in 1..n /\ s[1] # none => least = 1
    <3> HIDE DEF least
    <3> QED BY <2>1, <2>2
  <2> HIDE DEF f, least
  <2> QED BY <2>1, <2>2, <2>3 DEF f
<1> QED BY <1>4, <1>5

\* A sequence with items has a first, and is shorter without.
LEMMA HeadTail ==
    ASSUME NEW V, NEW s \in Seq(V), s # << >>
    PROVE  /\ Head(s) \in V /\ Tail(s) \in Seq(V) /\ Len(Tail(s)) < Len(s)
           /\ Range(s) = {Head(s)} \union Range(Tail(s))
<1> DEFINE t == Tail(s)
           n == Len(s)
<1>1. /\ n \in Nat \ {0} /\ t \in Seq(V) /\ Len(t) = n - 1 /\ Head(s) = s[1]
      /\ \A i \in 1..(n - 1) : t[i] = s[i + 1]
  OBVIOUS
<1>2. Range(s) = {s[i] : i \in 1..n} /\ Range(t) = {t[i] : i \in 1..(n - 1)}
  <2>1. Range(s) = {s[i] : i \in 1..n}
    BY RangeIs
  <2> HIDE DEF t
  <2>2. Range(t) = {t[i] : i \in 1..Len(t)}
    BY <1>1, RangeIs
  <2> QED BY <1>1, <2>1, <2>2
<1>3. \A i \in 1..n : s[i] \in V
  OBVIOUS
<1> HIDE DEF t, n
<1>4. \A i \in 1..n : i = 1 \/ (i - 1 \in 1..(n - 1) /\ i - 1 + 1 = i)
  BY <1>1
<1>5. \A i \in 1..(n - 1) : i + 1 \in 1..n
  BY <1>1
<1>6. 1 \in 1..n /\ n - 1 < n
  BY <1>1
<1>7. Range(s) \subseteq {Head(s)} \union Range(t)
  <2>1. \A i \in 1..n : s[i] = Head(s) \/ s[i] \in Range(t)
    <3> SUFFICES ASSUME NEW i \in 1..n, i # 1 PROVE s[i] \in Range(t)
      BY <1>1
    <3>1. i - 1 \in 1..(n - 1) /\ t[i - 1] = s[i - 1 + 1] /\ i - 1 + 1 = i
      BY <1>1, <1>4
    <3> QED BY <1>2, <3>1
  <2> QED BY <1>2, <2>1
<1>8. {Head(s)} \union Range(t) \subseteq Range(s)
  BY <1>1, <1>2, <1>5, <1>6
<1> QED BY <1>1, <1>3, <1>6, <1>7, <1>8 DEF t, n

\* Fewer are left when one more is met.
LEMMA FewerLeft ==
    ASSUME NEW X, IsFiniteSet(X), NEW S, NEW T, S \subseteq T, NEW x \in X, x \in T, x \notin S
    PROVE  /\ Cardinality(X \ T) \in Nat /\ Cardinality(X \ S) \in Nat
           /\ Cardinality(X \ T) < Cardinality(X \ S)
<1> DEFINE U == X \ T
           W == X \ S
<1>1. U \in SUBSET W /\ U # W /\ W \in SUBSET X
  OBVIOUS
<1> HIDE DEF U, W
<1>2. IsFiniteSet(W) /\ IsFiniteSet(U) /\ Cardinality(U) <= Cardinality(W) /\ Cardinality(U) # Cardinality(W)
  BY <1>1, FS_Subset
<1>3. Cardinality(U) \in Nat /\ Cardinality(W) \in Nat
  BY <1>2, FS_CardinalityType
<1> QED BY <1>2, <1>3 DEF U, W

Leading(C, next) == \A x \in C : next[x] \subseteq C

\* What is reached has where it starts and what each leads to, and nothing else.
LEMMA ClosureIs ==
    ASSUME NEW X, IsFiniteSet(X), NEW next \in [X -> SUBSET X], NEW some \in SUBSET X
    PROVE  LET c == Closure(some, next)
           IN  /\ c \in SUBSET X /\ some \subseteq c /\ Leading(c, next)
               /\ \A C \in SUBSET X : some \subseteq C /\ Leading(C, next) => c \subseteq C
<1> DEFINE More(met) == met \union UNION {next[x] : x \in met}
           D == SUBSET X
           done == {met \in D : More(met) = met}
           step == [met \in D |-> More(met)]
           Fewest(met) == /\ some \subseteq met
                         /\ \A C \in SUBSET X : some \subseteq C /\ Leading(C, next) => met \subseteq C
           P == {met \in D : Fewest(met)}
           a == [met \in P |-> Cardinality(X \ met)]
           b == [met \in P |-> 0]
           c == Closure(some, next)
<1>1. \A met \in D : More(met) \in D
  OBVIOUS
<1>2. IsLoop(D, done, step)
  BY <1>1 DEF IsLoop
<1>3. c = Loop(some, done, step)
  <2>1. DOMAIN next = X
    OBVIOUS
  <2> QED BY <2>1 DEF Closure
<1>4. a \in [P -> Nat] /\ b \in [P -> Nat]
  <2>1. \A met \in P : Cardinality(X \ met) \in Nat
    BY FS_Difference, FS_CardinalityType
  <2> QED BY <2>1
<1>5. ASSUME NEW s \in P, s \notin done
      PROVE  step[s] \in P /\ a[step[s]] < a[s]
  <2>1. step[s] = More(s) /\ More(s) \in D /\ s \subseteq More(s) /\ More(s) # s
    BY <1>5
  <2>2. Fewest(More(s))
    BY <1>5 DEF Leading
  <2>3. PICK x \in X : x \in More(s) /\ x \notin s
    BY <2>1
  <2> DEFINE T == More(s)
  <2>4. T \in P /\ s \subseteq T /\ x \in T
    BY <2>1, <2>2, <2>3
  <2>5. a[T] = Cardinality(X \ T) /\ a[s] = Cardinality(X \ s)
    BY <2>4
  <2>6. Cardinality(X \ T) < Cardinality(X \ s)
    <3> HIDE DEF T
    <3> QED BY <2>3, <2>4, FewerLeft
  <2> QED BY <2>1, <2>4, <2>5, <2>6
<1>6. some \in P
  OBVIOUS
<1>7. c \in P /\ c \in done
  <2>1. P \in SUBSET D
    OBVIOUS
  <2> HIDE DEF P, D, done, step, a, b, c
  <2>2. Shrinks(P, done, step, a, b)
    BY <1>4, <1>5 DEF Shrinks
  <2> QED BY <1>2, <1>3, <1>6, <2>1, <2>2, LoopEnds
<1>8. Leading(c, next)
  <2> HIDE DEF c
  <2> QED BY <1>7 DEF Leading
<1> HIDE DEF c
<1> QED BY <1>7, <1>8 DEF c

-----------------------------------------------------------------------------
\* Walks.

Met(w) == w.visited \union Range(w.queue)

\* Sets with a start and with what each of them leads to.
ClosedSets(X, start, next) == {C \in SUBSET X : Range(start) \subseteq C /\ \A x \in C : Range(next[x]) \subseteq C}

\* A walk has met where it started and what it visited leads to, and nothing else.
OnTheWay(X, start, next, w) ==
    /\ w \in Walks(X) /\ Range(start) \subseteq Met(w)
    /\ \A x \in w.visited : Range(next[x]) \subseteq Met(w)
    /\ \A C \in ClosedSets(X, start, next) : Met(w) \subseteq C

\* A walk begins on its way.
LEMMA WalkStarts ==
    ASSUME NEW X, NEW start \in Seq(X), NEW next
    PROVE  OnTheWay(X, start, next, WalkFrom(start))
<1>1. Range(start) \subseteq X
  BY RangeIs
<1> QED BY <1>1 DEF OnTheWay, WalkFrom, Walks, Met, ClosedSets

(* A turn meets what the head of the queue leads to; one row more is visited, or the
   queue is shorter. *)
Turns(X, next, w, v) ==
    LET i == Head(w.queue)
    IN  /\ v \in Walks(X) /\ i \in X /\ i \in Met(w) /\ v.visited = w.visited \union {i}
        /\ i \in w.visited => Met(v) = Met(w)
        /\ i \notin w.visited => Met(v) = Met(w) \union Range(next[i])
        /\ Cardinality(X \ v.visited) \in Nat /\ Cardinality(X \ w.visited) \in Nat
        /\ Len(v.queue) \in Nat /\ Len(w.queue) \in Nat
        /\ \/ Cardinality(X \ v.visited) < Cardinality(X \ w.visited)
           \/ /\ Cardinality(X \ v.visited) = Cardinality(X \ w.visited)
              /\ Len(v.queue) < Len(w.queue)

\* Visit is such a turn.
LEMMA VisitIs ==
    ASSUME NEW X, IsFiniteSet(X), NEW next \in [X -> Seq(X)], NEW w \in Walks(X), w.queue # << >>
    PROVE  Turns(X, next, w, Visit(w, next))
<1> DEFINE i == Head(w.queue)
           v == Visit(w, next)
           q == w.queue
<1>1. w \in [queue : Seq(X), visited : SUBSET X] /\ q \in Seq(X) /\ w.visited \in SUBSET X
  BY DEF Walks
<1>2. i \in X /\ Tail(q) \in Seq(X) /\ Len(Tail(q)) < Len(q) /\ Range(q) = {i} \union Range(Tail(q))
  <2> HIDE DEF q
  <2> QED BY <1>1, HeadTail DEF q
<1>3. CASE i \in w.visited
  <2>1. v = [queue |-> Tail(q), visited |-> w.visited]
    BY <1>1, <1>3 DEF Visit
  <2>2. v \in Walks(X) /\ v.queue = Tail(q) /\ v.visited = w.visited
    BY <1>1, <1>2, <2>1 DEF Walks
  <2>3. Met(v) = Met(w) /\ i \in Met(w)
    BY <1>2, <1>3, <2>2 DEF Met
  <2>4. v.visited = w.visited \union {i}
    BY <1>3, <2>2
  <2>5. Cardinality(X \ w.visited) \in Nat
    BY FS_Difference, FS_CardinalityType
  <2>6. Len(v.queue) \in Nat /\ Len(q) \in Nat
    BY <1>1, <1>2, <2>2
  <2> HIDE DEF v
  <2>7. Cardinality(X \ v.visited) = Cardinality(X \ w.visited) /\ Len(v.queue) < Len(w.queue)
    BY <1>2, <2>2
  <2>8. Turns(X, next, w, v)
    BY <1>2, <1>3, <2>2, <2>3, <2>4, <2>5, <2>6, <2>7 DEF Turns
  <2> QED BY <2>8 DEF v
<1>4. CASE i \notin w.visited
  <2> DEFINE c == Tail(q) \o next[i]
  <2>1. v = [queue |-> c, visited |-> w.visited \union {i}]
    BY <1>4 DEF Visit
  <2>2. c \in Seq(X) /\ Range(c) = Range(Tail(q)) \union Range(next[i])
    <3> DEFINE l == Tail(q)
               m == next[i]
    <3>1. l \in Seq(X) /\ m \in Seq(X)
      BY <1>2
    <3> HIDE DEF l, m
    <3>2. l \o m \in Seq(X) /\ Range(l \o m) = Range(l) \union Range(m)
      BY <3>1, ConcatIs
    <3> QED BY <3>2 DEF l, m
  <2> HIDE DEF c
  <2>3. v \in Walks(X) /\ v.queue = c /\ v.visited = w.visited \union {i}
    BY <1>1, <1>2, <2>1, <2>2 DEF Walks
  <2>4. Met(v) = Met(w) \union Range(next[i]) /\ i \in Met(w)
    BY <1>2, <2>2, <2>3 DEF Met
  <2>5. /\ Cardinality(X \ v.visited) \in Nat /\ Cardinality(X \ w.visited) \in Nat
        /\ Cardinality(X \ v.visited) < Cardinality(X \ w.visited)
    <3>1. w.visited \subseteq v.visited /\ i \in v.visited
      BY <2>3
    <3> HIDE DEF v, i
    <3> QED BY <1>2, <1>4, <3>1, FewerLeft
  <2>6. Len(v.queue) \in Nat /\ Len(q) \in Nat
    BY <1>1, <2>2, <2>3
  <2> HIDE DEF v
  <2>7. Turns(X, next, w, v)
    BY <1>2, <1>4, <2>3, <2>4, <2>5, <2>6 DEF Turns
  <2> QED BY <2>7 DEF v
<1>5. Turns(X, next, w, v)
  BY <1>3, <1>4
<1> QED BY <1>5

\* A turn keeps to the way.
LEMMA VisitKeeps ==
    ASSUME NEW X, IsFiniteSet(X), NEW start, NEW next \in [X -> Seq(X)], NEW w,
           OnTheWay(X, start, next, w), w.queue # << >>
    PROVE  OnTheWay(X, start, next, Visit(w, next))
<1> DEFINE i == Head(w.queue)
           v == Visit(w, next)
<1>1. /\ v \in Walks(X) /\ i \in X /\ i \in Met(w) /\ v.visited = w.visited \union {i}
      /\ i \in w.visited => Met(v) = Met(w)
      /\ i \notin w.visited => Met(v) = Met(w) \union Range(next[i])
  <2>1. Turns(X, next, w, v)
    BY VisitIs DEF OnTheWay
  <2> HIDE DEF v
  <2> QED BY <2>1 DEF Turns
<1> HIDE DEF v, i
<1>2. Met(w) \subseteq Met(v) /\ Range(next[i]) \subseteq Met(v)
  BY <1>1 DEF OnTheWay
<1>3. \A C \in ClosedSets(X, start, next) : Met(v) \subseteq C
  <2>1. \A C \in ClosedSets(X, start, next) : i \in C /\ Range(next[i]) \subseteq C
    BY <1>1 DEF OnTheWay, ClosedSets
  <2> QED BY <1>1, <2>1 DEF OnTheWay
<1>4. OnTheWay(X, start, next, v)
  BY <1>1, <1>2, <1>3 DEF OnTheWay
<1> QED BY <1>4 DEF v

WalkDone(X, wanted) == {w \in Walks(X) : w.queue = << >> \/ Head(w.queue) \in wanted}
WalkStep(X, next) == [w \in Walks(X) |-> Visit(w, next)]

\* The turns of a walk stay among the walks.
LEMMA WalkLoops ==
    ASSUME NEW X, IsFiniteSet(X), NEW next \in [X -> Seq(X)], NEW wanted
    PROVE  IsLoop(Walks(X), WalkDone(X, wanted), WalkStep(X, next))
<1>1. ASSUME NEW w \in Walks(X), w \notin WalkDone(X, wanted) PROVE WalkStep(X, next)[w] \in Walks(X)
  <2>1. w.queue # << >>
    BY <1>1 DEF WalkDone
  <2>2. Turns(X, next, w, Visit(w, next))
    BY <2>1, VisitIs
  <2> QED BY <2>2 DEF WalkStep, Turns
<1> QED BY <1>1 DEF IsLoop, WalkStep

\* Walks end on the way.
LEMMA WalkEnds ==
    ASSUME NEW X, IsFiniteSet(X), NEW next \in [X -> Seq(X)], NEW start \in Seq(X), NEW wanted
    PROVE  LET end == Loop(WalkFrom(start), WalkDone(X, wanted), WalkStep(X, next))
           IN  /\ OnTheWay(X, start, next, end) /\ end \in WalkDone(X, wanted)
               /\ end.visited \intersect wanted = {}
<1> DEFINE D == Walks(X)
           done == WalkDone(X, wanted)
           step == WalkStep(X, next)
           P == {w \in D : OnTheWay(X, start, next, w) /\ w.visited \intersect wanted = {}}
           a == [w \in P |-> Cardinality(X \ w.visited)]
           b == [w \in P |-> Len(w.queue)]
           end == Loop(WalkFrom(start), done, step)
<1>1. IsLoop(D, done, step)
  BY WalkLoops
<1>2. a \in [P -> Nat] /\ b \in [P -> Nat]
  <2>1. \A w \in P : Cardinality(X \ w.visited) \in Nat
    BY FS_Difference, FS_CardinalityType
  <2>2. \A w \in P : Len(w.queue) \in Nat
    BY DEF Walks
  <2> QED BY <2>1, <2>2
<1>3. ASSUME NEW w \in P, w \notin done
      PROVE  /\ step[w] \in P
             /\ a[step[w]] < a[w] \/ (a[step[w]] = a[w] /\ b[step[w]] < b[w])
  <2> DEFINE v == Visit(w, next)
  <2>1. w \in Walks(X) /\ w.queue # << >> /\ Head(w.queue) \notin wanted /\ step[w] = v
    BY <1>3 DEF WalkDone, WalkStep
  <2>2. /\ v \in Walks(X) /\ v.visited = w.visited \union {Head(w.queue)}
        /\ \/ Cardinality(X \ v.visited) < Cardinality(X \ w.visited)
           \/ /\ Cardinality(X \ v.visited) = Cardinality(X \ w.visited)
              /\ Len(v.queue) < Len(w.queue)
    <3>1. Turns(X, next, w, v)
      BY <2>1, VisitIs
    <3> HIDE DEF v
    <3> QED BY <3>1 DEF Turns
  <2>3. OnTheWay(X, start, next, v)
    BY <2>1, VisitKeeps
  <2> HIDE DEF v
  <2>4. v \in P
    BY <2>1, <2>2, <2>3
  <2> QED BY <2>1, <2>2, <2>4
<1>4. WalkFrom(start) \in P
  <2>1. OnTheWay(X, start, next, WalkFrom(start)) /\ WalkFrom(start).visited = {}
    BY WalkStarts DEF WalkFrom
  <2> QED BY <2>1 DEF OnTheWay
<1>5. end \in P /\ end \in done
  <2>1. P \in SUBSET D
    OBVIOUS
  <2> DEFINE from == WalkFrom(start)
  <2>2. from \in P
    BY <1>4
  <2> HIDE DEF P, D, done, step, a, b, from
  <2>3. Shrinks(P, done, step, a, b)
    BY <1>2, <1>3 DEF Shrinks
  <2>4. Loop(from, done, step) \in P /\ Loop(from, done, step) \in done
    BY <1>1, <2>1, <2>2, <2>3, LoopEnds
  <2> QED BY <2>4 DEF from
<1> HIDE DEF end
<1> QED BY <1>5 DEF end

(* A walk finds a row that is wanted and reached, or there is a set of rows without one
   that has the start and what each of them leads to. *)
Finding(X, start, next, wanted, i) ==
    /\ i = 0 => \E C \in ClosedSets(X, start, next) : C \intersect wanted = {}
    /\ i # 0 => i \in X /\ i \in wanted /\ \A C \in ClosedSets(X, start, next) : i \in C

\* FirstVisited finds a row wanted that nothing avoids, or there is a way around all of them.
LEMMA FirstVisitedIs ==
    ASSUME NEW X, IsFiniteSet(X), X \subseteq Nat \ {0}, NEW next \in [X -> Seq(X)],
           NEW start \in Seq(X), NEW wanted
    PROVE  Finding(X, start, next, wanted, FirstVisited(start, next, wanted))
<1> DEFINE end == Loop(WalkFrom(start), WalkDone(X, wanted), WalkStep(X, next))
           i == FirstVisited(start, next, wanted)
<1>1. i = IF end.queue = << >> THEN 0 ELSE Head(end.queue)
  BY DEF FirstVisited, WalkDone, WalkStep
<1>2. /\ OnTheWay(X, start, next, end) /\ end \in WalkDone(X, wanted)
      /\ end.visited \intersect wanted = {}
  BY WalkEnds
<1> HIDE DEF end, i
<1>3. CASE end.queue = << >>
  <2>1. Met(end) = end.visited
    BY <1>3, EmptyIs DEF Met
  <2>2. end.visited \in ClosedSets(X, start, next)
    BY <1>2, <2>1 DEF OnTheWay, ClosedSets, Walks
  <2>3. i = 0
    BY <1>1, <1>3
  <2>4. Finding(X, start, next, wanted, i)
    BY <1>2, <2>2, <2>3 DEF Finding
  <2> QED BY <2>4 DEF i
<1>4. CASE end.queue # << >>
  <2>1. i = Head(end.queue) /\ i \in wanted
    BY <1>1, <1>2, <1>4 DEF WalkDone
  <2>2. i \in X /\ i \in Met(end)
    <3>1. Turns(X, next, end, Visit(end, next))
      BY <1>2, <1>4, VisitIs DEF OnTheWay
    <3> QED BY <2>1, <3>1 DEF Turns
  <2>3. \A C \in ClosedSets(X, start, next) : i \in C
    BY <1>2, <2>2 DEF OnTheWay
  <2>4. i # 0
    BY <2>2
  <2>5. Finding(X, start, next, wanted, i)
    BY <2>1, <2>2, <2>3, <2>4 DEF Finding
  <2> QED BY <2>5 DEF i
<1> QED BY <1>3, <1>4

-----------------------------------------------------------------------------
\* Refreshes and the watcher leave the rows of both indexes consistent.

\* What Consistent says of one row.
Linked(db, r) ==
    /\ IsFiniteSet(r.members) /\ DOMAIN r.links = DOMAIN r.bases
    /\ \A k \in DOMAIN r.links :
          r.links[k] # 0 => r.links[k] \in DOMAIN db /\ db[r.links[k]].name = r.bases[k]

\* A function on the places of a sequence is one itself.
LEMMA IsSeq ==
    ASSUME NEW V, NEW W, NEW s \in Seq(W), NEW f, f = [i \in DOMAIN s |-> f[i]], \A i \in DOMAIN s : f[i] \in V
    PROVE  f \in Seq(V) /\ Len(f) = Len(s) /\ DOMAIN f = DOMAIN s
<1>1. Len(s) \in Nat /\ DOMAIN s = 1..Len(s)
  OBVIOUS
<1>2. f \in [1..Len(s) -> V]
  BY <1>1
<1> QED BY <1>1, <1>2

\* Consistent, row by row.
LEMMA ConsistentIs ==
    \A db : Consistent(db) <=> db \in Seq(ClassRows) /\ \A i \in DOMAIN db : Linked(db, db[i])
BY DEF Consistent, Linked

\* A row whose links alone are given anew.
LEMMA NewLinks ==
    ASSUME NEW r \in ClassRows, NEW anew \in Seq(Nat)
    PROVE  LET s == [r EXCEPT !.links = anew]
           IN  s \in ClassRows /\ s = [r EXCEPT !.links = anew] /\ s.links = anew
               /\ s.name = r.name /\ s.bases = r.bases /\ s.members = r.members /\ s.live = r.live
BY DEF ClassRows

\* Deleting the rows of a file leaves no link to them.
LEMMA CascadeIs ==
    ASSUME NEW db, Consistent(db), NEW f
    PROVE  Consistent(CascadeRows(db, f))
<1> DEFINE ids == [i \in DOMAIN db |-> i]
           kept == KeepIn(ids, DOMAIN db \ Of(db, f))
           Now(id) == CHOOSE j \in DOMAIN kept : kept[j] = id
           Link(id) == IF id \in Range(kept) THEN Now(id) ELSE 0
           anew == [i \in DOMAIN kept |-> [k \in DOMAIN db[kept[i]].links |-> Link(db[kept[i]].links[k])]]
           c == [i \in DOMAIN kept |-> [db[kept[i]] EXCEPT !.links = anew[i]]]
<1>1. db \in Seq(ClassRows) /\ \A i \in DOMAIN db : Linked(db, db[i])
  BY ConsistentIs
<1>2. ids \in Seq(DOMAIN db) /\ DOMAIN db = 1..Len(db) /\ Len(db) \in Nat
  BY <1>1
<1>3. kept \in Seq(DOMAIN db)
  <2> HIDE DEF ids
  <2> QED BY <1>2, KeepIs
<1>4. CascadeRows(db, f) = c
  BY DEF CascadeRows
<1> HIDE DEF ids, kept
<1>5. DOMAIN kept = 1..Len(kept) /\ Len(kept) \in Nat /\ \A i \in DOMAIN kept : kept[i] \in DOMAIN db
  BY <1>3
<1>6. \A id \in Range(kept) : Now(id) \in DOMAIN kept /\ kept[Now(id)] = id
  BY <1>3, <1>5, RangeIs
<1>7. \A id : Link(id) \in Nat /\ (Link(id) # 0 => Link(id) \in DOMAIN kept /\ kept[Link(id)] = id)
  BY <1>5, <1>6
<1> HIDE DEF Link
<1>8. ASSUME NEW i \in DOMAIN kept
      PROVE  c[i] \in ClassRows /\ c[i].name = db[kept[i]].name /\ Linked(c, c[i])
  <2> DEFINE r == db[kept[i]]
  <2>1. r \in ClassRows /\ Linked(db, r)
    BY <1>1, <1>5
  <2>2. r.links \in Seq(Nat) /\ r.bases \in Seq(Names)
    BY <2>1 DEF ClassRows
  <2>3. anew[i] \in Seq(Nat) /\ DOMAIN anew[i] = DOMAIN r.links
        /\ \A k \in DOMAIN r.links : anew[i][k] = Link(r.links[k])
    <3>1. anew[i] = [k \in DOMAIN r.links |-> Link(r.links[k])]
      OBVIOUS
    <3>2. \A k \in DOMAIN r.links : anew[i][k] = Link(r.links[k])
      BY <3>1
    <3> HIDE DEF anew
    <3>3. anew[i] = [k \in DOMAIN r.links |-> anew[i][k]]
      BY <3>1
    <3>4. \A k \in DOMAIN r.links : anew[i][k] \in Nat
      BY <1>7, <3>2
    <3> HIDE DEF r
    <3>5. anew[i] \in Seq(Nat) /\ DOMAIN anew[i] = DOMAIN r.links
      BY <2>2, <3>3, <3>4, IsSeq
    <3> QED BY <3>2, <3>5
  <2> HIDE DEF anew
  <2>4. c[i] = [r EXCEPT !.links = anew[i]]
    OBVIOUS
  <2>5. \A j \in DOMAIN kept : c[j].name = db[kept[j]].name
    <3> SUFFICES ASSUME NEW j \in DOMAIN kept PROVE c[j].name = db[kept[j]].name
      OBVIOUS
    <3>1. c[j] = [db[kept[j]] EXCEPT !.links = anew[j]] /\ db[kept[j]] \in ClassRows
      BY <1>1, <1>5
    <3> QED BY <3>1 DEF ClassRows
  <2>6. DOMAIN c = DOMAIN kept
    OBVIOUS
  <2> HIDE DEF c, r
  <2>7. /\ c[i] \in ClassRows /\ c[i].links = anew[i] /\ c[i].name = r.name
        /\ c[i].bases = r.bases /\ c[i].members = r.members
    BY <2>1, <2>3, <2>4, NewLinks
  <2>8. ASSUME NEW k \in DOMAIN anew[i], anew[i][k] # 0
        PROVE  anew[i][k] \in DOMAIN c /\ c[anew[i][k]].name = r.bases[k]
    <3>1. anew[i][k] = Link(r.links[k])
      BY <2>3
    <3>2. Link(r.links[k]) \in DOMAIN kept /\ kept[Link(r.links[k])] = r.links[k]
      BY <1>7, <2>8, <3>1
    <3>3. r.links[k] # 0 /\ k \in DOMAIN r.links
      BY <1>2, <1>5, <2>3, <3>2
    <3>4. db[r.links[k]].name = r.bases[k]
      BY <2>1, <3>3 DEF Linked
    <3> QED BY <2>5, <2>6, <3>1, <3>2, <3>4
  <2>9. Linked(c, c[i])
    BY <2>1, <2>3, <2>7, <2>8 DEF Linked
  <2> QED BY <2>5, <2>7, <2>9
<1>9. c \in Seq(ClassRows) /\ DOMAIN c = DOMAIN kept
  <2>1. DOMAIN c = 1..Len(kept) /\ Len(kept) \in Nat
    BY <1>5
  <2>2. \A i \in 1..Len(kept) : c[i] \in ClassRows
    BY <1>5, <1>8
  <2>3. c = [i \in 1..Len(kept) |-> c[i]]
    BY <2>1
  <2> HIDE DEF c
  <2> QED BY <1>5, <2>1, <2>2, <2>3
<1> HIDE DEF c
<1> QED BY <1>4, <1>8, <1>9, ConsistentIs

\* Rows that lose their file stay consistent.
LEMMA OrphanIs ==
    ASSUME NEW db, Consistent(db), NEW f
    PROVE  Consistent(Orphan(db, f))
<1> DEFINE c == [i \in DOMAIN db |-> IF i \in Of(db, f) THEN [db[i] EXCEPT !.live = FALSE] ELSE db[i]]
<1>1. db \in Seq(ClassRows) /\ \A i \in DOMAIN db : Linked(db, db[i])
  BY ConsistentIs
<1>2. ASSUME NEW i \in DOMAIN db
      PROVE  /\ c[i] \in ClassRows /\ c[i].name = db[i].name /\ c[i].links = db[i].links
             /\ c[i].bases = db[i].bases /\ c[i].members = db[i].members
  <2>1. db[i] \in ClassRows
    BY <1>1
  <2>2. c[i] = db[i] \/ c[i] = [db[i] EXCEPT !.live = FALSE]
    OBVIOUS
  <2> HIDE DEF c
  <2> QED BY <2>1, <2>2 DEF ClassRows
<1>3. c \in Seq(ClassRows) /\ DOMAIN c = DOMAIN db
  <2>1. c = [i \in DOMAIN db |-> c[i]]
    OBVIOUS
  <2> HIDE DEF c
  <2> QED BY <1>1, <1>2, <2>1, IsSeq
<1>4. c = Orphan(db, f)
  BY DEF Orphan
<1> HIDE DEF c
<1>5. \A i \in DOMAIN c : Linked(c, c[i])
  BY <1>1, <1>2, <1>3 DEF Linked
<1> QED BY <1>3, <1>4, <1>5, ConsistentIs

\* The first row of a name.
LEMMA AnyIdIs ==
    ASSUME NEW db, Consistent(db), NEW n
    PROVE  AnyId(db, n) \in Nat /\ (AnyId(db, n) # 0 => AnyId(db, n) \in DOMAIN db /\ db[AnyId(db, n)].name = n)
<1> DEFINE named == {i \in DOMAIN db : db[i].name = n}
<1>1. named \in SUBSET Nat
  BY ConsistentIs
<1>2. AnyId(db, n) = IF named = {} THEN 0 ELSE CHOOSE i \in named : \A j \in named : i <= j
  BY DEF AnyId
<1>3. named # {} => AnyId(db, n) \in named
  <2> HIDE DEF named
  <2> QED BY <1>1, <1>2, NatMin
<1> QED BY <1>1, <1>2, <1>3

\* resolve_inheritance leaves rows consistent.
LEMMA ResolvedIs ==
    ASSUME NEW db, Consistent(db)
    PROVE  Consistent(Resolved(db))
<1> DEFINE anew == [i \in DOMAIN db |-> [k \in DOMAIN db[i].links |->
                        IF db[i].links[k] # 0 THEN db[i].links[k] ELSE AnyId(db, db[i].bases[k])]]
           c == [i \in DOMAIN db |-> [db[i] EXCEPT !.links = anew[i]]]
<1>1. db \in Seq(ClassRows) /\ \A i \in DOMAIN db : Linked(db, db[i])
  BY ConsistentIs
<1>2. c = Resolved(db) /\ DOMAIN c = DOMAIN db
  BY DEF Resolved
<1>3. ASSUME NEW i \in DOMAIN db
      PROVE  /\ c[i] \in ClassRows /\ c[i].name = db[i].name /\ c[i].bases = db[i].bases
             /\ c[i].members = db[i].members /\ c[i].links = anew[i]
             /\ DOMAIN c[i].links = DOMAIN db[i].links
             /\ \A k \in DOMAIN c[i].links :
                  c[i].links[k] # 0 => c[i].links[k] \in DOMAIN db /\ db[c[i].links[k]].name = db[i].bases[k]
  <2>1. db[i] \in ClassRows /\ Linked(db, db[i])
    BY <1>1
  <2>2. db[i].links \in Seq(Nat)
    BY <2>1 DEF ClassRows
  <2>3. \A k \in DOMAIN db[i].links :
           anew[i][k] \in Nat /\ (anew[i][k] # 0 => anew[i][k] \in DOMAIN db /\ db[anew[i][k]].name = db[i].bases[k])
    BY <2>1, <2>2, AnyIdIs DEF Linked
  <2>4. anew[i] \in Seq(Nat) /\ DOMAIN anew[i] = DOMAIN db[i].links
    <3>1. anew[i] = [k \in DOMAIN db[i].links |-> anew[i][k]]
      OBVIOUS
    <3> HIDE DEF anew
    <3> QED BY <2>2, <2>3, <3>1, IsSeq
  <2>5. c[i] = [db[i] EXCEPT !.links = anew[i]]
    OBVIOUS
  <2> HIDE DEF c, anew
  <2>6. /\ c[i] \in ClassRows /\ c[i].links = anew[i] /\ c[i].name = db[i].name
        /\ c[i].bases = db[i].bases /\ c[i].members = db[i].members
    BY <2>1, <2>4, <2>5, NewLinks
  <2> QED BY <2>3, <2>4, <2>6
<1>4. c \in Seq(ClassRows)
  <2>1. c = [i \in DOMAIN db |-> c[i]]
    OBVIOUS
  <2>2. \A i \in DOMAIN db : c[i] \in ClassRows
    BY <1>3
  <2> HIDE DEF c
  <2> QED BY <1>1, <2>1, <2>2, IsSeq
<1> HIDE DEF c, anew
<1>5. \A i \in DOMAIN c : Linked(c, c[i])
  <2> SUFFICES ASSUME NEW i \in DOMAIN db PROVE Linked(c, c[i])
    BY <1>2
  <2>1. Linked(db, db[i])
    BY <1>1
  <2>2. \A k \in DOMAIN c[i].links :
           c[i].links[k] # 0 => c[i].links[k] \in DOMAIN c /\ c[c[i].links[k]].name = c[i].bases[k]
    BY <1>2, <1>3
  <2> QED BY <1>3, <2>1, <2>2 DEF Linked
<1> QED BY <1>2, <1>4, <1>5, ConsistentIs

\* Saving a file leaves rows consistent.
LEMMA SavedIs ==
    ASSUME NEW db, Consistent(db), NEW f \in SourceFiles, NEW content \in Parsed
    PROVE  Consistent(Saved(db, f, content))
<1> DEFINE added == [i \in DOMAIN content |-> Row(f, content[i])]
           c == db \o added
<1>1. db \in Seq(ClassRows) /\ \A i \in DOMAIN db : Linked(db, db[i])
  BY ConsistentIs
<1>2. ASSUME NEW i \in DOMAIN content
      PROVE  added[i] \in ClassRows /\ IsFiniteSet(added[i].members)
             /\ DOMAIN added[i].links = DOMAIN added[i].bases
             /\ \A k \in DOMAIN added[i].links : added[i].links[k] = 0
  <2>1. content[i] \in [name : Names, line : Nat, bases : Seq(Names),
                        members : {s \in SUBSET MemberRecords : IsFiniteSet(s)}]
    <3> DEFINE R == [name : Names, line : Nat, bases : Seq(Names),
                     members : {s \in SUBSET MemberRecords : IsFiniteSet(s)}]
    <3>1. content \in Seq(R)
      BY DEF Parsed
    <3> HIDE DEF R
    <3>2. content[i] \in R
      BY <3>1
    <3> QED BY <3>2 DEF R
  <2>2. [k \in DOMAIN content[i].bases |-> 0] \in Seq(Nat)
    BY <2>1
  <2> QED BY <2>1, <2>2 DEF Row, ClassRows
<1>3. added \in Seq(ClassRows) /\ DOMAIN added = DOMAIN content
  BY <1>2 DEF Parsed
<1>4. Saved(db, f, content) = Resolved(c)
  BY DEF Saved
<1> HIDE DEF added
<1>5. /\ c \in Seq(ClassRows) /\ Len(c) = Len(db) + Len(added) /\ Len(db) \in Nat /\ Len(added) \in Nat
      /\ \A i \in 1..Len(db) : c[i] = db[i]
      /\ \A i \in 1..Len(added) : c[Len(db) + i] = added[i]
  BY <1>1, <1>3, ConcatAt
<1> HIDE DEF c
<1>6. DOMAIN c = 1..Len(c) /\ DOMAIN db = 1..Len(db) /\ DOMAIN db \subseteq DOMAIN c
  BY <1>1, <1>5
<1>7. ASSUME NEW i \in DOMAIN db PROVE Linked(c, c[i])
  BY <1>1, <1>5, <1>6, <1>7 DEF Linked
<1>8. ASSUME NEW i \in 1..Len(added) PROVE Linked(c, added[i])
  BY <1>2, <1>3, <1>8 DEF Linked
<1>9. ASSUME NEW i \in DOMAIN c PROVE Linked(c, c[i])
  <2>1. CASE i \in DOMAIN db
    BY <1>7, <2>1
  <2>2. CASE i \notin DOMAIN db
    <3>1. i - Len(db) \in 1..Len(added) /\ Len(db) + (i - Len(db)) = i
      BY <1>5, <1>6, <2>2
    <3>2. c[i] = added[i - Len(db)]
      BY <1>5, <3>1
    <3> QED BY <1>8, <3>1, <3>2
  <2> QED BY <2>1, <2>2
<1> QED BY <1>4, <1>5, <1>9, ConsistentIs, ResolvedIs

\* The indexes are consistent whatever is saved, and the Engine's rows have their files.
IndexesConsistent ==
    /\ Consistent(rows) /\ Consistent(engine)
    /\ \A i \in DOMAIN engine : engine[i].live

\* Both indexes are consistent at first.
LEMMA IndexStarts == IndexInit => IndexesConsistent
<1>1. Consistent(<< >>)
  BY DEF Consistent
<1> QED BY <1>1, SymbolAssumption DEF IndexInit, IndexesConsistent

\* Refreshes and saves of files leave both indexes consistent.
LEMMA IndexKeeps == IndexesConsistent /\ [IndexNext]_index => IndexesConsistent'
<1> SUFFICES ASSUME IndexesConsistent, [IndexNext]_index PROVE IndexesConsistent'
  OBVIOUS
<1>1. CASE UNCHANGED index
  BY <1>1 DEF index, IndexesConsistent
<1>2. CASE IndexNext
  <2>1. PICK f \in SourceFiles : \E c \in Contents[f] : RefreshFile(f, c) \/ SaveFile(f, c)
    BY <1>2 DEF IndexNext
  <2> PICK content \in Contents[f] : RefreshFile(f, content) \/ SaveFile(f, content)
    BY <2>1
  <2>2. content \in Parsed
    BY SymbolAssumption
  <2>3. ASSUME RefreshFile(f, content) PROVE Consistent(rows')
    <3>1. Consistent(CascadeRows(rows, f))
      BY CascadeIs DEF IndexesConsistent
    <3>2. Consistent(Saved(CascadeRows(rows, f), f, content))
      BY <2>2, <3>1, SavedIs
    <3> QED BY <2>3, <3>2 DEF RefreshFile
  <2>4. ASSUME SaveFile(f, content) PROVE Consistent(rows')
    <3>1. Consistent(Orphan(rows, f))
      BY OrphanIs DEF IndexesConsistent
    <3>2. Consistent(Saved(Orphan(rows, f), f, content))
      BY <2>2, <3>1, SavedIs
    <3> QED BY <2>4, <3>2 DEF SaveFile
  <2>5. Consistent(rows')
    BY <2>3, <2>4
  <2>6. engine' = engine
    BY <1>2 DEF IndexNext
  <2> QED BY <2>5, <2>6 DEF IndexesConsistent
<1> QED BY <1>1, <1>2

-----------------------------------------------------------------------------
\* What the lookups of classes and of their bases find.

Named(db, n) == {i \in DOMAIN db : db[i].name = n}

\* What a row of a consistent index is.
LEMMA ClassRowsAre ==
    ASSUME NEW db, Consistent(db)
    PROVE  /\ IsFiniteSet(DOMAIN db) /\ DOMAIN db \subseteq Nat \ {0}
           /\ \A i \in DOMAIN db : db[i] \in ClassRows /\ Linked(db, db[i])
           /\ \A i \in DOMAIN db : db[i].line \in Nat /\ db[i].bases \in Seq(Names) /\ db[i].name \in Names
<1>1. db \in Seq(ClassRows) /\ \A i \in DOMAIN db : Linked(db, db[i])
  BY ConsistentIs
<1>2. DOMAIN db = 1..Len(db) /\ Len(db) \in Nat
  BY <1>1
<1>3. IsFiniteSet(DOMAIN db)
  BY <1>2, FS_Interval
<1>4. \A i \in DOMAIN db : db[i] \in ClassRows
  BY <1>1
<1> QED BY <1>1, <1>2, <1>3, <1>4 DEF ClassRows

\* A sequence is empty if nothing is in it.
LEMMA NotEmpty ==
    ASSUME NEW V, NEW s \in Seq(V)
    PROVE  s = << >> <=> Range(s) = {}
<1>1. CASE s = << >>
  BY <1>1, EmptyIs
<1>2. CASE s # << >>
  <2>1. Head(s) \in Range(s)
    BY <1>2, HeadTail
  <2> QED BY <1>2, <2>1
<1> QED BY <1>1, <1>2

\* The rows of a name that a context finds.
Finds(ctx, n, s) ==
    /\ s \in Seq(DOMAIN ctx.rows) /\ Range(s) \subseteq Named(ctx.rows, n)
    /\ s = << >> <=> Named(ctx.rows, n) = {}

\* Rows of included files are preferred, if there are any.
LEMMA PreferredIs ==
    ASSUME NEW V, NEW s \in Seq(V), NEW S
    PROVE  LET t == Preferred(KeepIn(s, S), s)
           IN  /\ t \in Seq(V) /\ Range(t) \subseteq Range(s) /\ (t = << >> <=> Range(s) = {})
               /\ \A i \in Range(s) : Range(s) \intersect S = {} => i \in Range(t)
<1> DEFINE k == KeepIn(s, S)
<1>1. k \in Seq(V) /\ Range(k) = Range(s) \intersect S
  BY KeepIs
<1> HIDE DEF k
<1>2. (k = << >> <=> Range(k) = {}) /\ (s = << >> <=> Range(s) = {})
  BY <1>1, NotEmpty
<1> QED BY <1>1, <1>2 DEF k, Preferred

\* class_ids_by_name finds rows of the name, and some if there are any.
LEMMA NamedIs ==
    ASSUME NEW ctx, Consistent(ctx.rows), NEW n
    PROVE  Finds(ctx, n, class_ids_by_name(ctx, n))
<1> DEFINE db == ctx.rows
           ids == {i \in DOMAIN db : db[i].name = n}
           Before(i, j) == db[i].line < db[j].line \/ (db[i].line = db[j].line /\ i < j)
           before == {p \in ids \X ids : Before(p[1], p[2])}
           s == Sorted(ids, before)
           near == {i \in DOMAIN db : db[i].live /\ db[i].file \in ctx.seen}
<1>1. class_ids_by_name(ctx, n) = Preferred(KeepIn(s, near), s)
  BY DEF class_ids_by_name, filter_class_ids_by_includes
<1>2. IsFiniteSet(ids) /\ ids \subseteq Nat /\ \A i \in ids : db[i].line \in Nat
  BY ClassRowsAre, FS_Subset
<1>3. WeakOrder(ids, before)
  <2> SUFFICES /\ \A x, y \in ids : Before(x, y) => ~Before(y, x)
               /\ \A x, y, z \in ids : Before(x, z) => Before(x, y) \/ Before(y, z)
    BY DEF WeakOrder
  <2> DEFINE line == [i \in ids |-> db[i].line]
  <2>1. /\ \A i \in ids : line[i] \in Nat
        /\ \A i, j \in ids : Before(i, j) <=> line[i] < line[j] \/ (line[i] = line[j] /\ i < j)
    BY <1>2
  <2> HIDE DEF line, Before, ids
  <2> QED BY <1>2, <2>1
<1> HIDE DEF before
<1>4. s \in Seq(ids) /\ Range(s) = ids
  <2> HIDE DEF ids
  <2> QED BY <1>2, <1>3, SortedIs
<1> DEFINE t == Preferred(KeepIn(s, near), s)
<1>5. s \in Seq(DOMAIN db)
  <2>1. ids \subseteq DOMAIN db
    OBVIOUS
  <2> HIDE DEF s, ids
  <2> QED BY <1>4, <2>1
<1>6. t \in Seq(DOMAIN db) /\ Range(t) \subseteq Range(s) /\ (t = << >> <=> Range(s) = {})
  <2> HIDE DEF s, near
  <2> QED BY <1>5, PreferredIs
<1>7. ids = Named(ctx.rows, n)
  BY DEF Named
<1> HIDE DEF t, s, ids, near
<1> QED BY <1>1, <1>4, <1>6, <1>7 DEF Finds, t

\* What is queued for a base is of its name.
LEMMA QueuedIs ==
    ASSUME NEW ctx, Consistent(ctx.rows), NEW i \in DOMAIN ctx.rows, NEW k \in DOMAIN ctx.rows[i].bases
    PROVE  /\ Finds(ctx, ctx.rows[i].bases[k], Queued(ctx, i, k))
           /\ Range(class_ids_by_name(ctx, ctx.rows[i].bases[k])) \subseteq Range(Queued(ctx, i, k))
<1> DEFINE db == ctx.rows
           n == db[i].bases[k]
           link == db[i].links[k]
           all == class_ids_by_name(ctx, n)
           own == IF link = 0 THEN << >> ELSE <<link>>
<1>1. Finds(ctx, n, all)
  BY NamedIs
<1>2. link # 0 => link \in DOMAIN db /\ db[link].name = n
  BY ClassRowsAre DEF Linked
<1>3. own \in Seq(DOMAIN db) /\ Range(own) \subseteq Named(db, n)
  <2>1. CASE link = 0
    BY <2>1, EmptyIs
  <2>2. CASE link # 0
    <3>1. own = Append(<< >>, link) /\ own = <<link>>
      BY <2>2
    <3>2. link \in DOMAIN db /\ link \in Named(db, n)
      BY <1>2, <2>2 DEF Named
    <3>3. Append(<< >>, link) \in Seq(DOMAIN db) /\ Range(Append(<< >>, link)) = Range(<< >>) \union {link}
      BY <3>2, EmptyIs, AppendIs
    <3> QED BY <3>1, <3>2, <3>3, EmptyIs
  <2> QED BY <2>1, <2>2
<1>4. Queued(ctx, i, k) = own \o all
  BY DEF Queued
<1>5. all \in Seq(DOMAIN db) /\ Range(all) \subseteq Named(db, n) /\ (all = << >> <=> Named(db, n) = {})
  BY <1>1 DEF Finds
<1> HIDE DEF own, all, n, db
<1>6. own \o all \in Seq(DOMAIN db) /\ Range(own \o all) = Range(own) \union Range(all)
  BY <1>3, <1>5, ConcatIs
<1>7. (own \o all = << >> <=> Range(own \o all) = {}) /\ (all = << >> <=> Range(all) = {})
  BY <1>5, <1>6, NotEmpty
<1>8. Finds(ctx, n, own \o all) /\ Range(all) \subseteq Range(own \o all)
  BY <1>3, <1>5, <1>6, <1>7 DEF Finds, db
<1> QED BY <1>4, <1>8 DEF n, all, db

Follows(ctx, i, s) ==
    /\ s \in Seq(DOMAIN ctx.rows)
    /\ Range(s) = UNION {Range(Queued(ctx, i, k)) : k \in DOMAIN ctx.rows[i].bases}

\* parent_classes has the rows queued for each base.
LEMMA ParentsAre ==
    ASSUME NEW ctx, Consistent(ctx.rows), NEW i \in DOMAIN ctx.rows
    PROVE  Follows(ctx, i, parent_classes(ctx, i))
<1> DEFINE bases == ctx.rows[i].bases
           q == [k \in DOMAIN bases |-> Queued(ctx, i, k)]
<1>1. bases \in Seq(Names) /\ DOMAIN bases = 1..Len(bases) /\ Len(bases) \in Nat
  BY ClassRowsAre
<1>2. \A k \in DOMAIN bases : q[k] = Queued(ctx, i, k) /\ q[k] \in Seq(DOMAIN ctx.rows)
  BY QueuedIs DEF Finds
<1>3. q = [k \in DOMAIN bases |-> q[k]] /\ parent_classes(ctx, i) = FlattenSeq(q)
  BY DEF parent_classes
<1> HIDE DEF q
<1>4. q \in Seq(Seq(DOMAIN ctx.rows)) /\ Len(q) = Len(bases)
  <2> DEFINE V == Seq(DOMAIN ctx.rows)
  <2>1. \A k \in DOMAIN bases : q[k] \in V
    BY <1>2
  <2>2. q = [k \in DOMAIN bases |-> q[k]]
    BY <1>3
  <2> HIDE DEF bases, V
  <2>3. q \in Seq(V) /\ Len(q) = Len(bases)
    BY <1>1, <2>1, <2>2, IsSeq
  <2> QED BY <2>3 DEF V
<1>5. /\ FlattenSeq(q) \in Seq(DOMAIN ctx.rows)
      /\ Range(FlattenSeq(q)) = UNION {Range(q[j]) : j \in 1..Len(q)}
  BY <1>4, FlatRange
<1>6. UNION {Range(q[j]) : j \in 1..Len(q)} = UNION {Range(Queued(ctx, i, k)) : k \in DOMAIN bases}
  <2>1. DOMAIN bases = 1..Len(q)
    BY <1>1, <1>4
  <2>2. \A j \in 1..Len(q) : Range(q[j]) = Range(Queued(ctx, i, j))
    BY <1>2, <2>1
  <2> HIDE DEF bases
  <2> QED BY <2>1, <2>2
<1> QED BY <1>3, <1>5, <1>6 DEF Follows

-----------------------------------------------------------------------------
\* The rows that goto follows.

\* get_class_ids has the rows of the name that have their file.
LEMMA ClassIdsAre ==
    ASSUME NEW db, Consistent(db), NEW n
    PROVE  /\ get_class_ids(db, n) \in Seq(DOMAIN db)
           /\ Range(get_class_ids(db, n)) = {i \in DOMAIN db : db[i].live /\ db[i].name = n}
<1> DEFINE ids == {i \in DOMAIN db : db[i].live /\ db[i].name = n}
           head == [i \in ids |-> IF db[i].file \in Headers THEN 0 ELSE 1]
           line == [i \in ids |-> db[i].line]
           Before(i, j) ==
             LET hi == db[i].file \in Headers
                 hj == db[j].file \in Headers
             IN  IF hi # hj THEN hi
                 ELSE db[i].line < db[j].line \/ (db[i].line = db[j].line /\ i < j)
           before == {p \in ids \X ids : Before(p[1], p[2])}
           s == Sorted(ids, before)
<1>1. get_class_ids(db, n) = s
  BY DEF get_class_ids
<1>2. IsFiniteSet(ids) /\ ids \subseteq Nat /\ \A i \in ids : db[i].line \in Nat
  BY ClassRowsAre, FS_Subset
<1>3. WeakOrder(ids, before)
  <2> SUFFICES /\ \A x, y \in ids : Before(x, y) => ~Before(y, x)
               /\ \A x, y, z \in ids : Before(x, z) => Before(x, y) \/ Before(y, z)
    BY DEF WeakOrder
  <2>1. \A i \in ids : line[i] \in Nat /\ head[i] \in {0, 1}
    BY <1>2
  <2>2. \A i, j \in ids : Before(i, j) <=>
           \/ head[i] < head[j]
           \/ head[i] = head[j] /\ (line[i] < line[j] \/ (line[i] = line[j] /\ i < j))
    OBVIOUS
  <2> HIDE DEF line, head, Before, ids
  <2> QED BY <1>2, <2>1, <2>2
<1> HIDE DEF before
<1>4. s \in Seq(ids) /\ Range(s) = ids
  <2> HIDE DEF ids
  <2> QED BY <1>2, <1>3, SortedIs
<1>5. s \in Seq(DOMAIN db)
  <2>1. ids \subseteq DOMAIN db
    OBVIOUS
  <2> HIDE DEF s, ids
  <2> QED BY <1>4, <2>1
<1> QED BY <1>1, <1>4, <1>5

LinkedRows(db, i) ==
    UNION {IF db[i].links[k] # 0 THEN {db[i].links[k]}
           ELSE {j \in DOMAIN db : db[j].live /\ db[j].name = db[i].bases[k]} : k \in DOMAIN db[i].bases}

\* get_parent_ids has the rows that links name, or bases without one.
LEMMA ParentIdsAre ==
    ASSUME NEW db, Consistent(db), NEW i \in DOMAIN db
    PROVE  /\ get_parent_ids(db, i) \in Seq(DOMAIN db) /\ Range(get_parent_ids(db, i)) = LinkedRows(db, i)
           /\ \A j \in LinkedRows(db, i) : \E k \in DOMAIN db[i].bases : db[j].name = db[i].bases[k]
<1> DEFINE ids == UNION {IF db[i].links[k] # 0 THEN {db[i].links[k]}
                         ELSE Range(get_class_ids(db, db[i].bases[k])) : k \in DOMAIN db[i].bases}
           before == {p \in ids \X ids : p[1] < p[2]}
           s == Sorted(ids, before)
<1>1. get_parent_ids(db, i) = s
  BY DEF get_parent_ids
<1>2. ids = LinkedRows(db, i)
  BY ClassIdsAre DEF LinkedRows
<1>3. \A k \in DOMAIN db[i].bases :
         db[i].links[k] # 0 => db[i].links[k] \in DOMAIN db /\ db[db[i].links[k]].name = db[i].bases[k]
  BY ClassRowsAre DEF Linked
<1>4. \A j \in LinkedRows(db, i) : j \in DOMAIN db /\ \E k \in DOMAIN db[i].bases : db[j].name = db[i].bases[k]
  BY <1>3 DEF LinkedRows
<1> HIDE DEF ids
<1>5. ids \subseteq DOMAIN db
  BY <1>2, <1>4
<1>6. IsFiniteSet(ids) /\ ids \subseteq Nat
  BY <1>5, ClassRowsAre, FS_Subset
<1>7. WeakOrder(ids, before)
  BY <1>6 DEF WeakOrder
<1> HIDE DEF before
<1>8. s \in Seq(ids) /\ Range(s) = ids
  BY <1>6, <1>7, SortedIs
<1>9. s \in Seq(DOMAIN db)
  <2> HIDE DEF s
  <2> QED BY <1>5, <1>8
<1> QED BY <1>1, <1>2, <1>4, <1>8, <1>9

-----------------------------------------------------------------------------
\* A turn of the walk that lists members.

\* What is listed of a row.
MemberItems(ctx, i, how) ==
    {[label |-> m.label, owner |-> ctx.rows[i].name, type |-> m.type] : m \in AccessibleMembers(ctx, ctx.rows[i], how)}

Appends(ctx, i, how, items, t) ==
    /\ t \in Seq(Items) /\ Range(items) \subseteq Range(t)
    /\ Range(t) \subseteq Range(items) \union MemberItems(ctx, i, how)
    /\ Cardinality(ctx.rows[i].members) <= MaxPerClass => MemberItems(ctx, i, how) \subseteq Range(t)

\* The items of a row are finitely many, no more than its members.
LEMMA MemberItemsAre ==
    ASSUME NEW ctx, Consistent(ctx.rows), NEW i \in DOMAIN ctx.rows, NEW how
    PROVE  /\ MemberItems(ctx, i, how) \subseteq Items /\ IsFiniteSet(MemberItems(ctx, i, how))
           /\ Cardinality(MemberItems(ctx, i, how)) <= Cardinality(ctx.rows[i].members)
<1> DEFINE cls == ctx.rows[i]
           M == AccessibleMembers(ctx, cls, how)
           f == [m \in M |-> [label |-> m.label, owner |-> cls.name, type |-> m.type]]
<1>1. cls \in ClassRows /\ IsFiniteSet(cls.members)
  BY ClassRowsAre DEF Linked
<1>2. M \in SUBSET cls.members
  BY DEF AccessibleMembers
<1>3. cls.members \in SUBSET MemberRecords /\ cls.name \in Names
  BY <1>1 DEF ClassRows
<1> HIDE DEF M, cls
<1>4. IsFiniteSet(M) /\ Cardinality(M) <= Cardinality(cls.members) /\ Cardinality(M) \in Nat
  BY <1>1, <1>2, FS_Subset, FS_CardinalityType
<1>5. MemberItems(ctx, i, how) = {f[m] : m \in M}
  BY DEF MemberItems, M, cls
<1>6. \A m \in M : f[m] \in Items
  BY <1>2, <1>3 DEF MemberRecords, Items
<1>7. DOMAIN f = M
  OBVIOUS
<1> HIDE DEF f
<1>8. IsFiniteSet({f[m] : m \in M}) /\ Cardinality({f[m] : m \in M}) <= Cardinality(M)
  BY <1>4, <1>7, ImageIs
<1>9. Cardinality({f[m] : m \in M}) \in Nat /\ Cardinality(cls.members) \in Nat
  BY <1>1, <1>8, FS_CardinalityType
<1>10. Cardinality({f[m] : m \in M}) <= Cardinality(cls.members)
  BY <1>4, <1>8, <1>9
<1> QED BY <1>5, <1>6, <1>8, <1>10 DEF cls

\* append_members_for_class adds items of the row, and all of them if they are few.
LEMMA AppendedIs ==
    ASSUME NEW ctx, Consistent(ctx.rows), NEW i \in DOMAIN ctx.rows, NEW how, NEW items \in Seq(Items)
    PROVE  Appends(ctx, i, how, items, Appended(ctx, ctx.rows[i], how, items))
<1> DEFINE all == MemberItems(ctx, i, how)
           new == all \ Range(items)
           s == SetToSeq(new)
           c == Cut(s, MaxPerClass)
<1>1. Appended(ctx, ctx.rows[i], how, items) = items \o c
  BY DEF Appended, MemberItems
<1>2. /\ all \subseteq Items /\ IsFiniteSet(all) /\ Cardinality(all) <= Cardinality(ctx.rows[i].members)
      /\ IsFiniteSet(ctx.rows[i].members)
  BY MemberItemsAre, ClassRowsAre DEF Linked
<1> HIDE DEF all
<1>3. IsFiniteSet(new) /\ Cardinality(new) <= Cardinality(all) /\ new \in SUBSET Items
  BY <1>2, FS_Subset
<1>4. Cardinality(new) \in Nat /\ Cardinality(all) \in Nat /\ Cardinality(ctx.rows[i].members) \in Nat
  BY <1>2, <1>3, FS_CardinalityType
<1>5. s \in Seq(new) /\ Len(s) = Cardinality(new) /\ Range(s) = new
  <2> HIDE DEF new
  <2> QED BY <1>3, SetSeq
<1>6. s \in Seq(Items)
  <2> HIDE DEF s, new
  <2> QED BY <1>3, <1>5
<1>7. MaxPerClass \in Nat
  BY MembersAssumption
<1>8. /\ Range(c) \subseteq Range(s)
      /\ Len(s) <= MaxPerClass => c = s
  <2> HIDE DEF s
  <2> QED BY <1>6, <1>7, CutOf
<1>9. c \in Seq(Items)
  <2> HIDE DEF s
  <2>1. Len(s) \in Nat
    BY <1>6
  <2> QED BY <1>6, <1>7, <2>1 DEF Cut
<1>10. items \o c \in Seq(Items) /\ Range(items \o c) = Range(items) \union Range(c)
  <2> HIDE DEF c
  <2> QED BY <1>9, ConcatIs
<1>11. Cardinality(ctx.rows[i].members) <= MaxPerClass => Range(c) = new
  <2> HIDE DEF c, s, new
  <2> QED BY <1>2, <1>3, <1>4, <1>5, <1>7, <1>8
<1> HIDE DEF c, s
<1> QED BY <1>1, <1>5, <1>8, <1>10, <1>11 DEF Appends, all

-----------------------------------------------------------------------------
\* The loop of fetch_members_recursive.

MetBy(s) == s.visited \union Range(s.queue)

\* One turn of it.
Gathers(ctx, how, s, t) ==
    LET X == DOMAIN ctx.rows
        i == Head(s.queue)
        bases == ctx.rows[i].bases
        known == s.names \union {ctx.rows[i].name}
    IN  /\ t \in Collecting(X) /\ i \in X /\ i \in MetBy(s) /\ t.visited = s.visited \union {i}
        /\ MetBy(s) \subseteq MetBy(t)
        /\ i \in s.visited => MetBy(t) = MetBy(s) /\ t.names = s.names /\ t.items = s.items
        /\ i \notin s.visited =>
              /\ \A j \in MetBy(t) : j \in MetBy(s) \/ \E k \in DOMAIN bases : j \in Range(Queued(ctx, i, k))
              /\ \A k \in DOMAIN bases :
                    bases[k] \in known \/ Range(class_ids_by_name(ctx, bases[k])) \subseteq MetBy(t)
              /\ t.names = known \union Range(bases)
              /\ Appends(ctx, i, how, s.items, t.items)

Nearer(X, s, t) ==
    /\ Cardinality(X \ t.visited) \in Nat /\ Cardinality(X \ s.visited) \in Nat
    /\ Len(t.queue) \in Nat /\ Len(s.queue) \in Nat
    /\ \/ Cardinality(X \ t.visited) < Cardinality(X \ s.visited)
       \/ Cardinality(X \ t.visited) = Cardinality(X \ s.visited) /\ Len(t.queue) < Len(s.queue)

\* A turn of fetch_members_recursive at a row that was visited.
LEMMA CollectSkips ==
    ASSUME NEW ctx, Consistent(ctx.rows), NEW how, NEW s \in Collecting(DOMAIN ctx.rows),
           s.queue # << >>, Head(s.queue) \in s.visited
    PROVE  Gathers(ctx, how, s, Collect(ctx, s, how)) /\ Nearer(DOMAIN ctx.rows, s, Collect(ctx, s, how))
<1> DEFINE X == DOMAIN ctx.rows
           q == s.queue
           t == Collect(ctx, s, how)
<1>1. /\ s \in [queue : Seq(X), visited : SUBSET X, names : SUBSET Names, items : Seq(Items)]
      /\ q \in Seq(X) /\ s.visited \in SUBSET X
  BY DEF Collecting
<1>2. /\ Head(q) \in X /\ Tail(q) \in Seq(X) /\ Len(Tail(q)) < Len(q)
      /\ Range(q) = {Head(q)} \union Range(Tail(q))
  <2> HIDE DEF q
  <2> QED BY <1>1, HeadTail DEF q
<1>3. t = [s EXCEPT !.queue = Tail(q)]
  BY DEF Collect
<1>4. /\ t \in Collecting(X) /\ t.queue = Tail(q) /\ t.visited = s.visited /\ t.names = s.names
      /\ t.items = s.items
  BY <1>1, <1>2, <1>3 DEF Collecting
<1> HIDE DEF t
<1>5. MetBy(t) = MetBy(s) /\ Head(q) \in MetBy(s) /\ t.visited = s.visited \union {Head(q)}
  BY <1>2, <1>4 DEF MetBy
<1>6. Gathers(ctx, how, s, t)
  BY <1>2, <1>4, <1>5 DEF Gathers
<1>7. IsFiniteSet(X)
  BY ClassRowsAre
<1>8. Cardinality(X \ s.visited) \in Nat /\ Len(t.queue) \in Nat /\ Len(q) \in Nat
  <2>1. IsFiniteSet(X \ s.visited)
    <3> HIDE DEF X
    <3> QED BY <1>7, FS_Difference
  <2>2. Cardinality(X \ s.visited) \in Nat
    BY <2>1, FS_CardinalityType
  <2>3. Len(t.queue) \in Nat /\ Len(q) \in Nat
    <3> HIDE DEF X, q
    <3> QED BY <1>1, <1>2, <1>4
  <2> QED BY <2>2, <2>3
<1>9. Nearer(X, s, t)
  BY <1>2, <1>4, <1>8 DEF Nearer
<1> QED BY <1>6, <1>9 DEF t

\* A turn of fetch_members_recursive at a row that was not visited.
LEMMA CollectMeets ==
    ASSUME NEW ctx, Consistent(ctx.rows), NEW how, NEW s \in Collecting(DOMAIN ctx.rows),
           s.queue # << >>, Head(s.queue) \notin s.visited
    PROVE  Gathers(ctx, how, s, Collect(ctx, s, how)) /\ Nearer(DOMAIN ctx.rows, s, Collect(ctx, s, how))
<1> DEFINE X == DOMAIN ctx.rows
           q == s.queue
           i == Head(q)
           cls == ctx.rows[i]
           bases == cls.bases
           n == Len(bases)
           MetUpTo(k) == s.names \union {cls.name} \union {bases[j] : j \in 1..(k - 1)}
           more == [k \in DOMAIN bases |-> IF bases[k] \in MetUpTo(k) THEN << >> ELSE Queued(ctx, i, k)]
           flat == FlattenSeq(more)
           t == Collect(ctx, s, how)
<1>1. /\ s \in [queue : Seq(X), visited : SUBSET X, names : SUBSET Names, items : Seq(Items)]
      /\ q \in Seq(X) /\ s.visited \in SUBSET X /\ s.items \in Seq(Items) /\ s.names \in SUBSET Names
  BY DEF Collecting
<1>2. /\ i \in X /\ Tail(q) \in Seq(X) /\ Len(Tail(q)) < Len(q)
      /\ Range(q) = {i} \union Range(Tail(q))
  <2> HIDE DEF q
  <2> QED BY <1>1, HeadTail DEF q
<1>3. t = [queue |-> Tail(q) \o flat, visited |-> s.visited \union {i}, names |-> MetUpTo(n + 1),
           items |-> Appended(ctx, cls, how, s.items)]
  BY DEF Collect
<1> HIDE DEF q, i
<1>4. cls.name \in Names /\ bases \in Seq(Names) /\ n \in Nat /\ DOMAIN bases = 1..n
  BY <1>2, ClassRowsAre
<1>5. \A k \in DOMAIN bases :
         /\ more[k] \in Seq(X) /\ Range(more[k]) \subseteq Range(Queued(ctx, i, k))
         /\ bases[k] \notin MetUpTo(k) => more[k] = Queued(ctx, i, k)
  <2>1. \A k \in DOMAIN bases : Queued(ctx, i, k) \in Seq(X)
    BY <1>2, QueuedIs DEF Finds
  <2> QED BY <2>1, EmptyIs
<1>6. flat \in Seq(X) /\ Range(flat) = UNION {Range(more[k]) : k \in 1..n}
  <2> DEFINE V == Seq(X)
  <2>1. \A k \in DOMAIN bases : more[k] \in V
    BY <1>5
  <2>2. more = [k \in DOMAIN bases |-> more[k]]
    OBVIOUS
  <2>3. more \in Seq(V) /\ Len(more) = n
    <3> HIDE DEF bases, V, more
    <3> QED BY <1>4, <2>1, <2>2, IsSeq
  <2> HIDE DEF more
  <2> QED BY <2>3, FlatRange
<1>7. Appends(ctx, i, how, s.items, Appended(ctx, cls, how, s.items))
  BY <1>1, <1>2, AppendedIs
<1>8. MetUpTo(n + 1) = s.names \union {cls.name} \union Range(bases)
  <2>1. Range(bases) = {bases[j] : j \in 1..n}
    <3> HIDE DEF bases
    <3> QED BY <1>4, RangeIs
  <2>2. (n + 1) - 1 = n
    BY <1>4
  <2>3. MetUpTo(n + 1) = s.names \union {cls.name} \union {bases[j] : j \in 1..((n + 1) - 1)}
    OBVIOUS
  <2> HIDE DEF MetUpTo, bases, n
  <2> QED BY <2>1, <2>2, <2>3
<1>9. MetUpTo(n + 1) \in SUBSET Names
  <2>1. Range(bases) \subseteq Names
    BY <1>4, RangeIs
  <2> HIDE DEF bases, n
  <2> QED BY <1>1, <1>4, <1>8, <2>1
<1>10. ASSUME NEW k \in DOMAIN bases
       PROVE  bases[k] \in s.names \union {cls.name} \/ Range(class_ids_by_name(ctx, bases[k])) \subseteq Range(flat)
  <2> DEFINE same == {j \in 1..n : bases[j] = bases[k]}
  <2>1. same \in SUBSET Nat /\ k \in same
    BY <1>4
  <2>2. PICK j \in same : \A l \in same : j <= l
    <3> HIDE DEF same
    <3> QED BY <2>1, NatMin
  <2>3. j \in 1..n /\ bases[j] = bases[k]
    OBVIOUS
  <2>4. \A l \in 1..(j - 1) : bases[l] # bases[j]
    <3>1. \A l \in 1..(j - 1) : l \in 1..n /\ ~(j <= l)
      BY <1>4, <2>3
    <3> HIDE DEF bases
    <3> QED BY <2>2, <2>3, <3>1
  <2>5. bases[j] \in MetUpTo(j) => bases[j] \in s.names \union {cls.name}
    BY <2>4
  <2>6. bases[j] \notin MetUpTo(j) => more[j] = Queued(ctx, i, j)
    BY <1>4, <1>5, <2>3
  <2>7. Range(class_ids_by_name(ctx, bases[j])) \subseteq Range(Queued(ctx, i, j))
    BY <1>2, <1>4, <2>3, QueuedIs
  <2> HIDE DEF more, MetUpTo, bases, flat
  <2>8. bases[j] \notin MetUpTo(j) => Range(class_ids_by_name(ctx, bases[j])) \subseteq Range(flat)
    BY <1>6, <2>3, <2>6, <2>7
  <2> QED BY <2>3, <2>5, <2>8
<1>11. \A j \in Range(flat) : \E k \in DOMAIN bases : j \in Range(Queued(ctx, i, k))
  <2> HIDE DEF more, flat
  <2> QED BY <1>4, <1>5, <1>6
<1> HIDE DEF more, flat, MetUpTo, X
<1>12. Tail(q) \o flat \in Seq(X) /\ Range(Tail(q) \o flat) = Range(Tail(q)) \union Range(flat)
  <2> DEFINE l == Tail(q)
  <2> HIDE DEF l
  <2>1. l \in Seq(X)
    BY <1>2 DEF l
  <2>2. l \o flat \in Seq(X) /\ Range(l \o flat) = Range(l) \union Range(flat)
    BY <1>6, <2>1, ConcatIs
  <2> QED BY <2>2 DEF l
<1>13. /\ t \in Collecting(X) /\ t.queue = Tail(q) \o flat /\ t.visited = s.visited \union {i}
       /\ t.names = MetUpTo(n + 1) /\ t.items = Appended(ctx, cls, how, s.items)
  <2>1. Appended(ctx, cls, how, s.items) \in Seq(Items)
    BY <1>7 DEF Appends
  <2> QED BY <1>1, <1>2, <1>3, <1>9, <1>12, <2>1 DEF Collecting
<1> HIDE DEF t
<1>14. MetBy(t) = MetBy(s) \union Range(flat) /\ i \in MetBy(s)
  BY <1>2, <1>12, <1>13 DEF MetBy, q
<1>15. Gathers(ctx, how, s, t)
  <2>1. \A k \in DOMAIN bases :
           bases[k] \in s.names \union {cls.name} \/ Range(class_ids_by_name(ctx, bases[k])) \subseteq MetBy(t)
    BY <1>10, <1>14
  <2>2. \A j \in MetBy(t) : j \in MetBy(s) \/ \E k \in DOMAIN bases : j \in Range(Queued(ctx, i, k))
    BY <1>11, <1>14
  <2>3. i \notin s.visited
    BY DEF i, q
  <2> QED BY <1>2, <1>7, <1>8, <1>13, <1>14, <2>1, <2>2, <2>3 DEF Gathers, i, q, X
<1>16. IsFiniteSet(X)
  BY ClassRowsAre DEF X
<1>17. Nearer(X, s, t)
  <2>1. Len(t.queue) \in Nat /\ Len(s.queue) \in Nat
    BY <1>1, <1>12, <1>13 DEF q
  <2>2. s.visited \subseteq t.visited /\ i \in t.visited /\ i \notin s.visited
    BY <1>13 DEF i, q
  <2>3. /\ Cardinality(X \ t.visited) \in Nat /\ Cardinality(X \ s.visited) \in Nat
        /\ Cardinality(X \ t.visited) < Cardinality(X \ s.visited)
    BY <1>2, <1>16, <2>2, FewerLeft
  <2> QED BY <2>1, <2>3 DEF Nearer
<1> QED BY <1>15, <1>17 DEF t, X

-----------------------------------------------------------------------------
\* The walk that lists members.

\* What each row leads to in completion's walks.
Bases(ctx) == [i \in DOMAIN ctx.rows |-> parent_classes(ctx, i)]

\* What fetch_members_recursive follows from each row.
LEMMA BasesAre ==
    ASSUME NEW ctx, Consistent(ctx.rows)
    PROVE  /\ Bases(ctx) \in [DOMAIN ctx.rows -> Seq(DOMAIN ctx.rows)]
           /\ \A i \in DOMAIN ctx.rows : Follows(ctx, i, Bases(ctx)[i])
BY ParentsAre DEF Bases, Follows

FewMembers(ctx) == \A i \in DOMAIN ctx.rows : Cardinality(ctx.rows[i].members) <= MaxPerClass

(* What the loop knows of n: it met the rows of n and nothing that a walk from them
   does not, all rows of each name it knows, the items are of rows it visited, and all
   that they have. *)
Gathered(ctx, n, how, s) ==
    /\ s \in Collecting(DOMAIN ctx.rows)
    /\ \A C \in ClosedSets(DOMAIN ctx.rows, class_ids_by_name(ctx, n), Bases(ctx)) : MetBy(s) \subseteq C
    /\ Range(class_ids_by_name(ctx, n)) \subseteq MetBy(s)
    /\ \A x \in s.names : Range(class_ids_by_name(ctx, x)) \subseteq MetBy(s)
    /\ \A i \in MetBy(s) : Range(class_ids_by_name(ctx, ctx.rows[i].name)) \subseteq MetBy(s)
    /\ \A i \in s.visited : Range(ctx.rows[i].bases) \subseteq s.names
    /\ \A x \in Range(s.items) : \E i \in s.visited : x \in MemberItems(ctx, i, how)
    /\ FewMembers(ctx) => \A i \in s.visited : MemberItems(ctx, i, how) \subseteq Range(s.items)

Started(ctx, n) == [queue |-> class_ids_by_name(ctx, n), visited |-> {}, names |-> {}, items |-> << >>]

\* The loop of fetch_members_recursive begins so.
LEMMA GatheredStarts ==
    ASSUME NEW ctx, Consistent(ctx.rows), NEW n, NEW how
    PROVE  Gathered(ctx, n, how, Started(ctx, n))
<1> DEFINE q == class_ids_by_name(ctx, n)
           s == Started(ctx, n)
<1>1. q \in Seq(DOMAIN ctx.rows) /\ Range(q) \subseteq Named(ctx.rows, n)
  BY NamedIs DEF Finds
<1>2. s.queue = q /\ s.visited = {} /\ s.names = {} /\ s.items = << >>
  BY DEF Started
<1>3. s \in Collecting(DOMAIN ctx.rows)
  BY <1>1, EmptyIs DEF Started, Collecting
<1> HIDE DEF s
<1>4. MetBy(s) = Range(q)
  BY <1>2 DEF MetBy
<1>5. \A i \in Range(q) : ctx.rows[i].name = n
  BY <1>1 DEF Named
<1>6. Gathered(ctx, n, how, s)
  BY <1>2, <1>3, <1>4, <1>5, EmptyIs DEF Gathered, ClosedSets
<1> QED BY <1>6 DEF s

\* Its turns keep it so.
LEMMA GatheredKeeps ==
    ASSUME NEW ctx, Consistent(ctx.rows), NEW n, NEW how, NEW s, NEW t,
           Gathered(ctx, n, how, s), Gathers(ctx, how, s, t)
    PROVE  Gathered(ctx, n, how, t)
<1> DEFINE X == DOMAIN ctx.rows
           i == Head(s.queue)
           cls == ctx.rows[i]
           bases == cls.bases
           known == s.names \union {cls.name}
           IdsOf(x) == Range(class_ids_by_name(ctx, x))
<1>1. /\ t \in Collecting(X) /\ i \in X /\ i \in MetBy(s) /\ t.visited = s.visited \union {i}
      /\ MetBy(s) \subseteq MetBy(t)
      /\ i \in s.visited => MetBy(t) = MetBy(s) /\ t.names = s.names /\ t.items = s.items
      /\ i \notin s.visited =>
              /\ \A j \in MetBy(t) : j \in MetBy(s) \/ \E k \in DOMAIN bases : j \in Range(Queued(ctx, i, k))
              /\ \A k \in DOMAIN bases : bases[k] \in known \/ IdsOf(bases[k]) \subseteq MetBy(t)
              /\ t.names = known \union Range(bases)
              /\ Appends(ctx, i, how, s.items, t.items)
  BY DEF Gathers
<1>2. CASE i \in s.visited
  <2>1. MetBy(t) = MetBy(s) /\ t.names = s.names /\ t.items = s.items /\ t.visited = s.visited
    BY <1>1, <1>2
  <2> QED BY <1>1, <2>1 DEF Gathered
<1>3. CASE i \notin s.visited
  <2>1. \A C \in ClosedSets(X, class_ids_by_name(ctx, n), Bases(ctx)) : MetBy(t) \subseteq C
    <3> SUFFICES ASSUME NEW C \in ClosedSets(X, class_ids_by_name(ctx, n), Bases(ctx)) PROVE MetBy(t) \subseteq C
      OBVIOUS
    <3>1. MetBy(s) \subseteq C /\ i \in C
      BY <1>1 DEF Gathered
    <3>2. Range(Bases(ctx)[i]) \subseteq C
      BY <3>1 DEF ClosedSets
    <3>3. Range(Bases(ctx)[i]) = UNION {Range(Queued(ctx, i, k)) : k \in DOMAIN bases}
      BY <1>1, BasesAre DEF Follows
    <3> HIDE DEF bases
    <3> QED BY <1>1, <1>3, <3>1, <3>2, <3>3
  <2>2. IdsOf(n) \subseteq MetBy(t)
    BY <1>1 DEF Gathered
  <2>3. \A x \in known : IdsOf(x) \subseteq MetBy(t)
    <3>1. \A x \in s.names : IdsOf(x) \subseteq MetBy(s)
      BY DEF Gathered
    <3>2. IdsOf(cls.name) \subseteq MetBy(s)
      BY <1>1 DEF Gathered
    <3> QED BY <1>1, <3>1, <3>2
  <2>4. \A k \in DOMAIN bases : IdsOf(bases[k]) \subseteq MetBy(t)
    <3> HIDE DEF bases, known, IdsOf
    <3> QED BY <1>1, <1>3, <2>3
  <2>5. Range(bases) = {bases[k] : k \in DOMAIN bases} /\ bases \in Seq(Names)
    BY <1>1, ClassRowsAre DEF Range
  <2>6. \A x \in t.names : IdsOf(x) \subseteq MetBy(t)
    <3> HIDE DEF bases, known, IdsOf
    <3> QED BY <1>1, <1>3, <2>3, <2>4, <2>5
  <2>7. \A j \in MetBy(t) : IdsOf(ctx.rows[j].name) \subseteq MetBy(t)
    <3> SUFFICES ASSUME NEW j \in MetBy(t) PROVE IdsOf(ctx.rows[j].name) \subseteq MetBy(t)
      OBVIOUS
    <3>1. CASE j \in MetBy(s)
      BY <1>1, <3>1 DEF Gathered
    <3>2. CASE j \notin MetBy(s)
      <4>1. PICK k \in DOMAIN bases : j \in Range(Queued(ctx, i, k))
        <5> HIDE DEF bases
        <5> QED BY <1>1, <1>3, <3>2
      <4>2. ctx.rows[j].name = bases[k]
        <5>1. Finds(ctx, bases[k], Queued(ctx, i, k))
          BY <1>1, QueuedIs
        <5> QED BY <4>1, <5>1 DEF Finds, Named
      <4> QED BY <2>4, <4>2
    <3> QED BY <3>1, <3>2
  <2>8. \A j \in t.visited : Range(ctx.rows[j].bases) \subseteq t.names
    BY <1>1, <1>3 DEF Gathered
  <2>9. /\ Range(s.items) \subseteq Range(t.items)
        /\ Range(t.items) \subseteq Range(s.items) \union MemberItems(ctx, i, how)
        /\ Cardinality(cls.members) <= MaxPerClass => MemberItems(ctx, i, how) \subseteq Range(t.items)
    BY <1>1, <1>3 DEF Appends
  <2>10. \A x \in Range(t.items) : \E j \in t.visited : x \in MemberItems(ctx, j, how)
    <3>1. \A x \in Range(s.items) : \E j \in s.visited : x \in MemberItems(ctx, j, how)
      BY DEF Gathered
    <3> QED BY <1>1, <2>9, <3>1
  <2>11. FewMembers(ctx) => \A j \in t.visited : MemberItems(ctx, j, how) \subseteq Range(t.items)
    <3> SUFFICES ASSUME FewMembers(ctx) PROVE \A j \in t.visited : MemberItems(ctx, j, how) \subseteq Range(t.items)
      OBVIOUS
    <3>1. \A j \in s.visited : MemberItems(ctx, j, how) \subseteq Range(s.items)
      BY DEF Gathered
    <3>2. Cardinality(cls.members) <= MaxPerClass
      BY <1>1 DEF FewMembers
    <3> QED BY <1>1, <2>9, <3>1, <3>2
  <2> HIDE DEF bases, known, cls, i
  <2> QED BY <1>1, <2>1, <2>2, <2>6, <2>7, <2>8, <2>10, <2>11 DEF Gathered
<1> QED BY <1>2, <1>3

\* What is listed of n in a context.
LEMMA FetchIs ==
    ASSUME NEW ctx, Consistent(ctx.rows), NEW n, NEW how
    PROVE  \E s : /\ Gathered(ctx, n, how, s) /\ fetch_members_recursive(ctx, n, how) = s.items
                  /\ s.queue = << >> \/ Len(s.items) >= MaxItems
<1> DEFINE X == DOMAIN ctx.rows
           D == Collecting(X)
           done == {s \in D : s.queue = << >> \/ Len(s.items) >= MaxItems}
           step == [s \in D |-> Collect(ctx, s, how)]
           P == {s \in D : Gathered(ctx, n, how, s)}
           a == [s \in P |-> Cardinality(X \ s.visited)]
           b == [s \in P |-> Len(s.queue)]
           start == Started(ctx, n)
           end == Loop(start, done, step)
<1>1. ASSUME NEW s \in D, s \notin done
      PROVE  /\ step[s] = Collect(ctx, s, how)
             /\ Gathers(ctx, how, s, step[s]) /\ Nearer(X, s, step[s]) /\ step[s] \in D
  <2>1. s.queue # << >>
    BY <1>1
  <2>2. Gathers(ctx, how, s, Collect(ctx, s, how)) /\ Nearer(X, s, Collect(ctx, s, how))
    BY <2>1, CollectSkips, CollectMeets
  <2>3. step[s] = Collect(ctx, s, how)
    OBVIOUS
  <2> HIDE DEF step
  <2> QED BY <2>2, <2>3 DEF Gathers
<1>2. IsLoop(D, done, step)
  BY <1>1 DEF IsLoop
<1>3. IsFiniteSet(X)
  BY ClassRowsAre
<1>4. Shrinks(P, done, step, a, b)
  <2>1. \A s \in P : Cardinality(X \ s.visited) \in Nat
    BY <1>3, FS_Difference, FS_CardinalityType
  <2>2. \A s \in P : Len(s.queue) \in Nat
    BY DEF Collecting
  <2>3. a \in [P -> Nat] /\ b \in [P -> Nat]
    BY <2>1, <2>2
  <2>4. ASSUME NEW s \in P, s \notin done
        PROVE  /\ step[s] \in P
               /\ a[step[s]] < a[s] \/ (a[step[s]] = a[s] /\ b[step[s]] < b[s])
    <3> DEFINE t == step[s]
    <3>1. Gathers(ctx, how, s, t) /\ Nearer(X, s, t) /\ t \in D
      BY <1>1, <2>4
    <3> HIDE DEF t, done, step, D, X
    <3>2. Gathered(ctx, n, how, t)
      BY <3>1, GatheredKeeps
    <3>3. t \in P
      BY <3>1, <3>2
    <3> QED BY <3>1, <3>3 DEF Nearer, t
  <2> HIDE DEF a, b, P, done, step
  <2> QED BY <2>3, <2>4 DEF Shrinks
<1>5. start \in P
  BY GatheredStarts DEF Gathered
<1>6. end \in P /\ end \in done
  <2>1. P \in SUBSET D
    OBVIOUS
  <2> HIDE DEF P, D, done, step, a, b, start
  <2> QED BY <1>2, <1>4, <1>5, <2>1, LoopEnds
<1>7. fetch_members_recursive(ctx, n, how) = end.items
  BY DEF fetch_members_recursive, Started
<1> HIDE DEF end
<1> QED BY <1>6, <1>7

\* An item that is listed has a row in whatever has the rows of n and of their bases.
LEMMA ListedOf ==
    ASSUME NEW ctx, Consistent(ctx.rows), NEW n, NEW how
    PROVE  LET items == fetch_members_recursive(ctx, n, how)
           IN  /\ items \in Seq(Items)
               /\ \A C \in ClosedSets(DOMAIN ctx.rows, class_ids_by_name(ctx, n), Bases(ctx)) :
                     \A x \in Range(items) : \E i \in C : x \in MemberItems(ctx, i, how)
<1>1. PICK s : Gathered(ctx, n, how, s) /\ fetch_members_recursive(ctx, n, how) = s.items
  BY FetchIs
<1>2. s.visited \subseteq MetBy(s)
  BY DEF MetBy
<1>3. s.items \in Seq(Items)
  BY <1>1 DEF Gathered, Collecting
<1> QED BY <1>1, <1>2, <1>3 DEF Gathered

-----------------------------------------------------------------------------
\* Lists of members, merged.

\* One, some and more, as one list.
Joins(V, x, s, t, u) ==
    /\ u \in Seq(V) /\ Range(u) = {x} \union Range(s) \union Range(t)
    /\ Len(u) \in Nat \ {0} /\ u[1] = x

\* An item and two sequences, put together.
LEMMA ThreeJoined ==
    ASSUME NEW V, NEW x \in V, NEW s \in Seq(V), NEW t \in Seq(V)
    PROVE  Joins(V, x, s, t, <<x>> \o s \o t)
<1> DEFINE u == <<x>>
<1>1. u \in Seq(V) /\ Range(u) = {x} /\ Len(u) = 1 /\ u[1] = x
  <2>1. u \in Seq(V) /\ Len(u) = 1 /\ u[1] = x
    OBVIOUS
  <2> HIDE DEF u
  <2>2. Range(u) = {u[i] : i \in 1..1}
    BY <2>1, RangeIs
  <2> QED BY <2>1, <2>2
<1> HIDE DEF u
<1> DEFINE v == u \o s
<1>2. v \in Seq(V) /\ Range(v) = {x} \union Range(s)
  BY <1>1, ConcatIs
<1>3. Len(v) = 1 + Len(s) /\ v[1] = x
  <2>1. Len(v) = Len(u) + Len(s) /\ \A i \in 1..Len(u) : v[i] = u[i]
    BY <1>1, ConcatAt
  <2>2. 1 \in 1..Len(u)
    BY <1>1
  <2> HIDE DEF v
  <2> QED BY <1>1, <2>1, <2>2
<1> HIDE DEF v
<1>4. v \o t \in Seq(V) /\ Range(v \o t) = Range(v) \union Range(t)
  BY <1>2, ConcatIs
<1>5. /\ Len(v \o t) = Len(v) + Len(t) /\ Len(v) \in Nat /\ Len(t) \in Nat
      /\ \A i \in 1..Len(v) : (v \o t)[i] = v[i]
  BY <1>2, ConcatAt
<1>6. Len(v \o t) \in Nat \ {0} /\ (v \o t)[1] = x
  <2>1. Len(s) \in Nat /\ 1 \in 1..Len(v)
    BY <1>3, <1>5
  <2> QED BY <1>3, <1>5, <2>1
<1>7. Joins(V, x, s, t, v \o t)
  BY <1>2, <1>4, <1>6 DEF Joins
<1> QED BY <1>7 DEF u, v

-----------------------------------------------------------------------------
\* merge_completion_items.

LabelsOf(s) == {x.label : x \in Range(s)}

\* What a list becomes when another is merged into it.
Merges(target, extra, t) ==
    /\ t \in Seq(Items) /\ Range(target) \subseteq Range(t) /\ Range(t) \subseteq Range(target) \union Range(extra)
    /\ Len(target) <= Len(t)
    /\ Len(t) < MaxItems => LabelsOf(extra) \subseteq LabelsOf(t)

\* An item more, or one of its label is there.
LEMMA MergedIs ==
    ASSUME NEW target \in Seq(Items), NEW x \in Items
    PROVE  LET t == Merged(target, x)
           IN  /\ t \in Seq(Items) /\ Range(target) \subseteq Range(t) /\ Range(t) \subseteq Range(target) \union {x}
               /\ Len(target) <= Len(t) /\ Len(t) \in Nat
               /\ Len(t) < MaxItems => x.label \in LabelsOf(t)
<1> DEFINE t == Merged(target, x)
<1>1. Len(target) \in Nat /\ MaxItems \in Nat
  BY MembersAssumption
<1>2. CASE Len(target) >= MaxItems
  <2>1. t = target
    BY <1>2 DEF Merged
  <2> QED BY <1>1, <1>2, <2>1
<1>3. CASE ~(Len(target) >= MaxItems) /\ \E i \in DOMAIN target : target[i].label = x.label
  <2>1. t = target
    BY <1>3 DEF Merged
  <2>2. x.label \in LabelsOf(target)
    BY <1>3 DEF LabelsOf, Range
  <2> QED BY <1>1, <2>1, <2>2
<1>4. CASE ~(Len(target) >= MaxItems) /\ ~\E i \in DOMAIN target : target[i].label = x.label
  <2>1. t = Append(target, x)
    BY <1>4 DEF Merged
  <2>2. t \in Seq(Items) /\ Len(t) = Len(target) + 1 /\ Range(t) = Range(target) \union {x}
    BY <2>1, AppendIs
  <2> HIDE DEF t
  <2>3. x.label \in LabelsOf(t)
    BY <2>2 DEF LabelsOf
  <2> QED BY <1>1, <2>2, <2>3 DEF t
<1> QED BY <1>2, <1>3, <1>4

\* merge_completion_items adds what the list has no label of.
LEMMA MergesIs ==
    ASSUME NEW target \in Seq(Items), NEW extra \in Seq(Items)
    PROVE  Merges(target, extra, merge_completion_items(target, extra))
<1> DEFINE n == Len(extra)
           A == Seq(Items)
           step == [p \in A \X (1..n) |-> Merged(p[1], extra[p[2]])]
           merged == CHOOSE merged : merged = [i \in 0..n |-> IF i = 0 THEN target ELSE Merged(merged[i - 1], extra[i])]
<1>1. n \in Nat /\ \A i \in 1..n : extra[i] \in Items
  OBVIOUS
<1>2. step \in Steps(A, n)
  <2>1. \A p \in A \X (1..n) : Merged(p[1], extra[p[2]]) \in A
    BY <1>1, MergedIs
  <2> QED BY <2>1 DEF Steps
<1>3. PICK acc : IsRun(A, target, n, step, acc)
  <2> HIDE DEF A, step
  <2>1. target \in A
    BY DEF A
  <2> QED BY <1>1, <1>2, <2>1, LoopExists
<1>4. /\ acc \in [0..n -> A] /\ acc[0] = target
      /\ \A i \in 1..n : i - 1 \in 0..n /\ acc[i - 1] \in A /\ acc[i] = Merged(acc[i - 1], extra[i])
  <2>1. acc \in [0..n -> A] /\ acc[0] = target /\ \A i \in 1..n : acc[i] = step[<<acc[i - 1], i>>]
    BY <1>3 DEF IsRun
  <2>2. \A i \in 1..n : i - 1 \in 0..n /\ acc[i - 1] \in A
    BY <1>1, <2>1
  <2> QED BY <2>1, <2>2
<1>5. acc = [i \in 0..n |-> IF i = 0 THEN target ELSE Merged(acc[i - 1], extra[i])]
  <2>1. \A i \in 0..n : i = 0 \/ i \in 1..n
    BY <1>1
  <2> QED BY <1>4, <2>1
<1>6. merged = [i \in 0..n |-> IF i = 0 THEN target ELSE Merged(merged[i - 1], extra[i])]
  <2> HIDE DEF n
  <2> QED BY <1>5
<1>7. merge_completion_items(target, extra) = merged[n]
  BY DEF merge_completion_items
<1>8. merged[n] = acc[n]
  <2> HIDE DEF merged, n
  <2>1. merged[0] = acc[0]
    BY <1>1, <1>4, <1>6
  <2>2. \A i \in 1..n : i # 0 /\ i \in 0..n
    BY <1>1
  <2>3. \A i \in 1..n : merged[i] = Merged(merged[i - 1], extra[i])
    BY <1>6, <2>2
  <2>4. \A i \in 1..n : merged[i - 1] = acc[i - 1] => merged[i] = acc[i]
    BY <1>4, <2>3
  <2> QED BY <1>1, <2>1, <2>4, SameRuns
<1> HIDE DEF merged, step
<1> DEFINE G == {i \in 0..n : /\ Range(target) \subseteq Range(acc[i])
                              /\ Range(acc[i]) \subseteq Range(target) \union Range(extra)
                              /\ Len(target) <= Len(acc[i])
                              /\ Len(acc[i]) < MaxItems =>
                                    \A j \in 1..n : j <= i => extra[j].label \in LabelsOf(acc[i])}
<1>9. 0 \in G
  <2>1. \A j \in 1..n : ~(j <= 0)
    BY <1>1
  <2> QED BY <1>1, <1>4, <2>1
<1>10. ASSUME NEW i \in 1..n, i - 1 \in G PROVE i \in G
  <2> DEFINE s == acc[i - 1]
             t == acc[i]
             x == extra[i]
  <2>1. s \in A /\ t = Merged(s, x) /\ x \in Items
    BY <1>1, <1>4
  <2>2. /\ t \in Seq(Items) /\ Range(s) \subseteq Range(t) /\ Range(t) \subseteq Range(s) \union {x}
        /\ Len(s) <= Len(t) /\ Len(t) \in Nat
        /\ Len(t) < MaxItems => x.label \in LabelsOf(t)
    <3> HIDE DEF s, t, x
    <3> QED BY <2>1, MergedIs
  <2>3. Len(s) \in Nat /\ MaxItems \in Nat /\ Len(target) \in Nat
    BY <2>1, MembersAssumption
  <2>4. x \in Range(extra)
    BY <1>1 DEF Range
  <2>5. /\ Range(target) \subseteq Range(s) /\ Range(s) \subseteq Range(target) \union Range(extra)
        /\ Len(target) <= Len(s)
        /\ Len(s) < MaxItems => \A j \in 1..n : j <= i - 1 => extra[j].label \in LabelsOf(s)
    BY <1>10
  <2>6. LabelsOf(s) \subseteq LabelsOf(t)
    BY <2>2 DEF LabelsOf
  <2>7. \A j \in 1..n : j <= i => j <= i - 1 \/ extra[j] = x
    BY <1>1
  <2>8. i \in 0..n
    BY <1>1
  <2> HIDE DEF s, x, t
  <2>9. Len(t) < MaxItems => Len(s) < MaxItems
    BY <2>2, <2>3
  <2>10. Len(t) < MaxItems => \A j \in 1..n : j <= i => extra[j].label \in LabelsOf(t)
    BY <2>2, <2>5, <2>6, <2>7, <2>9
  <2>11. Len(target) <= Len(t)
    BY <2>2, <2>3, <2>5
  <2>12. Range(target) \subseteq Range(t) /\ Range(t) \subseteq Range(target) \union Range(extra)
    BY <2>2, <2>4, <2>5
  <2> QED BY <2>8, <2>10, <2>11, <2>12 DEF t
<1>11. n \in G
  <2> HIDE DEF G
  <2>1. \A i \in 0..n : i \in G
    BY <1>1, <1>9, <1>10, NatInd
  <2> QED BY <1>1, <2>1
<1>12. LabelsOf(extra) = {extra[j].label : j \in 1..n}
  <2>1. Range(extra) = {extra[j] : j \in 1..n}
    BY RangeIs
  <2> QED BY <2>1 DEF LabelsOf
<1>13. acc[n] \in Seq(Items) /\ \A j \in 1..n : j <= n
  BY <1>1, <1>4
<1> QED BY <1>7, <1>8, <1>11, <1>12, <1>13 DEF Merges

-----------------------------------------------------------------------------
\* The roots of the Engine.

\* What is merged of lists.
LEMMA MergedAre ==
    ASSUME NEW lists \in Seq(Seq(Items)), lists # << >>
    PROVE  LET t == MergedLists(lists)
           IN  /\ t \in Seq(Items)
               /\ \A x \in Range(t) : \E k \in 1..Len(lists) : x \in Range(lists[k])
               /\ Len(t) < MaxItems => \A k \in 1..Len(lists) : LabelsOf(lists[k]) \subseteq LabelsOf(t)
<1> DEFINE A == Seq(Items)
           n == Len(lists) - 1
           step == [p \in A \X (1..n) |-> merge_completion_items(p[1], lists[p[2] + 1])]
           all == CHOOSE all : all = [k \in 1..Len(lists) |->
                     IF k = 1 THEN lists[1] ELSE merge_completion_items(all[k - 1], lists[k])]
<1>1. /\ Len(lists) \in Nat \ {0} /\ n \in Nat /\ n + 1 = Len(lists)
      /\ \A k \in 1..Len(lists) : lists[k] \in A
      /\ \A i \in 1..n : i + 1 \in 1..Len(lists) /\ i \in 1..Len(lists)
      /\ \A i \in 0..n : i + 1 \in 1..Len(lists) /\ (i + 1) - 1 = i
      /\ \A k \in 1..Len(lists) : k - 1 \in 0..n /\ (k # 1 => k - 1 \in 1..n /\ (k - 1) - 1 \in 0..n) /\ (k - 1) + 1 = k
  OBVIOUS
<1> HIDE DEF n
<1>2. step \in Steps(A, n)
  <2>1. \A s \in A, e \in A : merge_completion_items(s, e) \in A
    BY MergesIs DEF Merges
  <2>2. \A p \in A \X (1..n) : merge_completion_items(p[1], lists[p[2] + 1]) \in A
    BY <1>1, <2>1
  <2> HIDE DEF A
  <2> QED BY <2>2 DEF Steps
<1>3. PICK acc : IsRun(A, lists[1], n, step, acc)
  <2> DEFINE base == lists[1]
  <2>1. base \in A
    BY <1>1
  <2> HIDE DEF A, step, base
  <2>2. \E acc : IsRun(A, base, n, step, acc)
    BY <1>1, <1>2, <2>1, LoopExists
  <2> QED BY <2>2 DEF base
<1>4. /\ acc \in [0..n -> A] /\ acc[0] = lists[1]
      /\ \A i \in 1..n : /\ i - 1 \in 0..n /\ acc[i - 1] \in A
                         /\ acc[i] = merge_completion_items(acc[i - 1], lists[i + 1])
  <2>1. acc \in [0..n -> A] /\ acc[0] = lists[1] /\ \A i \in 1..n : acc[i] = step[<<acc[i - 1], i>>]
    BY <1>3 DEF IsRun
  <2>2. \A i \in 1..n : i - 1 \in 0..n
    BY <1>1
  <2>3. \A i \in 1..n : acc[i - 1] \in A
    BY <2>1, <2>2
  <2> QED BY <2>1, <2>2, <2>3
<1> HIDE DEF step
<1> DEFINE run == [k \in 1..Len(lists) |-> acc[k - 1]]
<1>5. run = [k \in 1..Len(lists) |-> IF k = 1 THEN lists[1] ELSE merge_completion_items(run[k - 1], lists[k])]
  <2>1. run[1] = lists[1]
    BY <1>1, <1>4
  <2>2. ASSUME NEW k \in 1..Len(lists), k # 1 PROVE run[k] = merge_completion_items(run[k - 1], lists[k])
    <3>1. k - 1 \in 1..n /\ (k - 1) + 1 = k /\ k - 1 \in 1..Len(lists)
      BY <1>1, <2>2
    <3>2. acc[k - 1] = merge_completion_items(acc[(k - 1) - 1], lists[(k - 1) + 1])
      BY <1>4, <3>1
    <3> QED BY <3>1, <3>2
  <2> QED BY <2>1, <2>2
<1>6. all = [k \in 1..Len(lists) |-> IF k = 1 THEN lists[1] ELSE merge_completion_items(all[k - 1], lists[k])]
  <2> HIDE DEF run
  <2> QED BY <1>5
<1>7. MergedLists(lists) = all[Len(lists)]
  BY DEF MergedLists
<1> HIDE DEF all, run
<1>8. all[Len(lists)] = acc[n]
  <2> DEFINE f == [i \in 0..n |-> all[i + 1]]
  <2>1. f[0] = acc[0]
    <3>1. 0 \in 0..n /\ 0 + 1 = 1 /\ 1 \in 1..Len(lists)
      BY <1>1
    <3> QED BY <1>4, <1>6, <3>1
  <2>2. ASSUME NEW i \in 1..n, f[i - 1] = acc[i - 1] PROVE f[i] = acc[i]
    <3>1. i \in 0..n /\ i - 1 \in 0..n /\ (i - 1) + 1 = i /\ (i + 1) - 1 = i /\ i + 1 # 1 /\ i + 1 \in 1..Len(lists)
      BY <1>1
    <3>2. f[i] = all[i + 1] /\ f[i - 1] = all[i]
      BY <3>1
    <3>3. all[i + 1] = merge_completion_items(all[(i + 1) - 1], lists[i + 1])
      BY <1>6, <3>1
    <3> HIDE DEF f
    <3> QED BY <1>4, <2>2, <3>1, <3>2, <3>3
  <2>3. f[n] = all[Len(lists)]
    BY <1>1
  <2> HIDE DEF f
  <2>4. f[n] = acc[n]
    BY <1>1, <2>1, <2>2, SameRuns
  <2> QED BY <2>3, <2>4
<1> DEFINE G == {i \in 0..n :
                  /\ \A x \in Range(acc[i]) : \E k \in 1..Len(lists) : x \in Range(lists[k])
                  /\ Len(acc[i]) < MaxItems =>
                        \A k \in 1..Len(lists) : k <= i + 1 => LabelsOf(lists[k]) \subseteq LabelsOf(acc[i])}
<1>9. 0 \in G
  <2>1. 0 \in 0..n /\ 1 \in 1..Len(lists) /\ \A k \in 1..Len(lists) : k <= 0 + 1 => k = 1
    BY <1>1
  <2> QED BY <1>4, <2>1
<1>10. ASSUME NEW i \in 1..n, i - 1 \in G PROVE i \in G
  <2> DEFINE s == acc[i - 1]
             t == acc[i]
             e == lists[i + 1]
  <2>1. s \in A /\ t = merge_completion_items(s, e) /\ e \in A /\ i + 1 \in 1..Len(lists) /\ i \in 0..n
    BY <1>1, <1>4
  <2>2. Merges(s, e, t)
    <3> HIDE DEF s, t, e
    <3> QED BY <2>1, MergesIs
  <2>3. Len(s) \in Nat /\ MaxItems \in Nat /\ Len(t) \in Nat
    BY <2>1, <2>2, MembersAssumption DEF Merges
  <2>4. /\ \A x \in Range(s) : \E k \in 1..Len(lists) : x \in Range(lists[k])
        /\ Len(s) < MaxItems =>
              \A k \in 1..Len(lists) : k <= (i - 1) + 1 => LabelsOf(lists[k]) \subseteq LabelsOf(s)
    BY <1>10
  <2>5. \A k \in 1..Len(lists) : k <= i + 1 => k <= (i - 1) + 1 \/ lists[k] = e
    BY <1>1
  <2> HIDE DEF s, t
  <2>6. LabelsOf(s) \subseteq LabelsOf(t) /\ Range(t) \subseteq Range(s) \union Range(e)
    BY <2>2 DEF Merges, LabelsOf
  <2>7. Len(t) < MaxItems => Len(s) < MaxItems /\ LabelsOf(e) \subseteq LabelsOf(t)
    BY <2>2, <2>3 DEF Merges
  <2>8. \A x \in Range(t) : \E k \in 1..Len(lists) : x \in Range(lists[k])
    BY <2>1, <2>4, <2>6
  <2> HIDE DEF e
  <2>9. Len(t) < MaxItems => \A k \in 1..Len(lists) : k <= i + 1 => LabelsOf(lists[k]) \subseteq LabelsOf(t)
    BY <2>4, <2>5, <2>6, <2>7
  <2> QED BY <2>1, <2>8, <2>9 DEF t
<1>11. n \in G
  <2> HIDE DEF G
  <2>1. \A i \in 0..n : i \in G
    BY <1>1, <1>9, <1>10, NatInd
  <2> QED BY <1>1, <2>1
<1>12. n \in 0..n /\ \A k \in 1..Len(lists) : k <= n + 1
  BY <1>1
<1>13. acc[n] \in Seq(Items)
  BY <1>4, <1>12
<1> QED BY <1>7, <1>8, <1>11, <1>12, <1>13

-----------------------------------------------------------------------------
\* The loop of collect_engine_member_roots.

\* A class that is listed from the Engine's index.
IsRoot(p, e, n, x) == class_ids_by_name(e, x) # << >> /\ (x = n => class_ids_by_name(p, x) = << >>)

Rooted(p, e, n, opened, s) ==
    LET met == s.visited \union Range(s.queue)
    IN  /\ s \in Rooting /\ n \in met
        /\ \A x \in s.visited : BasesOf(p, x) \union Range(opened[x]) \subseteq met
        /\ \A x \in s.visited : IsRoot(p, e, n, x) => x \in Range(s.roots)

NameNearer(s, t) ==
    /\ Cardinality(Names \ t.visited) \in Nat /\ Cardinality(Names \ s.visited) \in Nat
    /\ Len(t.queue) \in Nat /\ Len(s.queue) \in Nat
    /\ \/ Cardinality(Names \ t.visited) < Cardinality(Names \ s.visited)
       \/ Cardinality(Names \ t.visited) = Cardinality(Names \ s.visited) /\ Len(t.queue) < Len(s.queue)

\* The names of the bases, in the order of the rows.
LEMMA BasesOfAre ==
    ASSUME NEW ctx, Consistent(ctx.rows), NEW n
    PROVE  LET ids == class_ids_by_name(ctx, n)
               parents == FlattenSeq([k \in DOMAIN ids |-> ctx.rows[ids[k]].bases])
           IN  parents \in Seq(Names) /\ Range(parents) = BasesOf(ctx, n)
<1> DEFINE ids == class_ids_by_name(ctx, n)
           q == [k \in DOMAIN ids |-> ctx.rows[ids[k]].bases]
<1>1. ids \in Seq(DOMAIN ctx.rows)
  BY NamedIs DEF Finds
<1>2. BasesOf(ctx, n) = UNION {Range(ctx.rows[i].bases) : i \in Range(ids)}
  BY DEF BasesOf
<1> HIDE DEF ids
<1>3. DOMAIN ids = 1..Len(ids) /\ \A k \in DOMAIN ids : ids[k] \in DOMAIN ctx.rows
  BY <1>1
<1> DEFINE V == Seq(Names)
<1>4. \A k \in DOMAIN ids : q[k] \in V
  BY <1>3, ClassRowsAre
<1>5. q = [k \in DOMAIN ids |-> q[k]] /\ \A k \in DOMAIN ids : q[k] = ctx.rows[ids[k]].bases
  OBVIOUS
<1> HIDE DEF q
<1>6. q \in Seq(V) /\ Len(q) = Len(ids)
  <2> HIDE DEF V
  <2> QED BY <1>1, <1>4, <1>5, IsSeq
<1>7. FlattenSeq(q) \in Seq(Names) /\ Range(FlattenSeq(q)) = UNION {Range(q[j]) : j \in 1..Len(q)}
  BY <1>6, FlatRange
<1>8. UNION {Range(q[j]) : j \in 1..Len(q)} = BasesOf(ctx, n)
  <2>1. Range(ids) = {ids[k] : k \in 1..Len(q)}
    BY <1>1, <1>6, RangeIs
  <2>2. \A j \in 1..Len(q) : Range(q[j]) = Range(ctx.rows[ids[j]].bases)
    BY <1>3, <1>5, <1>6
  <2> QED BY <1>2, <2>1, <2>2
<1> QED BY <1>7, <1>8 DEF q, ids

\* A turn of collect_engine_member_roots.
LEMMA RootKeeps ==
    ASSUME NEW p, Consistent(p.rows), NEW e, NEW n, NEW opened \in [Names -> Seq(Names)],
           NEW s \in Rooting, s.queue # << >>
    PROVE  LET t == Root(p, e, s, n, opened)
           IN  t \in Rooting /\ NameNearer(s, t) /\ (Rooted(p, e, n, opened, s) => Rooted(p, e, n, opened, t))
<1> DEFINE q == s.queue
           x == Head(q)
           ids == class_ids_by_name(p, x)
           parents == FlattenSeq([k \in DOMAIN ids |-> p.rows[ids[k]].bases])
           t == Root(p, e, s, n, opened)
           MetOnce(w) == w.visited \union Range(w.queue)
<1>1. /\ s \in [queue : Seq(Names), visited : SUBSET Names, roots : Seq(Names)]
      /\ q \in Seq(Names) /\ s.visited \in SUBSET Names /\ s.roots \in Seq(Names)
  BY DEF Rooting
<1>2. x \in Names /\ Tail(q) \in Seq(Names) /\ Len(Tail(q)) < Len(q) /\ Range(q) = {x} \union Range(Tail(q))
  <2> HIDE DEF q
  <2> QED BY <1>1, HeadTail DEF q
<1>3. IsFiniteSet(Names)
  BY SymbolAssumption
<1>4. CASE x \in s.visited
  <2>1. t = [s EXCEPT !.queue = Tail(q)]
    BY <1>4 DEF Root
  <2>2. t \in Rooting /\ t.queue = Tail(q) /\ t.visited = s.visited /\ t.roots = s.roots
    BY <1>1, <1>2, <2>1 DEF Rooting
  <2> HIDE DEF t
  <2>3. MetOnce(t) = MetOnce(s)
    BY <1>2, <1>4, <2>2
  <2>4. Rooted(p, e, n, opened, s) => Rooted(p, e, n, opened, t)
    BY <2>2, <2>3 DEF Rooted
  <2>5. Cardinality(Names \ s.visited) \in Nat /\ Len(t.queue) \in Nat /\ Len(q) \in Nat
    <3>1. IsFiniteSet(Names \ s.visited)
      BY <1>3, FS_Difference
    <3>2. Cardinality(Names \ s.visited) \in Nat
      BY <3>1, FS_CardinalityType
    <3> HIDE DEF q
    <3> QED BY <1>1, <1>2, <2>2, <3>2
  <2>6. NameNearer(s, t)
    BY <1>2, <2>2, <2>5 DEF NameNearer
  <2> QED BY <2>2, <2>4, <2>6 DEF t
<1>5. CASE x \notin s.visited
  <2> DEFINE l == Tail(q)
             b == opened[x]
             lp == l \o parents
             roots == IF IsRoot(p, e, n, x) THEN Append(s.roots, x) ELSE s.roots
  <2>1. t = [queue |-> lp \o b, visited |-> s.visited \union {x}, roots |-> roots]
    BY <1>5 DEF Root, IsRoot
  <2>2. parents \in Seq(Names) /\ Range(parents) = BasesOf(p, x)
    BY BasesOfAre
  <2>3. b \in Seq(Names) /\ l \in Seq(Names)
    BY <1>2
  <2> HIDE DEF parents, l, b
  <2>4. lp \in Seq(Names) /\ Range(lp) = Range(l) \union BasesOf(p, x)
    BY <2>2, <2>3, ConcatIs
  <2> HIDE DEF lp
  <2>5. lp \o b \in Seq(Names) /\ Range(lp \o b) = Range(lp) \union Range(b)
    BY <2>3, <2>4, ConcatIs
  <2>6. /\ roots \in Seq(Names) /\ Range(s.roots) \subseteq Range(roots)
        /\ IsRoot(p, e, n, x) => x \in Range(roots)
    BY <1>1, <1>2, AppendIs
  <2> HIDE DEF roots
  <2>7. t \in Rooting /\ t.queue = lp \o b /\ t.visited = s.visited \union {x} /\ t.roots = roots
    BY <1>1, <1>2, <2>1, <2>5, <2>6 DEF Rooting
  <2> HIDE DEF t
  <2>8. MetOnce(t) = MetOnce(s) \union BasesOf(p, x) \union Range(opened[x])
    BY <1>2, <2>4, <2>5, <2>7 DEF l, b
  <2>9. ASSUME Rooted(p, e, n, opened, s) PROVE Rooted(p, e, n, opened, t)
    <3>1. n \in MetOnce(t)
      BY <2>8, <2>9 DEF Rooted
    <3>2. \A y \in t.visited : BasesOf(p, y) \union Range(opened[y]) \subseteq MetOnce(t)
      <4>1. \A y \in s.visited : BasesOf(p, y) \union Range(opened[y]) \subseteq MetOnce(s)
        BY <2>9 DEF Rooted
      <4> QED BY <2>7, <2>8, <4>1
    <3>3. \A y \in t.visited : IsRoot(p, e, n, y) => y \in Range(t.roots)
      <4>1. \A y \in s.visited : IsRoot(p, e, n, y) => y \in Range(s.roots)
        BY <2>9 DEF Rooted
      <4> QED BY <2>6, <2>7, <4>1
    <3> QED BY <2>7, <3>1, <3>2, <3>3 DEF Rooted
  <2>10. Len(t.queue) \in Nat /\ Len(s.queue) \in Nat
    BY <1>1, <2>5, <2>7
  <2>11. /\ Cardinality(Names \ t.visited) \in Nat /\ Cardinality(Names \ s.visited) \in Nat
         /\ Cardinality(Names \ t.visited) < Cardinality(Names \ s.visited)
    <3>1. s.visited \subseteq t.visited /\ x \in t.visited
      BY <2>7
    <3> HIDE DEF x
    <3> QED BY <1>2, <1>3, <1>5, <3>1, FewerLeft
  <2>12. NameNearer(s, t)
    BY <2>10, <2>11 DEF NameNearer
  <2> QED BY <2>7, <2>9, <2>12 DEF t
<1> QED BY <1>4, <1>5

\* The Engine's classes that are listed: those of names that n's chain has in the
\* project and the buffer.
LEMMA RootsAre ==
    ASSUME NEW p, Consistent(p.rows), NEW e, NEW n \in Names, NEW opened \in [Names -> Seq(Names)]
    PROVE  /\ RootsFrom(p, e, n, opened) \in Seq(Names)
           /\ \E C \in SUBSET Names :
                 /\ n \in C /\ \A x \in C : BasesOf(p, x) \union Range(opened[x]) \subseteq C
                 /\ \A x \in C : IsRoot(p, e, n, x) => x \in Range(RootsFrom(p, e, n, opened))
<1> DEFINE D == Rooting
           done == {s \in D : s.queue = << >>}
           step == [s \in D |-> Root(p, e, s, n, opened)]
           P == {s \in D : Rooted(p, e, n, opened, s)}
           a == [s \in P |-> Cardinality(Names \ s.visited)]
           b == [s \in P |-> Len(s.queue)]
           start == [queue |-> <<n>>, visited |-> {}, roots |-> << >>]
           end == Loop(start, done, step)
<1>1. ASSUME NEW s \in D, s \notin done
      PROVE  /\ step[s] \in D /\ NameNearer(s, step[s])
             /\ Rooted(p, e, n, opened, s) => Rooted(p, e, n, opened, step[s])
  <2>1. s.queue # << >> /\ step[s] = Root(p, e, s, n, opened)
    BY <1>1
  <2> HIDE DEF step
  <2> QED BY <2>1, RootKeeps
<1>2. IsLoop(D, done, step)
  BY <1>1 DEF IsLoop
<1>3. Shrinks(P, done, step, a, b)
  <2>1. \A s \in P : Cardinality(Names \ s.visited) \in Nat
    BY SymbolAssumption, FS_Difference, FS_CardinalityType
  <2>2. \A s \in P : Len(s.queue) \in Nat
    BY DEF Rooting
  <2>3. a \in [P -> Nat] /\ b \in [P -> Nat]
    BY <2>1, <2>2
  <2>4. ASSUME NEW s \in P, s \notin done
        PROVE  /\ step[s] \in P
               /\ a[step[s]] < a[s] \/ (a[step[s]] = a[s] /\ b[step[s]] < b[s])
    <3> DEFINE t == step[s]
    <3>1. t \in P /\ NameNearer(s, t)
      BY <1>1, <2>4
    <3> HIDE DEF t, done, step, D
    <3> QED BY <3>1 DEF NameNearer, t
  <2> HIDE DEF a, b, P, done, step
  <2> QED BY <2>3, <2>4 DEF Shrinks
<1>4. start \in P
  <2> DEFINE q == <<n>>
  <2>1. q \in Seq(Names) /\ Len(q) = 1 /\ q[1] = n
    OBVIOUS
  <2>2. n \in Range(q)
    BY <2>1 DEF Range
  <2>3. start = [queue |-> q, visited |-> {}, roots |-> << >>] /\ << >> \in Seq(Names)
    BY EmptyIs
  <2> HIDE DEF q, start
  <2> QED BY <2>1, <2>2, <2>3 DEF Rooted, Rooting
<1>5. end \in P /\ end \in done
  <2>1. P \in SUBSET D
    OBVIOUS
  <2> HIDE DEF P, D, done, step, a, b, start
  <2> QED BY <1>2, <1>3, <1>4, <2>1, LoopEnds
<1>6. RootsFrom(p, e, n, opened) = end.roots
  BY DEF RootsFrom
<1> HIDE DEF end
<1>7. Range(end.queue) = {} /\ end \in Rooting /\ Rooted(p, e, n, opened, end)
  BY <1>5, EmptyIs
<1>8. end.roots \in Seq(Names) /\ end.visited \in SUBSET Names
  BY <1>7 DEF Rooting
<1>9. /\ n \in end.visited
      /\ \A x \in end.visited : BasesOf(p, x) \union Range(opened[x]) \subseteq end.visited
      /\ \A x \in end.visited : IsRoot(p, e, n, x) => x \in Range(end.roots)
  BY <1>7 DEF Rooted
<1> QED BY <1>6, <1>8, <1>9

-----------------------------------------------------------------------------
\* Whatever is listed with a type has one.

\* The lists that are merged.
ListsOf(p, e, n, accessor, opened, lists) ==
    LET roots == collect_engine_member_roots(p, e, n, opened)
    IN  /\ lists \in Seq(Seq(Items)) /\ lists # << >>
        /\ Range(lists) = {fetch_members_recursive(p, n, How(accessor, FALSE, FALSE))}
              \union {fetch_members_recursive(p, opened[n][k], How(accessor, TRUE, FALSE)) : k \in DOMAIN opened[n]}
              \union {fetch_members_recursive(e, roots[k], How(accessor, roots[k] # n, TRUE)) : k \in DOMAIN roots}

\* The lists that are merged: of the class, of its bases in the buffer, of the roots.
LEMMA ListsAre ==
    ASSUME NEW p, Consistent(p.rows), NEW e, Consistent(e.rows), NEW n \in Names, NEW accessor,
           NEW opened \in [Names -> Seq(Names)]
    PROVE  ListsOf(p, e, n, accessor, opened, MemberLists(p, e, n, accessor, opened))
<1> DEFINE V == Seq(Items)
           roots == collect_engine_member_roots(p, e, n, opened)
           own == fetch_members_recursive(p, n, How(accessor, FALSE, FALSE))
           bases == opened[n]
           near == [k \in DOMAIN bases |-> fetch_members_recursive(p, bases[k], How(accessor, TRUE, FALSE))]
           far == [k \in DOMAIN roots |-> fetch_members_recursive(e, roots[k], How(accessor, roots[k] # n, TRUE))]
<1>1. bases \in Seq(Names) /\ roots \in Seq(Names)
  BY RootsAre DEF collect_engine_member_roots
<1>2. own \in V /\ (\A k \in DOMAIN bases : near[k] \in V) /\ (\A k \in DOMAIN roots : far[k] \in V)
  BY ListedOf
<1>3. MemberLists(p, e, n, accessor, opened) = <<own>> \o near \o far
  BY DEF MemberLists
<1>4. /\ near = [k \in DOMAIN bases |-> near[k]]
      /\ far = [k \in DOMAIN roots |-> far[k]]
      /\ \A k \in DOMAIN bases : near[k] = fetch_members_recursive(p, bases[k], How(accessor, TRUE, FALSE))
      /\ \A k \in DOMAIN roots : far[k] = fetch_members_recursive(e, roots[k], How(accessor, roots[k] # n, TRUE))
  OBVIOUS
<1> HIDE DEF own, near, far, V, roots, bases
<1>5. near \in Seq(V) /\ Range(near) = {near[k] : k \in DOMAIN bases}
  <2>1. \A k \in DOMAIN bases : near[k] \in V
    BY <1>2
  <2>2. near = [k \in DOMAIN bases |-> near[k]]
    BY <1>4
  <2>3. near \in Seq(V) /\ DOMAIN near = DOMAIN bases
    BY <1>1, <2>1, <2>2, IsSeq
  <2> QED BY <2>3 DEF Range
<1>6. far \in Seq(V) /\ Range(far) = {far[k] : k \in DOMAIN roots}
  <2>1. \A k \in DOMAIN roots : far[k] \in V
    BY <1>2
  <2>2. far = [k \in DOMAIN roots |-> far[k]]
    BY <1>4
  <2>3. far \in Seq(V) /\ DOMAIN far = DOMAIN roots
    BY <1>1, <2>1, <2>2, IsSeq
  <2> QED BY <2>3 DEF Range
<1> DEFINE lists == <<own>> \o near \o far
<1>7. /\ lists \in Seq(V) /\ Range(lists) = {own} \union Range(near) \union Range(far)
      /\ Len(lists) \in Nat \ {0}
  <2>1. Joins(V, own, near, far, lists)
    BY <1>2, <1>5, <1>6, ThreeJoined
  <2> HIDE DEF lists
  <2> QED BY <2>1 DEF Joins
<1> HIDE DEF lists
<1>8. lists # << >>
  BY <1>7, EmptyIs
<1>9. /\ Range(near) = {fetch_members_recursive(p, bases[k], How(accessor, TRUE, FALSE)) : k \in DOMAIN bases}
      /\ Range(far) = {fetch_members_recursive(e, roots[k], How(accessor, roots[k] # n, TRUE)) : k \in DOMAIN roots}
  <2>1. Range(near) = {fetch_members_recursive(p, bases[k], How(accessor, TRUE, FALSE)) : k \in DOMAIN bases}
    <3>1. Range(near) = {near[k] : k \in DOMAIN bases}
      BY <1>5
    <3>2. \A k \in DOMAIN bases : near[k] = fetch_members_recursive(p, bases[k], How(accessor, TRUE, FALSE))
      BY <1>4
    <3> QED BY <3>1, <3>2, Zenon
  <2>2. Range(far) = {fetch_members_recursive(e, roots[k], How(accessor, roots[k] # n, TRUE)) : k \in DOMAIN roots}
    <3>1. Range(far) = {far[k] : k \in DOMAIN roots}
      BY <1>6
    <3>2. \A k \in DOMAIN roots : far[k] = fetch_members_recursive(e, roots[k], How(accessor, roots[k] # n, TRUE))
      BY <1>4
    <3> QED BY <3>1, <3>2, Zenon
  <2> QED BY <2>1, <2>2
<1>10. ListsOf(p, e, n, accessor, opened, lists)
  BY <1>7, <1>8, <1>9 DEF ListsOf, own, V, roots, bases
<1> QED BY <1>3, <1>10 DEF lists

\* A row ends the search if a member that it lists has a type.
LEMMA TypedEnds ==
    ASSUME NEW ctx, NEW i, NEW how, NEW x \in MemberItems(ctx, i, how), x.type # NoType
    PROVE  EndsAt(ctx.rows[i], x.label)
<1> DEFINE cls == ctx.rows[i]
           types == {m.type : m \in {m \in cls.members : m.label = x.label}}
           named == types \ {"void", NoType}
<1>1. PICK m \in cls.members : x = [label |-> m.label, owner |-> cls.name, type |-> m.type]
  BY DEF MemberItems, AccessibleMembers
<1>2. x.type \in types
  BY <1>1
<1>3. MemberType(cls, x.label) = IF named # {} THEN CHOOSE t \in named : TRUE
                                 ELSE IF "void" \in types THEN "void" ELSE NoType
  BY DEF MemberType
<1>4. named # {} => (CHOOSE t \in named : TRUE) \in named
  OBVIOUS
<1>5. NoType \notin named
  OBVIOUS
<1>6. named = {} => x.type = "void"
  BY <1>2
<1> HIDE DEF cls, named, types
<1>7. MemberType(cls, x.label) # NoType
  BY <1>2, <1>3, <1>4, <1>5, <1>6
<1> QED BY <1>7 DEF EndsAt, cls

\* The search along the walk finds a type for what the other walk lists with one.
LEMMA TypeIsFound ==
    ASSUME NEW ctx, Consistent(ctx.rows), NEW n, NEW how, NEW x \in Range(fetch_members_recursive(ctx, n, how)),
           x.type # NoType
    PROVE  find_member_return_type(ctx, n, x.label) # NoType
<1> DEFINE X == DOMAIN ctx.rows
           start == class_ids_by_name(ctx, n)
           wanted == {i \in X : EndsAt(ctx.rows[i], x.label)}
           i == FirstVisited(start, Bases(ctx), wanted)
<1>1. find_member_return_type(ctx, n, x.label) = IF i = 0 THEN NoType ELSE MemberType(ctx.rows[i], x.label)
  BY DEF find_member_return_type, Bases
<1>2. IsFiniteSet(X) /\ X \subseteq Nat \ {0} /\ start \in Seq(X) /\ Bases(ctx) \in [X -> Seq(X)]
  BY ClassRowsAre, NamedIs, BasesAre DEF Finds
<1>3. /\ i = 0 => \E C \in ClosedSets(X, start, Bases(ctx)) : C \intersect wanted = {}
      /\ i # 0 => i \in X /\ i \in wanted
  <2>1. Finding(X, start, Bases(ctx), wanted, i)
    <3> HIDE DEF X, start, wanted
    <3> QED BY <1>2, FirstVisitedIs
  <2> QED BY <2>1 DEF Finding
<1>4. i # 0
  <2> SUFFICES ASSUME NEW C \in ClosedSets(X, start, Bases(ctx)), C \intersect wanted = {} PROVE FALSE
    BY <1>3
  <2>1. PICK j \in C : x \in MemberItems(ctx, j, how)
    BY ListedOf
  <2>2. j \in X
    BY DEF ClosedSets
  <2>3. EndsAt(ctx.rows[j], x.label)
    BY <2>1, TypedEnds
  <2> QED BY <2>2, <2>3
<1>5. EndsAt(ctx.rows[i], x.label)
  BY <1>3, <1>4
<1> HIDE DEF i
<1> QED BY <1>1, <1>4, <1>5 DEF EndsAt

\* The type of a member is that of one of the searches, if one has it.
LEMMA TypeIsOne ==
    ASSUME NEW p, Consistent(p.rows), NEW e, Consistent(e.rows), NEW n \in Names, NEW label,
           NEW opened \in [Names -> Seq(Names)],
           TypeWithEngine(p, e, n, label, opened) = NoType
    PROVE  LET roots == collect_engine_member_roots(p, e, n, opened)
           IN  /\ find_member_return_type(p, n, label) = NoType
               /\ \A k \in DOMAIN opened[n] : find_member_return_type(p, opened[n][k], label) = NoType
               /\ \A k \in DOMAIN roots : find_member_return_type(e, roots[k], label) = NoType
<1> DEFINE V == {find_member_return_type(c, m, label) : c \in {p, e}, m \in Names}
           roots == collect_engine_member_roots(p, e, n, opened)
           own == find_member_return_type(p, n, label)
           bases == opened[n]
           near == [k \in DOMAIN bases |-> find_member_return_type(p, bases[k], label)]
           far == [k \in DOMAIN roots |-> find_member_return_type(e, roots[k], label)]
           types == <<own>> \o near \o far
<1>1. bases \in Seq(Names) /\ roots \in Seq(Names)
  BY RootsAre DEF collect_engine_member_roots
<1>2. (\A k \in DOMAIN bases : bases[k] \in Names) /\ (\A k \in DOMAIN roots : roots[k] \in Names)
  <2> HIDE DEF bases, roots
  <2> QED BY <1>1
<1>3. own \in V /\ (\A k \in DOMAIN bases : near[k] \in V) /\ (\A k \in DOMAIN roots : far[k] \in V)
  BY <1>2
<1>4. FirstBut(NoType, types) = NoType
  BY DEF TypeWithEngine
<1>5. /\ near = [k \in DOMAIN bases |-> near[k]]
      /\ far = [k \in DOMAIN roots |-> far[k]]
      /\ \A k \in DOMAIN bases : near[k] = find_member_return_type(p, bases[k], label)
      /\ \A k \in DOMAIN roots : far[k] = find_member_return_type(e, roots[k], label)
  OBVIOUS
<1> HIDE DEF own, near, far, V, roots, bases
<1>6. near \in Seq(V) /\ Range(near) = {near[k] : k \in DOMAIN bases}
  <2>1. \A k \in DOMAIN bases : near[k] \in V
    BY <1>3
  <2>2. near = [k \in DOMAIN bases |-> near[k]]
    BY <1>5
  <2>3. near \in Seq(V) /\ DOMAIN near = DOMAIN bases
    BY <1>1, <2>1, <2>2, IsSeq
  <2> QED BY <2>3 DEF Range
<1>7. far \in Seq(V) /\ Range(far) = {far[k] : k \in DOMAIN roots}
  <2>1. \A k \in DOMAIN roots : far[k] \in V
    BY <1>3
  <2>2. far = [k \in DOMAIN roots |-> far[k]]
    BY <1>5
  <2>3. far \in Seq(V) /\ DOMAIN far = DOMAIN roots
    BY <1>1, <2>1, <2>2, IsSeq
  <2> QED BY <2>3 DEF Range
<1>8. types \in Seq(V) /\ Range(types) = {own} \union Range(near) \union Range(far)
  <2>1. Joins(V, own, near, far, types)
    BY <1>3, <1>6, <1>7, ThreeJoined
  <2> HIDE DEF types
  <2> QED BY <2>1 DEF Joins
<1> HIDE DEF types
<1>9. Len(types) \in Nat /\ DOMAIN types = 1..Len(types) /\ Range(types) = {types[i] : i \in 1..Len(types)}
  <2>1. types \in Seq(V)
    BY <1>8
  <2>2. Range(types) = {types[i] : i \in 1..Len(types)}
    BY <2>1, RangeIs
  <2> QED BY <2>1, <2>2
<1>10. \A i \in 1..Len(types) : types[i] = NoType
  BY <1>4, <1>9, FirstButIs
<1>11. \A t \in Range(types) : t = NoType
  BY <1>9, <1>10
<1>12. /\ own = NoType
       /\ \A k \in DOMAIN bases : near[k] = NoType
       /\ \A k \in DOMAIN roots : far[k] = NoType
  BY <1>6, <1>7, <1>8, <1>11
<1> QED BY <1>5, <1>12 DEF own, bases, roots

IndexSpec == IndexInit /\ [][IndexNext]_index

\* The two contexts of a query are consistent.
LEMMA ContextsAre ==
    ASSUME IndexesConsistent
    PROVE  /\ \A f : Consistent(ProjectContext(f).rows) /\ ProjectContext(f).rows = rows
           /\ Consistent(EngineContext.rows) /\ EngineContext.rows = engine
BY DEF IndexesConsistent, ProjectContext, EngineContext, Context

\* What is listed with a type has one, in consistent indexes.
LEMMA ChainsResolve == IndexesConsistent => ChainResolves
<1> SUFFICES ASSUME IndexesConsistent PROVE ChainResolves
  OBVIOUS
<1>1. ASSUME NEW f \in SourceFiles, NEW n \in Names, NEW a \in Accessors, NEW b \in Buffers
      PROVE  LET p == ProjectContext(f)
                 items == fetch_members_with_engine(p, EngineContext, n, a, b)
             IN  \A i \in DOMAIN items :
                    items[i].type # NoType => TypeWithEngine(p, EngineContext, n, items[i].label, b) # NoType
  <2> DEFINE p == ProjectContext(f)
             e == EngineContext
             roots == collect_engine_member_roots(p, e, n, b)
             lists == MemberLists(p, e, n, a, b)
             items == MergedLists(lists)
  <2>1. b \in [Names -> Seq(Names)]
    BY MembersAssumption
  <2>2. Consistent(p.rows) /\ Consistent(e.rows)
    BY ContextsAre
  <2>3. fetch_members_with_engine(p, e, n, a, b) = items
    BY DEF fetch_members_with_engine
  <2> HIDE DEF p, e
  <2>4. /\ lists \in Seq(Seq(Items)) /\ lists # << >>
        /\ Range(lists) = {fetch_members_recursive(p, n, How(a, FALSE, FALSE))}
              \union {fetch_members_recursive(p, b[n][k], How(a, TRUE, FALSE)) : k \in DOMAIN b[n]}
              \union {fetch_members_recursive(e, roots[k], How(a, roots[k] # n, TRUE)) : k \in DOMAIN roots}
    <3>1. ListsOf(p, e, n, a, b, lists)
      BY <2>1, <2>2, ListsAre
    <3> HIDE DEF lists
    <3> QED BY <3>1 DEF ListsOf
  <2> HIDE DEF lists, roots
  <2>5. items \in Seq(Items) /\ \A x \in Range(items) : \E k \in 1..Len(lists) : x \in Range(lists[k])
    BY <2>4, MergedAre
  <2> HIDE DEF items
  <2>6. ASSUME NEW x \in Range(items), x.type # NoType
        PROVE  TypeWithEngine(p, e, n, x.label, b) # NoType
    <3>1. PICK k \in 1..Len(lists) : x \in Range(lists[k])
      BY <2>5
    <3>2. lists[k] \in Range(lists)
      BY <2>4 DEF Range
    <3> SUFFICES ASSUME TypeWithEngine(p, e, n, x.label, b) = NoType PROVE FALSE
      OBVIOUS
    <3>3. /\ find_member_return_type(p, n, x.label) = NoType
          /\ \A j \in DOMAIN b[n] : find_member_return_type(p, b[n][j], x.label) = NoType
          /\ \A j \in DOMAIN roots : find_member_return_type(e, roots[j], x.label) = NoType
      BY <2>1, <2>2, TypeIsOne DEF roots
    <3>4. CASE lists[k] = fetch_members_recursive(p, n, How(a, FALSE, FALSE))
      BY <2>2, <2>6, <3>1, <3>3, <3>4, TypeIsFound
    <3>5. ASSUME NEW j \in DOMAIN b[n], lists[k] = fetch_members_recursive(p, b[n][j], How(a, TRUE, FALSE))
          PROVE  FALSE
      BY <2>2, <2>6, <3>1, <3>3, <3>5, TypeIsFound
    <3>6. ASSUME NEW j \in DOMAIN roots, lists[k] = fetch_members_recursive(e, roots[j], How(a, roots[j] # n, TRUE))
          PROVE  FALSE
      BY <2>2, <2>6, <3>1, <3>3, <3>6, TypeIsFound
    <3> QED BY <2>4, <3>2, <3>4, <3>5, <3>6
  <2>7. \A i \in DOMAIN items : items[i] \in Range(items)
    BY DEF Range
  <2> QED BY <2>3, <2>6, <2>7 DEF p, e
<1> QED BY <1>1 DEF ChainResolves

(* ChainResolves holds of every index that refreshes and the watcher leave: whatever member
   is listed with a type (fetch_members_recursive skips bases whose name it met), the search
   for its type (find_member_return_type skips rows it visited) finds one. *)
THEOREM ChainsAlwaysResolve == IndexSpec => []ChainResolves
<1>1. IndexSpec => []IndexesConsistent
  BY IndexStarts, IndexKeeps, PTL DEF IndexSpec
<1> QED BY <1>1, ChainsResolve, PTL

-----------------------------------------------------------------------------
\* What is public and inherited is offered.

\* Names that are reached over bases.
LEMMA AboveIs ==
    ASSUME NEW ctx, Consistent(ctx.rows), NEW ns \in SUBSET Names
    PROVE  /\ NamesAbove(ctx, ns) \in SUBSET Names /\ ns \subseteq NamesAbove(ctx, ns)
           /\ \A x \in NamesAbove(ctx, ns) : BasesOf(ctx, x) \subseteq NamesAbove(ctx, ns)
           /\ \A C \in SUBSET Names :
                 ns \subseteq C /\ (\A x \in C : BasesOf(ctx, x) \subseteq C) => NamesAbove(ctx, ns) \subseteq C
<1> DEFINE next == [n \in Names |-> BasesOf(ctx, n)]
           c == NamesAbove(ctx, ns)
<1>1. \A n \in Names : next[n] = BasesOf(ctx, n)
  OBVIOUS
<1>2. next \in [Names -> SUBSET Names]
  <2>1. ASSUME NEW n \in Names PROVE BasesOf(ctx, n) \subseteq Names
    <3> DEFINE ids == class_ids_by_name(ctx, n)
               parents == FlattenSeq([k \in DOMAIN ids |-> ctx.rows[ids[k]].bases])
    <3>1. parents \in Seq(Names) /\ Range(parents) = BasesOf(ctx, n)
      BY BasesOfAre
    <3> HIDE DEF parents
    <3>2. Range(parents) \subseteq Names
      BY <3>1, RangeIs
    <3> QED BY <3>1, <3>2
  <2> QED BY <2>1
<1>3. c = Closure(ns, next)
  BY DEF NamesAbove
<1> HIDE DEF next, c
<1> DEFINE d == Closure(ns, next)
<1>4. /\ d \in SUBSET Names /\ ns \subseteq d /\ Leading(d, next)
      /\ \A C \in SUBSET Names : ns \subseteq C /\ Leading(C, next) => d \subseteq C
  BY <1>2, ClosureIs, SymbolAssumption
<1> HIDE DEF d
<1>5. c = d
  BY <1>3 DEF d
<1> QED BY <1>1, <1>4, <1>5 DEF Leading, c

\* What is public in some classes.
LEMMA PublicIs ==
    ASSUME NEW ctx, NEW ns, NEW l
    PROVE  l \in PublicLabels(ctx, ns) <=>
              \E x \in ns : \E i \in Range(class_ids_by_name(ctx, x)) :
                 \E m \in ctx.rows[i].members : m.access = "public" /\ m.label = l
BY DEF PublicLabels

\* Above some names there is nothing that is not above one of them.
LEMMA AboveEach ==
    ASSUME NEW ctx, Consistent(ctx.rows), NEW ns \in SUBSET Names, NEW L,
           \A x \in ns : class_ids_by_name(ctx, x) = << >> \/ PublicLabels(ctx, NamesAbove(ctx, {x})) \subseteq L
    PROVE  PublicLabels(ctx, NamesAbove(ctx, ns)) \subseteq L
<1> DEFINE C == UNION {NamesAbove(ctx, {x}) : x \in ns}
<1>1. \A x \in ns : NamesAbove(ctx, {x}) \in SUBSET Names /\ x \in NamesAbove(ctx, {x})
  BY AboveIs
<1>2. \A x \in ns : \A y \in NamesAbove(ctx, {x}) : BasesOf(ctx, y) \subseteq NamesAbove(ctx, {x})
  BY AboveIs
<1>3. C \in SUBSET Names /\ ns \subseteq C /\ \A y \in C : BasesOf(ctx, y) \subseteq C
  BY <1>1, <1>2
<1>4. NamesAbove(ctx, ns) \subseteq C
  <2> HIDE DEF C
  <2> QED BY <1>3, AboveIs
<1>5. ASSUME NEW l \in PublicLabels(ctx, NamesAbove(ctx, ns)) PROVE l \in L
  <2>1. PICK y \in NamesAbove(ctx, ns) : \E i \in Range(class_ids_by_name(ctx, y)) :
           \E m \in ctx.rows[i].members : m.access = "public" /\ m.label = l
    BY PublicIs
  <2>2. PICK x \in ns : y \in NamesAbove(ctx, {x})
    BY <1>4
  <2>3. l \in PublicLabels(ctx, NamesAbove(ctx, {x}))
    BY <2>1, <2>2, PublicIs
  <2>4. CASE class_ids_by_name(ctx, x) = << >>
    <3>1. Range(class_ids_by_name(ctx, x)) = {}
      BY <2>4, EmptyIs
    <3>2. BasesOf(ctx, x) = {}
      BY <3>1 DEF BasesOf
    <3>3. NamesAbove(ctx, {x}) \subseteq {x}
      <4>1. {x} \in SUBSET Names /\ \A z \in {x} : BasesOf(ctx, z) \subseteq {x}
        BY <3>2
      <4> QED BY <4>1, AboveIs
    <3>4. y = x
      BY <2>2, <3>3
    <3> QED BY <2>1, <3>1, <3>4
  <2>5. CASE class_ids_by_name(ctx, x) # << >>
    BY <2>3, <2>5
  <2> QED BY <2>4, <2>5
<1> QED BY <1>5

\* A list that is not full has what is public above its class.
LEMMA PublicIsListed ==
    ASSUME NEW ctx, Consistent(ctx.rows), FewMembers(ctx), NEW n \in Names, NEW how,
           Len(fetch_members_recursive(ctx, n, how)) < MaxItems
    PROVE  PublicLabels(ctx, NamesAbove(ctx, {n})) \subseteq LabelsOf(fetch_members_recursive(ctx, n, how))
<1> DEFINE items == fetch_members_recursive(ctx, n, how)
           IdsOf(x) == Range(class_ids_by_name(ctx, x))
<1>1. PICK s : /\ Gathered(ctx, n, how, s) /\ items = s.items
               /\ s.queue = << >> \/ Len(s.items) >= MaxItems
  BY FetchIs
<1>2. s.items \in Seq(Items) /\ s.names \in SUBSET Names
  BY <1>1 DEF Gathered, Collecting
<1>3. Len(items) < MaxItems
  OBVIOUS
<1> HIDE DEF items
<1>4. s.queue = << >>
  <2>1. Len(s.items) \in Nat /\ MaxItems \in Nat
    BY <1>2, MembersAssumption
  <2> QED BY <1>1, <1>3, <2>1
<1>5. MetBy(s) = s.visited
  BY <1>4, EmptyIs DEF MetBy
<1> DEFINE C == {n} \union s.names
<1>6. \A x \in C : IdsOf(x) \subseteq s.visited
  BY <1>1, <1>5 DEF Gathered
<1>7. \A x \in C : BasesOf(ctx, x) \subseteq C
  <2>1. \A i \in s.visited : Range(ctx.rows[i].bases) \subseteq s.names
    BY <1>1 DEF Gathered
  <2> QED BY <1>6, <2>1 DEF BasesOf
<1>8. C \in SUBSET Names /\ {n} \subseteq C
  BY <1>2
<1>9. NamesAbove(ctx, {n}) \subseteq C
  <2>1. {n} \in SUBSET Names
    OBVIOUS
  <2> HIDE DEF C
  <2> QED BY <1>7, <1>8, <2>1, AboveIs
<1>10. ASSUME NEW l \in PublicLabels(ctx, NamesAbove(ctx, {n})) PROVE l \in LabelsOf(items)
  <2> PICK x \in NamesAbove(ctx, {n}) : \E i \in IdsOf(x) :
           \E m \in ctx.rows[i].members : m.access = "public" /\ m.label = l
    BY PublicIs
  <2>1. PICK i \in IdsOf(x) : \E m \in ctx.rows[i].members : m.access = "public" /\ m.label = l
    OBVIOUS
  <2>2. PICK m \in ctx.rows[i].members : m.access = "public" /\ m.label = l
    BY <2>1
  <2>3. i \in s.visited
    BY <1>6, <1>9
  <2> DEFINE item == [label |-> m.label, owner |-> ctx.rows[i].name, type |-> m.type]
  <2>4. item \in MemberItems(ctx, i, how) /\ item.label = l
    BY <2>2 DEF MemberItems, AccessibleMembers, is_member_accessible
  <2> HIDE DEF item
  <2>5. item \in Range(items)
    BY <1>1, <2>3, <2>4 DEF Gathered
  <2> QED BY <2>4, <2>5 DEF LabelsOf
<1> QED BY <1>10 DEF items

\* What is public above a class is offered, in consistent indexes.
LEMMA InheritedOffered == IndexesConsistent => InheritedIsOffered
<1> SUFFICES ASSUME IndexesConsistent PROVE InheritedIsOffered
  OBVIOUS
<1>1. ASSUME NEW f \in SourceFiles, NEW n \in Names, NEW a \in Accessors, NEW b \in Buffers
      PROVE  LET p == ProjectContext(f)
                 lists == MemberLists(p, EngineContext, n, a, b)
                 items == MergedLists(lists)
                 above == NamesAbove(p, {n} \union Range(b[n]))
                 hidden == IF class_ids_by_name(p, n) = << >> THEN {} ELSE {n}
             IN  /\ \A list \in Range(lists) \union {items} : Len(list) < MaxItems
                 /\ \A db \in {rows, engine} : \A i \in DOMAIN db : Cardinality(db[i].members) <= MaxPerClass
                 => PublicLabels(p, above)
                       \union PublicLabels(EngineContext, NamesAbove(EngineContext, above \ hidden))
                    \subseteq {items[i].label : i \in DOMAIN items}
  <2> DEFINE p == ProjectContext(f)
             e == EngineContext
             roots == collect_engine_member_roots(p, e, n, b)
             lists == MemberLists(p, e, n, a, b)
             items == MergedLists(lists)
             start == {n} \union Range(b[n])
             above == NamesAbove(p, start)
             hidden == IF class_ids_by_name(p, n) = << >> THEN {} ELSE {n}
             L == LabelsOf(items)
  <2> SUFFICES ASSUME \A list \in Range(lists) \union {items} : Len(list) < MaxItems,
                      \A db \in {rows, engine} : \A i \in DOMAIN db : Cardinality(db[i].members) <= MaxPerClass
               PROVE  /\ PublicLabels(p, above) \subseteq L
                      /\ PublicLabels(e, NamesAbove(e, above \ hidden)) \subseteq L
    <3>1. L = {items[i].label : i \in DOMAIN items}
      BY DEF LabelsOf, Range
    <3> HIDE DEF p, e, lists, items, above, hidden, L
    <3> QED BY <3>1 DEF above, hidden, p, e, lists, items, start
  <2>1. b \in [Names -> Seq(Names)]
    BY MembersAssumption
  <2>2. Consistent(p.rows) /\ Consistent(e.rows) /\ FewMembers(p) /\ FewMembers(e)
    BY ContextsAre DEF FewMembers
  <2> HIDE DEF p, e
  <2>3. ListsOf(p, e, n, a, b, lists)
    BY <2>1, <2>2, ListsAre
  <2> HIDE DEF lists
  <2>4. lists \in Seq(Seq(Items)) /\ lists # << >>
    BY <2>3 DEF ListsOf
  <2>5. items \in Seq(Items) /\ (Len(items) < MaxItems => \A k \in 1..Len(lists) : LabelsOf(lists[k]) \subseteq LabelsOf(items))
    BY <2>4, MergedAre
  <2> HIDE DEF items
  <2>6. ASSUME NEW list \in Range(lists) PROVE LabelsOf(list) \subseteq L /\ Len(list) < MaxItems
    <3>1. PICK k \in 1..Len(lists) : list = lists[k]
      BY <2>4 DEF Range
    <3> QED BY <2>5, <3>1
  <2>7. start \in SUBSET Names
    <3>1. b[n] \in Seq(Names)
      BY <2>1
    <3>2. Range(b[n]) \subseteq Names
      BY <3>1, RangeIs
    <3> QED BY <3>2
  <2> HIDE DEF L, roots
  <2>8. ASSUME NEW x \in start PROVE PublicLabels(p, NamesAbove(p, {x})) \subseteq L
    <3>1. PICK how : fetch_members_recursive(p, x, how) \in Range(lists)
      <4>1. CASE x = n
        BY <2>3, <4>1 DEF ListsOf
      <4>2. CASE x \in Range(b[n])
        <5>1. PICK k \in DOMAIN b[n] : x = b[n][k]
          BY <4>2 DEF Range
        <5>2. fetch_members_recursive(p, b[n][k], How(a, TRUE, FALSE)) \in Range(lists)
          BY <2>3 DEF ListsOf
        <5> QED BY <5>1, <5>2
      <4> QED BY <4>1, <4>2
    <3>2. x \in Names
      BY <2>7
    <3> QED BY <2>2, <2>6, <3>1, <3>2, PublicIsListed
  <2>9. PublicLabels(p, above) \subseteq L
    <3> HIDE DEF start
    <3> QED BY <2>2, <2>7, <2>8, AboveEach DEF above
  <2>10. roots \in Seq(Names) /\ \A x \in above \ hidden : class_ids_by_name(e, x) # << >> => x \in Range(roots)
    <3>1. PICK C \in SUBSET Names :
            /\ n \in C /\ \A x \in C : BasesOf(p, x) \union Range(b[x]) \subseteq C
            /\ \A x \in C : IsRoot(p, e, n, x) => x \in Range(roots)
      BY <2>1, <2>2, RootsAre DEF roots, collect_engine_member_roots
    <3>2. start \subseteq C
      BY <3>1
    <3>3. above \subseteq C
      <4> HIDE DEF start
      <4> QED BY <2>2, <2>7, <3>1, <3>2, AboveIs DEF above
    <3>4. \A x \in above \ hidden : class_ids_by_name(e, x) # << >> => IsRoot(p, e, n, x)
      BY DEF IsRoot
    <3>5. roots \in Seq(Names)
      BY <2>1, <2>2, RootsAre DEF roots, collect_engine_member_roots
    <3> HIDE DEF above, hidden
    <3> QED BY <3>1, <3>3, <3>4, <3>5
  <2>11. above \in SUBSET Names
    <3> HIDE DEF start
    <3> QED BY <2>2, <2>7, AboveIs DEF above
  <2> HIDE DEF above, hidden
  <2>12. ASSUME NEW x \in above \ hidden
         PROVE  class_ids_by_name(e, x) = << >> \/ PublicLabels(e, NamesAbove(e, {x})) \subseteq L
    <3> SUFFICES ASSUME class_ids_by_name(e, x) # << >> PROVE PublicLabels(e, NamesAbove(e, {x})) \subseteq L
      OBVIOUS
    <3>1. PICK k \in DOMAIN roots : x = roots[k]
      BY <2>10 DEF Range
    <3>2. fetch_members_recursive(e, roots[k], How(a, roots[k] # n, TRUE)) \in Range(lists)
      BY <2>3 DEF ListsOf, roots
    <3>3. x \in Names
      BY <2>11
    <3> QED BY <2>2, <2>6, <3>1, <3>2, <3>3, PublicIsListed
  <2>13. above \ hidden \in SUBSET Names
    BY <2>11
  <2>14. PublicLabels(e, NamesAbove(e, above \ hidden)) \subseteq L
    <3> DEFINE ns == above \ hidden
    <3> HIDE DEF ns
    <3>1. ns \in SUBSET Names /\ \A x \in ns : class_ids_by_name(e, x) = << >> \/ PublicLabels(e, NamesAbove(e, {x})) \subseteq L
      BY <2>12, <2>13 DEF ns
    <3>2. PublicLabels(e, NamesAbove(e, ns)) \subseteq L
      BY <2>2, <3>1, AboveEach
    <3> QED BY <3>2 DEF ns
  <2> QED BY <2>9, <2>14
<1> QED BY <1>1 DEF InheritedIsOffered

(* InheritedIsOffered holds of every such index: the walks of completion in the project, in
   the buffer and in the Engine put together have all that the names above a class make
   public, as long as no list is full. *)
THEOREM InheritedIsAlwaysOffered == IndexSpec => []InheritedIsOffered
<1>1. IndexSpec => []IndexesConsistent
  BY IndexStarts, IndexKeeps, PTL DEF IndexSpec
<1> QED BY <1>1, InheritedOffered, PTL

-----------------------------------------------------------------------------
\* Members of a name, in their order.

\* What is found in some rows, and never nothing.
HitsIn(db, ids) ==
    {h \in AllHits(db) : h # NoHit /\ h.row \in ids}

\* Members found in some rows are of rows that have their file.
LEMMA HitsAre ==
    ASSUME NEW db, Consistent(db), NEW ids \in SUBSET DOMAIN db, NEW symbol
    PROVE  /\ IsFiniteSet(Hits(db, ids, symbol)) /\ Hits(db, ids, symbol) \subseteq HitsIn(db, ids)
           /\ \A h \in Hits(db, ids, symbol) : db[h.row].live /\ \E m \in db[h.row].members : m.label = symbol
<1> DEFINE live == {i \in ids : db[i].live}
           OfLabel(i) == {m \in db[i].members : m.label = symbol}
           HitsOfRow(i) == {[row |-> i, access |-> m.access, type |-> m.type] : m \in OfLabel(i)}
           each == [i \in live |-> HitsOfRow(i)]
<1>1. Hits(db, ids, symbol) = UNION {each[i] : i \in live}
  <2>1. Hits(db, ids, symbol) = UNION {HitsOfRow(i) : i \in live}
    BY DEF Hits
  <2>2. \A i \in live : each[i] = HitsOfRow(i)
    OBVIOUS
  <2> HIDE DEF each, HitsOfRow
  <2>3. {each[i] : i \in live} = {HitsOfRow(i) : i \in live}
    BY <2>2
  <2> QED BY <2>1, <2>3
<1>2. ASSUME NEW i \in live
      PROVE  /\ IsFiniteSet(HitsOfRow(i)) /\ HitsOfRow(i) \subseteq HitsIn(db, ids)
             /\ \A h \in HitsOfRow(i) : db[h.row].live /\ \E m \in db[h.row].members : m.label = symbol
  <2>1. db[i] \in ClassRows /\ IsFiniteSet(db[i].members) /\ i # 0 /\ i \in ids /\ i \in DOMAIN db /\ db[i].live
    BY ClassRowsAre DEF Linked
  <2>2. db[i].members \in SUBSET MemberRecords
    BY <2>1 DEF ClassRows
  <2> DEFINE M == OfLabel(i)
             f == [m \in M |-> [row |-> i, access |-> m.access, type |-> m.type]]
  <2>3. IsFiniteSet(M) /\ M \subseteq db[i].members
    BY <2>1, FS_Subset
  <2>4. HitsOfRow(i) = {f[m] : m \in M} /\ DOMAIN f = M
    OBVIOUS
  <2>5. IsFiniteSet({f[m] : m \in M})
    <3> HIDE DEF f, M
    <3> QED BY <2>3, <2>4, ImageIs
  <2>6. ASSUME NEW m \in M
        PROVE  LET h == [row |-> i, access |-> m.access, type |-> m.type]
               IN  h \in HitsIn(db, ids) /\ db[h.row].live /\ \E k \in db[h.row].members : k.label = symbol
    <3>1. m \in MemberRecords /\ m.label = symbol /\ m \in db[i].members
      BY <2>2
    <3> HIDE DEF M
    <3> QED BY <2>1, <3>1 DEF HitsIn, AllHits, NoHit, MemberRecords
  <2> HIDE DEF f
  <2> QED BY <2>4, <2>5, <2>6
<1>3. IsFiniteSet(live)
  <2>1. IsFiniteSet(DOMAIN db) /\ live \subseteq DOMAIN db
    BY ClassRowsAre
  <2> HIDE DEF live
  <2> QED BY <2>1, FS_Subset
<1>4. /\ \A i \in live : IsFiniteSet(each[i]) /\ each[i] \subseteq HitsIn(db, ids)
      /\ \A i \in live : \A h \in each[i] : db[h.row].live /\ \E m \in db[h.row].members : m.label = symbol
      /\ DOMAIN each = live
  BY <1>2
<1> HIDE DEF each, live
<1>5. IsFiniteSet({each[i] : i \in live})
  BY <1>3, <1>4, ImageIs
<1> DEFINE S == {each[i] : i \in live}
<1>6. \A T \in S : IsFiniteSet(T)
  BY <1>4
<1>7. IsFiniteSet(UNION S)
  <2> HIDE DEF S
  <2> QED BY <1>5, <1>6, FS_UNION DEF S
<1> QED BY <1>1, <1>4, <1>7

\* Where rows have the symbol there are hits.
LEMMA HitsExist ==
    ASSUME NEW db, NEW ids, NEW symbol, NEW i \in ids, db[i].live, NEW m \in db[i].members, m.label = symbol
    PROVE  Hits(db, ids, symbol) # {}
<1> DEFINE h == [row |-> i, access |-> m.access, type |-> m.type]
           HitsOfRow(j) == {[row |-> j, access |-> k.access, type |-> k.type] : k \in {k \in db[j].members : k.label = symbol}}
<1>1. h \in HitsOfRow(i)
  OBVIOUS
<1>2. Hits(db, ids, symbol) = UNION {HitsOfRow(j) : j \in {j \in ids : db[j].live}}
  BY DEF Hits
<1> HIDE DEF h, HitsOfRow
<1> QED BY <1>1, <1>2

\* Ordered hits are the hits.
LEMMA HitsOrdered ==
    ASSUME NEW db, NEW hits, IsFiniteSet(hits), \A h \in hits : h.row \in Nat, NEW prefer
    PROVE  Ordered(db, hits, prefer) \in Seq(hits) /\ Range(Ordered(db, hits, prefer)) = hits
<1> DEFINE RankOf(h) == (IF (h.access = "impl") = prefer THEN 0 ELSE 2)
                       + (IF (db[h.row].file \in Headers) # prefer THEN 0 ELSE 1)
           before == {p \in hits \X hits : RankOf(p[1]) < RankOf(p[2]) \/ (RankOf(p[1]) = RankOf(p[2]) /\ p[1].row < p[2].row)}
           s == Sorted(hits, before)
<1>1. Ordered(db, hits, prefer) = s
  BY DEF Ordered
<1>2. \A h : RankOf(h) \in Nat
  OBVIOUS
<1>3. WeakOrder(hits, before)
  <2> SUFFICES /\ \A x, y \in hits : <<x, y>> \in before => <<y, x>> \notin before
               /\ \A x, y, z \in hits : <<x, z>> \in before => <<x, y>> \in before \/ <<y, z>> \in before
    BY DEF WeakOrder
  <2> DEFINE rowOf == [h \in hits |-> h.row]
             rank == [h \in hits |-> RankOf(h)]
  <2>1. /\ \A h \in hits : rowOf[h] \in Nat /\ rank[h] \in Nat
        /\ \A g, h \in hits : <<g, h>> \in before <=> rank[g] < rank[h] \/ (rank[g] = rank[h] /\ rowOf[g] < rowOf[h])
    <3> HIDE DEF RankOf
    <3> QED BY <1>2
  <2> HIDE DEF rowOf, rank, before
  <2> QED BY <2>1
<1> HIDE DEF before
<1>4. s \in Seq(hits) /\ Range(s) = hits
  BY <1>3, SortedIs
<1> QED BY <1>1, <1>4

\* The best hit is one of them.
BestOf(db, ids, hits, best, s) ==
    /\ hits = {} <=> best = NoHit
    /\ hits # {} => best \in hits
    /\ best \in AllHits(db) /\ (best # NoHit => best.row \in ids)
    /\ s \in Seq(hits) /\ Range(s) = hits

\* Best is the first of what is found, if anything is.
LEMMA BestIs ==
    ASSUME NEW db, Consistent(db), NEW ids \in SUBSET DOMAIN db, NEW symbol, NEW prefer
    PROVE  BestOf(db, ids, Hits(db, ids, symbol), Best(db, Hits(db, ids, symbol), prefer),
                  Ordered(db, Hits(db, ids, symbol), prefer))
<1> DEFINE hits == Hits(db, ids, symbol)
           s == Ordered(db, hits, prefer)
           best == Best(db, hits, prefer)
<1>1. IsFiniteSet(hits) /\ \A h \in hits : h \in AllHits(db) /\ h # NoHit /\ h.row \in ids
  BY HitsAre DEF HitsIn
<1>2. ids \subseteq Nat
  BY ClassRowsAre
<1>3. best = IF hits = {} THEN NoHit ELSE Head(s)
  BY DEF Best
<1> HIDE DEF hits
<1>4. s \in Seq(hits) /\ Range(s) = hits
  BY <1>1, <1>2, HitsOrdered
<1> HIDE DEF s, best
<1>5. hits # {} => Head(s) \in hits
  <2>1. s = << >> <=> Range(s) = {}
    BY <1>4, NotEmpty
  <2>2. s # << >> => Head(s) \in hits
    BY <1>4, HeadTail
  <2> QED BY <1>4, <2>1, <2>2
<1>6. NoHit \in AllHits(db)
  BY DEF AllHits
<1>7. BestOf(db, ids, hits, best, s)
  BY <1>1, <1>3, <1>4, <1>5, <1>6 DEF BestOf
<1> QED BY <1>7 DEF hits, s, best

-----------------------------------------------------------------------------
\* The chain of goto, and of signatures.

\* Parents, from each row.
LEMMA ParentsOf ==
    ASSUME NEW db, Consistent(db)
    PROVE  /\ Parents(db) \in [DOMAIN db -> Seq(DOMAIN db)] /\ IsFiniteSet(DOMAIN db) /\ DOMAIN db \subseteq Nat \ {0}
           /\ \A i \in DOMAIN db : Range(Parents(db)[i]) = LinkedRows(db, i)
BY ParentIdsAre, ClassRowsAre DEF Parents

\* The rows that have a member of a name.
Wanted(db, symbol) == {i \in DOMAIN db : find_member_in_class(db, i, symbol) # NoHit}

Chain(db, n, symbol) == FirstVisited(get_class_ids(db, n), Parents(db), Wanted(db, symbol))

InClass(db, i, symbol, best, s) ==
    /\ best \in AllHits(db) /\ (best # NoHit => best.row = i /\ best \in Hits(db, {i}, symbol))
    /\ s \in Seq(AllHits(db)) /\ \A h \in Range(s) : h.row = i
    /\ s = << >> <=> best = NoHit

\* The member and the signatures that a row gives.
LEMMA InClassIs ==
    ASSUME NEW db, Consistent(db), NEW i \in DOMAIN db, NEW symbol
    PROVE  InClass(db, i, symbol, find_member_in_class(db, i, symbol), collect_member_signature_items(db, i, symbol))
<1> DEFINE ids == {i}
           hits == Hits(db, ids, symbol)
           s == Ordered(db, hits, FALSE)
           best == Best(db, hits, FALSE)
<1>1. ids \in SUBSET DOMAIN db
  OBVIOUS
<1>2. /\ hits = {} <=> best = NoHit
      /\ hits # {} => best \in hits
      /\ best \in AllHits(db) /\ (best # NoHit => best.row \in ids)
      /\ s \in Seq(hits) /\ Range(s) = hits
  <2>1. BestOf(db, ids, hits, best, s)
    <3> HIDE DEF ids
    <3> QED BY <1>1, BestIs
  <2> HIDE DEF hits, best, s
  <2> QED BY <2>1 DEF BestOf
<1>3. hits \subseteq AllHits(db) /\ \A h \in hits : h.row = i
  <2>1. hits \subseteq HitsIn(db, ids)
    BY <1>1, HitsAre
  <2> HIDE DEF hits
  <2> QED BY <2>1 DEF HitsIn
<1>4. find_member_in_class(db, i, symbol) = best /\ collect_member_signature_items(db, i, symbol) = s
  BY DEF find_member_in_class, collect_member_signature_items
<1> HIDE DEF hits, s, best
<1>5. s \in Seq(AllHits(db))
  BY <1>2, <1>3
<1>6. s = << >> <=> hits = {}
  BY <1>2, NotEmpty
<1>7. InClass(db, i, symbol, best, s)
  BY <1>2, <1>3, <1>5, <1>6 DEF InClass, hits
<1> QED BY <1>4, <1>7

\* The chain of goto.
LEMMA ChainIs ==
    ASSUME NEW db, Consistent(db), NEW n, NEW symbol
    PROVE  /\ Finding(DOMAIN db, get_class_ids(db, n), Parents(db), Wanted(db, symbol), Chain(db, n, symbol))
           /\ find_symbol_in_inheritance_chain(db, n, symbol) =
                 IF Chain(db, n, symbol) = 0 THEN NoHit ELSE find_member_in_class(db, Chain(db, n, symbol), symbol)
           /\ find_symbol_in_inheritance_chain(db, n, symbol) # NoHit <=> Chain(db, n, symbol) # 0
           /\ Chain(db, n, symbol) # 0 =>
                 /\ Chain(db, n, symbol) \in DOMAIN db
                 /\ find_symbol_in_inheritance_chain(db, n, symbol).row = Chain(db, n, symbol)
<1> DEFINE X == DOMAIN db
           start == get_class_ids(db, n)
           w == Wanted(db, symbol)
           i == Chain(db, n, symbol)
<1>1. IsFiniteSet(X) /\ X \subseteq Nat \ {0} /\ start \in Seq(X) /\ Parents(db) \in [X -> Seq(X)]
  BY ParentsOf, ClassIdsAre
<1>2. Finding(X, start, Parents(db), w, i)
  <2> HIDE DEF X, start, w
  <2> QED BY <1>1, FirstVisitedIs DEF Chain, start, w
<1>3. find_symbol_in_inheritance_chain(db, n, symbol) = IF i = 0 THEN NoHit ELSE find_member_in_class(db, i, symbol)
  BY DEF find_symbol_in_inheritance_chain, Chain, Wanted
<1>4. i # 0 => i \in X /\ i \in w
  BY <1>2 DEF Finding
<1>5. i # 0 => i \in X /\ find_member_in_class(db, i, symbol) # NoHit /\ find_member_in_class(db, i, symbol).row = i
  BY <1>4, InClassIs DEF Wanted, InClass
<1> HIDE DEF i
<1> QED BY <1>2, <1>3, <1>5 DEF i

-----------------------------------------------------------------------------
\* The loop of signatures.

SignatureStates(db) == [walk : Walks(DOMAIN db), items : Seq(AllHits(db))]
SignatureList(db, symbol, s) ==
    LET i == Head(s.walk.queue) IN
    IF i \in s.walk.visited THEN s.items ELSE s.items \o collect_member_signature_items(db, i, symbol)

(* Nothing is listed yet and the walk of goto goes on from here, or what is first is of
   the row that goto goes to. *)
SignaturesOnTheWay(db, n, symbol, s) ==
    LET X == DOMAIN db
        w == Wanted(db, symbol)
        end == Loop(WalkFrom(get_class_ids(db, n)), WalkDone(X, w), WalkStep(X, Parents(db)))
    IN  \/ /\ s.items = << >> /\ s.walk.visited \intersect w = {}
           /\ Loop(s.walk, WalkDone(X, w), WalkStep(X, Parents(db))) = end
        \/ s.items # << >> /\ Chain(db, n, symbol) # 0 /\ Head(s.items).row = Chain(db, n, symbol)

\* What is first of two sequences put together.
LEMMA HeadOfConcat ==
    ASSUME NEW V, NEW s \in Seq(V), NEW t \in Seq(V)
    PROVE  /\ s # << >> => s \o t # << >> /\ Head(s \o t) = Head(s)
           /\ s = << >> => s \o t = t
<1> DEFINE c == s \o t
<1>1. /\ c \in Seq(V) /\ Len(c) = Len(s) + Len(t) /\ Len(s) \in Nat /\ Len(t) \in Nat
      /\ \A i \in 1..Len(s) : c[i] = s[i]
  BY ConcatAt
<1>2. s = << >> => c = t
  OBVIOUS
<1> HIDE DEF c
<1>3. s # << >> => 1 \in 1..Len(s) /\ Len(s) # 0
  BY <1>1
<1>4. s # << >> => c # << >> /\ Head(c) = Head(s)
  <2> SUFFICES ASSUME s # << >> PROVE c # << >> /\ Head(c) = Head(s)
    OBVIOUS
  <2>1. Len(c) # 0 /\ c[1] = s[1]
    BY <1>1, <1>3
  <2> QED BY <1>1, <2>1
<1> QED BY <1>2, <1>4 DEF c

SignaturesTurn(db, n, symbol, s, t) ==
    /\ t \in SignatureStates(db) /\ Turns(DOMAIN db, Parents(db), s.walk, t.walk)
    /\ SignaturesOnTheWay(db, n, symbol, s) => SignaturesOnTheWay(db, n, symbol, t)

\* A turn of collect_member_signatures_in_inheritance keeps it so.
LEMMA SignaturesKeep ==
    ASSUME NEW db, Consistent(db), NEW n, NEW symbol, NEW s \in SignatureStates(db), s.walk.queue # << >>
    PROVE  SignaturesTurn(db, n, symbol, s, [walk |-> Visit(s.walk, Parents(db)), items |-> SignatureList(db, symbol, s)])
<1> DEFINE X == DOMAIN db
           w == Wanted(db, symbol)
           done == WalkDone(X, w)
           step == WalkStep(X, Parents(db))
           i == Head(s.walk.queue)
           v == Visit(s.walk, Parents(db))
           more == collect_member_signature_items(db, i, symbol)
           items == SignatureList(db, symbol, s)
           t == [walk |-> v, items |-> items]
<1>1. s.walk \in Walks(X) /\ s.items \in Seq(AllHits(db))
  BY DEF SignatureStates
<1>2. IsFiniteSet(X) /\ Parents(db) \in [X -> Seq(X)]
  BY ParentsOf
<1>3. Turns(X, Parents(db), s.walk, v)
  <2> DEFINE x == s.walk
  <2>1. x \in Walks(X) /\ x.queue # << >>
    BY <1>1
  <2> HIDE DEF x
  <2>2. Turns(X, Parents(db), x, Visit(x, Parents(db)))
    BY <1>2, <2>1, VisitIs
  <2> QED BY <2>2 DEF x
<1> HIDE DEF v
<1>4. v \in Walks(X) /\ i \in X /\ v.visited = s.walk.visited \union {i}
  BY <1>3 DEF Turns
<1>5. /\ more \in Seq(AllHits(db)) /\ \A h \in Range(more) : h.row = i
      /\ more = << >> <=> i \notin w
  <2>1. InClass(db, i, symbol, find_member_in_class(db, i, symbol), more)
    BY <1>4, InClassIs
  <2>2. i \in w <=> find_member_in_class(db, i, symbol) # NoHit
    BY <1>4 DEF Wanted
  <2> HIDE DEF more, w, i
  <2> QED BY <2>1, <2>2 DEF InClass
<1>6. items = IF i \in s.walk.visited THEN s.items ELSE s.items \o more
  BY DEF SignatureList
<1> HIDE DEF more, items
<1>7. /\ items \in Seq(AllHits(db))
      /\ s.items # << >> => items # << >> /\ Head(items) = Head(s.items)
      /\ s.items = << >> => items = IF i \in s.walk.visited THEN << >> ELSE more
  <2> DEFINE old == s.items
  <2>1. old \in Seq(AllHits(db))
    BY <1>1
  <2> HIDE DEF old
  <2>2. /\ old # << >> => old \o more # << >> /\ Head(old \o more) = Head(old)
        /\ old = << >> => old \o more = more
    BY <1>5, <2>1, HeadOfConcat
  <2>3. old \o more \in Seq(AllHits(db))
    BY <1>5, <2>1, ConcatIs
  <2> QED BY <1>6, <2>1, <2>2, <2>3 DEF old
<1>8. t \in SignatureStates(db) /\ t.walk = v /\ t.items = items
  BY <1>4, <1>7 DEF SignatureStates
<1> HIDE DEF t
<1>9. ASSUME SignaturesOnTheWay(db, n, symbol, s) PROVE SignaturesOnTheWay(db, n, symbol, t)
  <2>1. CASE s.items # << >>
    <3>1. Head(s.items).row = Chain(db, n, symbol) /\ Chain(db, n, symbol) # 0
      BY <1>9, <2>1 DEF SignaturesOnTheWay
    <3> QED BY <1>7, <1>8, <2>1, <3>1 DEF SignaturesOnTheWay
  <2>2. CASE s.items = << >>
    <3> DEFINE end == Loop(WalkFrom(get_class_ids(db, n)), done, step)
    <3>1. s.walk.visited \intersect w = {} /\ Loop(s.walk, done, step) = end
      BY <1>9, <2>2 DEF SignaturesOnTheWay
    <3>2. IsLoop(Walks(X), done, step)
      BY <1>2, WalkLoops
    <3>3. Loop(s.walk, done, step) = IF s.walk \in done THEN s.walk ELSE Loop(step[s.walk], done, step)
      <4> DEFINE x == s.walk
                 D == Walks(X)
      <4>1. x \in D
        BY <1>1
      <4> HIDE DEF x, done, step, D
      <4>2. Loop(x, done, step) = IF x \in done THEN x ELSE Loop(step[x], done, step)
        BY <3>2, <4>1, LoopStep DEF D
      <4> QED BY <4>2 DEF x
    <3>4. s.walk \in done <=> i \in w
      BY <1>1 DEF WalkDone
    <3>5. step[s.walk] = v
      BY <1>1 DEF WalkStep, v
    <3>8. Chain(db, n, symbol) = IF end.queue = << >> THEN 0 ELSE Head(end.queue)
      BY <1>2 DEF Chain, FirstVisited, WalkDone, WalkStep
    <3> HIDE DEF done, step
    <3>6. CASE i \in w
      <4>1. s.walk = end
        BY <3>1, <3>3, <3>4, <3>6
      <4>2. Chain(db, n, symbol) = i
        BY <3>8, <4>1
      <4>3. items = more /\ more # << >>
        BY <1>5, <1>7, <2>2, <3>1, <3>6
      <4>4. Head(more) \in Range(more)
        BY <1>5, <4>3, HeadTail
      <4>5. Head(items).row = i
        BY <1>5, <4>3, <4>4
      <4>6. i # 0
        BY <1>4, ParentsOf
      <4> QED BY <1>8, <4>6, <4>2, <4>3, <4>5 DEF SignaturesOnTheWay
    <3>7. CASE i \notin w
      <4>1. items = << >>
        BY <1>5, <1>7, <2>2, <3>7
      <4>2. Loop(v, done, step) = end
        BY <3>1, <3>3, <3>4, <3>5, <3>7
      <4>3. v.visited \intersect w = {}
        BY <1>4, <3>1, <3>7
      <4>4. t.items = << >> /\ t.walk.visited \intersect w = {} /\ Loop(t.walk, done, step) = end
        BY <1>8, <4>1, <4>2, <4>3
      <4> HIDE DEF v
      <4> QED BY <4>4 DEF SignaturesOnTheWay, done, step
    <3> QED BY <3>6, <3>7
  <2> QED BY <2>1, <2>2
<1>10. SignaturesTurn(db, n, symbol, s, t)
  BY <1>3, <1>8, <1>9 DEF SignaturesTurn
<1> QED BY <1>10 DEF t, v, items

-----------------------------------------------------------------------------
\* Signatures and implementations along links.

\* What is cut from a list keeps its first item.
LEMMA CutKeepsHead ==
    ASSUME NEW V, NEW s \in Seq(V), NEW n \in Nat \ {0}
    PROVE  /\ Cut(s, n) \in Seq(V) /\ (Cut(s, n) = << >> <=> s = << >>)
           /\ s # << >> => Head(Cut(s, n)) = Head(s)
<1> DEFINE m == IF Len(s) < n THEN Len(s) ELSE n
           c == SubSeq(s, 1, m)
<1>1. Cut(s, n) = c
  BY DEF Cut
<1>2. Len(s) \in Nat /\ m \in 0..Len(s) /\ (m = 0 <=> Len(s) = 0)
  OBVIOUS
<1> HIDE DEF m
<1>3. c \in Seq(V) /\ Len(c) = m /\ \A i \in 1..m : c[i] = s[i]
  BY <1>2
<1> HIDE DEF c
<1>4. (c = << >> <=> Len(c) = 0) /\ (s = << >> <=> Len(s) = 0)
  BY <1>3
<1>5. s # << >> => Head(c) = c[1] /\ Head(s) = s[1] /\ 1 \in 1..m
  BY <1>2, <1>3, <1>4
<1> QED BY <1>1, <1>2, <1>3, <1>4, <1>5

\* A turn of a walk brings it nearer to its end.
LEMMA WalkNearer ==
    ASSUME NEW X, NEW next, NEW w, NEW v, Turns(X, next, w, v)
    PROVE  /\ v \in Walks(X)
           /\ \/ Cardinality(X \ v.visited) < Cardinality(X \ w.visited)
              \/ Cardinality(X \ v.visited) = Cardinality(X \ w.visited) /\ Len(v.queue) < Len(w.queue)
BY DEF Turns

\* What is left of a walk is finite.
LEMMA WalkSizes ==
    ASSUME NEW X, IsFiniteSet(X), NEW w \in Walks(X)
    PROVE  Cardinality(X \ w.visited) \in Nat /\ Len(w.queue) \in Nat
<1>1. IsFiniteSet(X \ w.visited)
  BY FS_Difference
<1>2. w.queue \in Seq(X)
  BY DEF Walks
<1> QED BY <1>1, <1>2, FS_CardinalityType

\* The first signature is of the row that goto goes to, if it goes to one.
LEMMA SignaturesAre ==
    ASSUME NEW db, Consistent(db), NEW n, NEW symbol
    PROVE  /\ SignaturesFrom(db, n, symbol) \in Seq(AllHits(db))
           /\ SignaturesFrom(db, n, symbol) = << >> <=> Chain(db, n, symbol) = 0
           /\ Chain(db, n, symbol) # 0 => Head(SignaturesFrom(db, n, symbol)).row = Chain(db, n, symbol)
<1> DEFINE X == DOMAIN db
           w == Wanted(db, symbol)
           D == SignatureStates(db)
           done == {s \in D : s.walk.queue = << >> \/ Len(s.items) >= MaxSignatures}
           step == [s \in D |-> [walk |-> Visit(s.walk, Parents(db)), items |-> SignatureList(db, symbol, s)]]
           P == {s \in D : SignaturesOnTheWay(db, n, symbol, s)}
           a == [s \in P |-> Cardinality(X \ s.walk.visited)]
           b == [s \in P |-> Len(s.walk.queue)]
           start == [walk |-> WalkFrom(get_class_ids(db, n)), items |-> << >>]
           end == Loop(start, done, step)
<1>1. ASSUME NEW s \in D, s \notin done
      PROVE  SignaturesTurn(db, n, symbol, s, step[s]) /\ step[s] \in D
  <2>1. s.walk.queue # << >>
    BY <1>1
  <2>2. step[s] = [walk |-> Visit(s.walk, Parents(db)), items |-> SignatureList(db, symbol, s)]
    OBVIOUS
  <2> HIDE DEF step
  <2>3. SignaturesTurn(db, n, symbol, s, step[s])
    BY <2>1, <2>2, SignaturesKeep
  <2> QED BY <2>3 DEF SignaturesTurn
<1>2. IsLoop(D, done, step)
  BY <1>1 DEF IsLoop
<1>3. IsFiniteSet(X) /\ Parents(db) \in [X -> Seq(X)]
  BY ParentsOf
<1>4. Shrinks(P, done, step, a, b)
  <2>1. ASSUME NEW s \in P PROVE Cardinality(X \ s.walk.visited) \in Nat /\ Len(s.walk.queue) \in Nat
    <3> DEFINE x == s.walk
    <3>1. x \in Walks(X)
      BY DEF SignatureStates
    <3> HIDE DEF x, X
    <3> QED BY <1>3, <3>1, WalkSizes DEF x
  <2>2. a \in [P -> Nat] /\ b \in [P -> Nat]
    BY <2>1
  <2>3. ASSUME NEW s \in P, s \notin done
        PROVE  /\ step[s] \in P
               /\ a[step[s]] < a[s] \/ (a[step[s]] = a[s] /\ b[step[s]] < b[s])
    <3> DEFINE t == step[s]
    <3>1. SignaturesTurn(db, n, symbol, s, t) /\ t \in D
      BY <1>1, <2>3
    <3> HIDE DEF t, done, step, D
    <3>2. t \in P /\ Turns(X, Parents(db), s.walk, t.walk)
      BY <3>1 DEF SignaturesTurn
    <3> DEFINE x == s.walk
               y == t.walk
    <3>3. \/ Cardinality(X \ y.visited) < Cardinality(X \ x.visited)
          \/ Cardinality(X \ y.visited) = Cardinality(X \ x.visited) /\ Len(y.queue) < Len(x.queue)
      <4> HIDE DEF x, y, X
      <4> QED BY <3>2, WalkNearer DEF x, y
    <3> QED BY <3>2, <3>3 DEF t
  <2> HIDE DEF a, b, P, done, step
  <2> QED BY <2>2, <2>3 DEF Shrinks
<1>5. start \in P
  <2> DEFINE f == WalkFrom(get_class_ids(db, n))
  <2>1. f \in Walks(X) /\ f.visited = {}
    BY ClassIdsAre DEF WalkFrom, Walks
  <2>2. << >> \in Seq(AllHits(db))
    BY EmptyIs
  <2>3. start \in D /\ start.walk = f /\ start.items = << >>
    <3> HIDE DEF f
    <3> QED BY <2>1, <2>2 DEF SignatureStates, f
  <2> HIDE DEF start
  <2>4. SignaturesOnTheWay(db, n, symbol, start)
    BY <2>1, <2>3 DEF SignaturesOnTheWay
  <2> QED BY <2>3, <2>4
<1>6. end \in P /\ end \in done
  <2>1. P \in SUBSET D
    OBVIOUS
  <2> HIDE DEF P, D, done, step, a, b, start
  <2> QED BY <1>2, <1>4, <1>5, <2>1, LoopEnds
<1>7. SignaturesFrom(db, n, symbol) = Cut(end.items, MaxSignatures)
  BY DEF SignaturesFrom, SignatureStates, SignatureList
<1> HIDE DEF end
<1>8. /\ end.items \in Seq(AllHits(db)) /\ end.walk \in Walks(X)
      /\ SignaturesOnTheWay(db, n, symbol, end) /\ MaxSignatures \in Nat \ {0}
      /\ end.walk.queue = << >> \/ Len(end.items) >= MaxSignatures
  BY <1>6, GotoAssumption DEF SignatureStates
<1>9. /\ end.items = << >> <=> Chain(db, n, symbol) = 0
      /\ end.items # << >> => Head(end.items).row = Chain(db, n, symbol)
  <2>1. CASE end.items # << >>
    BY <1>8, <2>1 DEF SignaturesOnTheWay
  <2>2. CASE end.items = << >>
    <3>1. Len(end.items) = 0
      BY <2>2, EmptyIs
    <3>2. end.walk.queue = << >>
      BY <1>8, <3>1
    <3> DEFINE wd == WalkDone(X, w)
               ws == WalkStep(X, Parents(db))
               last == Loop(WalkFrom(get_class_ids(db, n)), wd, ws)
    <3>3. Loop(end.walk, wd, ws) = last
      BY <1>8, <2>2 DEF SignaturesOnTheWay
    <3>4. end.walk \in wd
      BY <1>8, <3>2 DEF WalkDone
    <3>5. Loop(end.walk, wd, ws) = end.walk
      <4> DEFINE x == end.walk
                 E == Walks(X)
      <4>1. IsLoop(E, wd, ws) /\ x \in E
        BY <1>3, <1>8, WalkLoops
      <4> HIDE DEF x, wd, ws, E
      <4>2. Loop(x, wd, ws) = IF x \in wd THEN x ELSE Loop(ws[x], wd, ws)
        BY <4>1, LoopStep
      <4> QED BY <3>4, <4>2 DEF x
    <3>6. Chain(db, n, symbol) = IF last.queue = << >> THEN 0 ELSE Head(last.queue)
      BY <1>3 DEF Chain, FirstVisited, WalkDone, WalkStep
    <3> HIDE DEF last, wd, ws
    <3> QED BY <2>2, <3>2, <3>3, <3>5, <3>6
  <2> QED BY <2>1, <2>2
<1> DEFINE items == end.items
<1>10. /\ Cut(items, MaxSignatures) \in Seq(AllHits(db))
       /\ Cut(items, MaxSignatures) = << >> <=> items = << >>
       /\ items # << >> => Head(Cut(items, MaxSignatures)) = Head(items)
  <2>1. items \in Seq(AllHits(db))
    BY <1>8
  <2> HIDE DEF items
  <2> QED BY <1>8, <2>1, CutKeepsHead
<1> QED BY <1>7, <1>9, <1>10

-----------------------------------------------------------------------------
\* The loop of find_impl_in_inheritance.

ImplStates(db) == [walk : Walks(DOMAIN db), tried : SUBSET Names, hit : AllHits(db)]

ImplOnTheWay(db, n, s) ==
    /\ OnTheWay(DOMAIN db, get_class_ids(db, n), Parents(db), s.walk)
    /\ s.hit # NoHit => s.hit.row \in DOMAIN db /\ db[s.hit.row].name \in LinkedAbove(db, n)

ByName(db, n, hit) == hit \in AllHits(db) /\ (hit # NoHit => hit.row \in DOMAIN db /\ db[hit.row].name = n)

\* find_member_by_class_name finds a member in a row of the name.
LEMMA ByNameIs ==
    ASSUME NEW db, Consistent(db), NEW n, NEW symbol, NEW prefer
    PROVE  ByName(db, n, find_member_by_class_name(db, n, symbol, prefer))
<1> DEFINE ids == {i \in DOMAIN db : db[i].name = n}
           hits == Hits(db, ids, symbol)
           best == Best(db, hits, prefer)
<1>1. ids \in SUBSET DOMAIN db
  OBVIOUS
<1>2. BestOf(db, ids, hits, best, Ordered(db, hits, prefer))
  <2> HIDE DEF ids
  <2> QED BY <1>1, BestIs
<1>3. find_member_by_class_name(db, n, symbol, prefer) = best
  BY DEF find_member_by_class_name
<1> HIDE DEF best, hits
<1>4. ByName(db, n, best)
  BY <1>2 DEF BestOf, ByName
<1> QED BY <1>3, <1>4

\* FirstHit is one of the hits.
LEMMA OneOfHits ==
    ASSUME NEW hits, NEW l \in Nat, DOMAIN hits = 1..l
    PROVE  FirstHit(hits) # NoHit => \E k \in DOMAIN hits : FirstHit(hits) = hits[k]
<1>1. CASE \E k \in DOMAIN hits : hits[k] # NoHit
  BY <1>1, FirstButIs DEF FirstHit
<1>2. CASE ~ \E k \in DOMAIN hits : hits[k] # NoHit
  BY <1>2, FirstButIs DEF FirstHit
<1> QED BY <1>1, <1>2

\* What links reach has where they start and what each row is linked to.
LEMMA LinkedIs ==
    ASSUME NEW db, Consistent(db), NEW n
    PROVE  \E C \in ClosedSets(DOMAIN db, get_class_ids(db, n), Parents(db)) :
              LinkedAbove(db, n) = {db[i].name : i \in C}
<1> DEFINE X == DOMAIN db
           next == [i \in X |-> Range(Parents(db)[i])]
           start == Range(get_class_ids(db, n))
           c == Closure(start, next)
<1>1. Parents(db) \in [X -> Seq(X)] /\ IsFiniteSet(X) /\ get_class_ids(db, n) \in Seq(X)
  BY ParentsOf, ClassIdsAre
<1>2. start \in SUBSET X
  BY <1>1, RangeIs
<1>3. \A i \in X : Range(Parents(db)[i]) \in SUBSET X
  BY <1>1, RangeIs
<1>4. next \in [X -> SUBSET X] /\ \A i \in X : next[i] = Range(Parents(db)[i])
  BY <1>3
<1>5. LinkedAbove(db, n) = {db[i].name : i \in c}
  BY DEF LinkedAbove
<1> HIDE DEF next, start, c
<1>6. c \in SUBSET X /\ start \subseteq c /\ Leading(c, next)
  BY <1>1, <1>2, <1>4, ClosureIs DEF c
<1>7. c \in ClosedSets(X, get_class_ids(db, n), Parents(db))
  BY <1>4, <1>6 DEF ClosedSets, Leading, start
<1> QED BY <1>5, <1>7

ImplTurn(db, n, s, t) ==
    /\ t \in ImplStates(db) /\ Turns(DOMAIN db, Parents(db), s.walk, t.walk)
    /\ ImplOnTheWay(db, n, s) /\ s.hit = NoHit => ImplOnTheWay(db, n, t)

\* A turn of find_impl_in_inheritance keeps it so.
LEMMA ImplKeeps ==
    ASSUME NEW db, Consistent(db), NEW n, NEW symbol, NEW s \in ImplStates(db), s.walk.queue # << >>
    PROVE  ImplTurn(db, n, s, TryParents(db, s, symbol))
<1> DEFINE X == DOMAIN db
           i == Head(s.walk.queue)
           v == Visit(s.walk, Parents(db))
           parents == Parents(db)[i]
           names == [k \in DOMAIN parents |-> db[parents[k]].name]
           hits == [k \in DOMAIN names |-> IF names[k] \in s.tried THEN NoHit
                                            ELSE find_member_by_class_name(db, names[k], symbol, TRUE)]
           first == FirstHit(hits)
           t == TryParents(db, s, symbol)
<1>1. s.walk \in Walks(X) /\ s.tried \in SUBSET Names /\ s.hit \in AllHits(db)
      /\ s \in [walk : Walks(X), tried : SUBSET Names, hit : AllHits(db)]
  BY DEF ImplStates
<1>2. IsFiniteSet(X) /\ Parents(db) \in [X -> Seq(X)]
  BY ParentsOf
<1>3. Turns(X, Parents(db), s.walk, v)
  <2> DEFINE x == s.walk
  <2>1. x \in Walks(X) /\ x.queue # << >>
    BY <1>1
  <2> HIDE DEF x
  <2>2. Turns(X, Parents(db), x, Visit(x, Parents(db)))
    BY <1>2, <2>1, VisitIs
  <2> QED BY <2>2 DEF x
<1>4. ASSUME ImplOnTheWay(db, n, s) PROVE OnTheWay(X, get_class_ids(db, n), Parents(db), v)
  <2> DEFINE x == s.walk
             from == get_class_ids(db, n)
  <2>1. OnTheWay(X, from, Parents(db), x) /\ x.queue # << >>
    BY <1>4 DEF ImplOnTheWay
  <2> HIDE DEF x, from
  <2>2. OnTheWay(X, from, Parents(db), Visit(x, Parents(db)))
    BY <1>2, <2>1, VisitKeeps
  <2> QED BY <2>2 DEF x, from
<1> HIDE DEF v
<1>5. v \in Walks(X) /\ i \in X /\ i \in Met(s.walk)
  BY <1>3 DEF Turns
<1>6. CASE i \in s.walk.visited
  <2>1. t = [s EXCEPT !.walk = v]
    BY <1>6 DEF TryParents, v
  <2>2. t \in ImplStates(db) /\ t.walk = v /\ t.hit = s.hit
    BY <1>1, <1>5, <2>1 DEF ImplStates
  <2> HIDE DEF t
  <2>3. ImplOnTheWay(db, n, s) => ImplOnTheWay(db, n, t)
    BY <1>4, <2>2 DEF ImplOnTheWay
  <2>4. ImplTurn(db, n, s, t)
    BY <1>3, <2>2, <2>3 DEF ImplTurn
  <2> QED BY <2>4 DEF t
<1>7. CASE i \notin s.walk.visited
  <2>1. t = [walk |-> v, tried |-> s.tried \union Range(names), hit |-> first]
    BY <1>7 DEF TryParents, v
  <2>2. parents \in Seq(X) /\ DOMAIN parents = 1..Len(parents) /\ Len(parents) \in Nat
    BY <1>2, <1>5
  <2>3. \A k \in DOMAIN parents : parents[k] \in X
    BY <2>2
  <2>4. Range(names) \subseteq Names
    <3>1. \A k \in DOMAIN parents : names[k] \in Names
      <4> HIDE DEF parents
      <4> QED BY <2>3, ClassRowsAre
    <3> QED BY <3>1 DEF Range
  <2>5. \A k \in DOMAIN parents :
           /\ hits[k] \in AllHits(db)
           /\ hits[k] # NoHit => hits[k].row \in X /\ db[hits[k].row].name = db[parents[k]].name
    <3>1. NoHit \in AllHits(db)
      BY DEF AllHits
    <3> HIDE DEF parents
    <3>2. \A k \in DOMAIN parents :
             LET hit == find_member_by_class_name(db, names[k], symbol, TRUE)
             IN  hit \in AllHits(db) /\ (hit # NoHit => hit.row \in X /\ db[hit.row].name = names[k])
      <4> HIDE DEF names
      <4> TAKE k \in DOMAIN parents
      <4>1. ByName(db, names[k], find_member_by_class_name(db, names[k], symbol, TRUE))
        BY ByNameIs
      <4> QED BY <4>1 DEF ByName
    <3> QED BY <3>1, <3>2
  <2>6. DOMAIN hits = 1..Len(parents)
    BY <2>2
  <2>7. first # NoHit => \E k \in DOMAIN parents : first = hits[k]
    <3>1. DOMAIN hits = DOMAIN parents
      OBVIOUS
    <3> HIDE DEF hits, parents
    <3> QED BY <2>2, <2>6, <3>1, OneOfHits
  <2>8. NoHit \in AllHits(db)
    BY DEF AllHits
  <2> HIDE DEF hits, names, first
  <2>9. t \in ImplStates(db) /\ t.walk = v /\ t.hit = first
    BY <1>1, <1>5, <2>1, <2>4, <2>5, <2>7, <2>8 DEF ImplStates
  <2> HIDE DEF t
  <2>10. ASSUME ImplOnTheWay(db, n, s), first # NoHit
         PROVE  first.row \in X /\ db[first.row].name \in LinkedAbove(db, n)
    <3>1. PICK k \in DOMAIN parents : first = hits[k]
      BY <2>7, <2>10
    <3>2. first.row \in X /\ db[first.row].name = db[parents[k]].name
      BY <2>5, <2>10, <3>1
    <3>3. PICK C \in ClosedSets(X, get_class_ids(db, n), Parents(db)) : LinkedAbove(db, n) = {db[j].name : j \in C}
      BY LinkedIs
    <3>4. i \in C
      BY <1>5, <2>10 DEF ImplOnTheWay, OnTheWay
    <3>5. parents[k] \in Range(parents) /\ Range(parents) \subseteq C
      BY <3>4 DEF ClosedSets, Range
    <3> QED BY <3>2, <3>3, <3>5
  <2>11. ImplOnTheWay(db, n, s) => ImplOnTheWay(db, n, t)
    BY <1>4, <2>9, <2>10 DEF ImplOnTheWay
  <2>12. ImplTurn(db, n, s, t)
    BY <1>3, <2>9, <2>11 DEF ImplTurn
  <2> QED BY <2>12 DEF t
<1> QED BY <1>6, <1>7

LinkedTo(db, n, hit) == hit # NoHit => hit.row \in DOMAIN db /\ db[hit.row].name \in LinkedAbove(db, n)

\* An implementation that is found along the links is of a class they reach.
LEMMA ImplIs ==
    ASSUME NEW db, Consistent(db), NEW n \in Names, NEW symbol
    PROVE  LinkedTo(db, n, ImplFrom(db, n, symbol))
<1> DEFINE X == DOMAIN db
           D == ImplStates(db)
           done == {s \in D : s.walk.queue = << >> \/ s.hit # NoHit}
           step == [s \in D |-> TryParents(db, s, symbol)]
           P == {s \in D : ImplOnTheWay(db, n, s)}
           a == [s \in P |-> Cardinality(X \ s.walk.visited)]
           b == [s \in P |-> Len(s.walk.queue)]
           start == [walk |-> WalkFrom(get_class_ids(db, n)), tried |-> {n}, hit |-> NoHit]
           end == Loop(start, done, step)
<1>1. ASSUME NEW s \in D, s \notin done
      PROVE  s.hit = NoHit /\ ImplTurn(db, n, s, step[s]) /\ step[s] \in D
  <2>1. s.walk.queue # << >> /\ s.hit = NoHit
    BY <1>1
  <2>2. step[s] = TryParents(db, s, symbol)
    OBVIOUS
  <2> HIDE DEF step
  <2>3. ImplTurn(db, n, s, step[s])
    BY <2>1, <2>2, ImplKeeps
  <2> QED BY <2>1, <2>3 DEF ImplTurn
<1>2. IsLoop(D, done, step)
  BY <1>1 DEF IsLoop
<1>3. IsFiniteSet(X)
  BY ParentsOf
<1>4. Shrinks(P, done, step, a, b)
  <2>1. ASSUME NEW s \in P PROVE Cardinality(X \ s.walk.visited) \in Nat /\ Len(s.walk.queue) \in Nat
    <3> DEFINE x == s.walk
    <3>1. x \in Walks(X)
      BY DEF ImplStates
    <3> HIDE DEF x, X
    <3> QED BY <1>3, <3>1, WalkSizes DEF x
  <2>2. a \in [P -> Nat] /\ b \in [P -> Nat]
    BY <2>1
  <2>3. ASSUME NEW s \in P, s \notin done
        PROVE  /\ step[s] \in P
               /\ a[step[s]] < a[s] \/ (a[step[s]] = a[s] /\ b[step[s]] < b[s])
    <3> DEFINE t == step[s]
    <3>1. s.hit = NoHit /\ ImplTurn(db, n, s, t) /\ t \in D
      BY <1>1, <2>3
    <3> HIDE DEF t, done, step, D
    <3>2. t \in P /\ Turns(X, Parents(db), s.walk, t.walk)
      BY <3>1 DEF ImplTurn
    <3> DEFINE x == s.walk
               y == t.walk
    <3>3. \/ Cardinality(X \ y.visited) < Cardinality(X \ x.visited)
          \/ Cardinality(X \ y.visited) = Cardinality(X \ x.visited) /\ Len(y.queue) < Len(x.queue)
      <4> HIDE DEF x, y, X
      <4> QED BY <3>2, WalkNearer DEF x, y
    <3> QED BY <3>2, <3>3 DEF t
  <2> HIDE DEF a, b, P, done, step
  <2> QED BY <2>2, <2>3 DEF Shrinks
<1>5. start \in P
  <2> DEFINE q == get_class_ids(db, n)
             f == WalkFrom(q)
  <2>1. q \in Seq(X)
    BY ClassIdsAre
  <2> HIDE DEF q
  <2>2. OnTheWay(X, q, Parents(db), f)
    BY <2>1, WalkStarts
  <2> HIDE DEF f
  <2>3. f \in Walks(X) /\ NoHit \in AllHits(db)
    BY <2>2 DEF OnTheWay, AllHits
  <2>4. start \in D /\ start.walk = f /\ start.hit = NoHit
    BY <2>3 DEF ImplStates, f, q
  <2> HIDE DEF start
  <2>5. ImplOnTheWay(db, n, start)
    BY <2>2, <2>4 DEF ImplOnTheWay, q
  <2> QED BY <2>4, <2>5
<1>6. end \in P /\ end \in done
  <2>1. P \in SUBSET D
    OBVIOUS
  <2> HIDE DEF P, D, done, step, a, b, start
  <2> QED BY <1>2, <1>4, <1>5, <2>1, LoopEnds
<1>7. ImplFrom(db, n, symbol) = end.hit
  BY DEF ImplFrom, ImplStates
<1> HIDE DEF end
<1>8. LinkedTo(db, n, end.hit)
  BY <1>6 DEF ImplOnTheWay, LinkedTo
<1> QED BY <1>7, <1>8

-----------------------------------------------------------------------------
\* The requests at one cursor.

AtCursor(c, symbol, n) ==
    /\ c.symbol = symbol /\ c.local = FALSE /\ c.qualifier # NoType
    /\ QualifierClass(c) = n /\ resolve_lookup_class(c) = n /\ resolve_impl_class(c) = n
    /\ \A db : resolve_usage_scope(db, c) = find_symbol_in_inheritance_chain(db, n, symbol)

\* However a class is named at the cursor, each request takes it for that class.
LEMMA CursorIs ==
    ASSUME NEW symbol, NEW n \in Names, NEW a, NEW c \in Qualified(symbol, n, a)
    PROVE  AtCursor(c, symbol, n)
<1>1. PICK q \in {<<Variable, "->">>, <<n, "::">>} :
         c = [symbol |-> symbol, qualifier |-> q[1], op |-> q[2], enclosing |-> a, inferred |-> n, local |-> FALSE]
  BY DEF Qualified
<1>2. /\ Variable # "this" /\ Variable # "Super" /\ Variable # NoType
      /\ n # "this" /\ n # "Super" /\ n # NoType
  BY GotoAssumption, SymbolAssumption
<1>3. /\ c.symbol = symbol /\ c.local = FALSE /\ c.inferred = n
      /\ (c.qualifier = Variable /\ c.op = "->") \/ (c.qualifier = n /\ c.op = "::")
  BY <1>1
<1>4. QualifierClass(c) = n
  BY <1>2, <1>3 DEF QualifierClass, Or
<1>5. resolve_lookup_class(c) = n /\ resolve_impl_class(c) = n
  BY <1>2, <1>3, <1>4 DEF resolve_lookup_class, resolve_impl_class
<1>6. \A db : resolve_usage_scope(db, c) = find_symbol_in_inheritance_chain(db, n, symbol)
  BY <1>2, <1>3 DEF resolve_usage_scope, Or
<1> QED BY <1>2, <1>3, <1>4, <1>5, <1>6 DEF AtCursor

Either(h, otherwise) == IF h # NoHit THEN h ELSE otherwise

\* The first hit of a few.
LEMMA FirstHitIs ==
    ASSUME NEW hits, NEW l \in Nat, DOMAIN hits = 1..l
    PROVE  /\ FirstHit(hits) = NoHit => \A k \in 1..l : hits[k] = NoHit
           /\ FirstHit(hits) # NoHit => \E k \in 1..l : FirstHit(hits) = hits[k] /\ \A j \in 1..l : j < k => hits[j] = NoHit
<1> DEFINE f == FirstBut(NoHit, hits)
<1>1. /\ f = NoHit => \A i \in 1..l : hits[i] = NoHit
      /\ f # NoHit => \E i \in 1..l : f = hits[i] /\ \A j \in 1..l : j < i => hits[j] = NoHit
  BY FirstButIs
<1>2. FirstHit(hits) = f
  BY DEF FirstHit
<1> HIDE DEF f
<1> QED BY <1>1, <1>2

\* FirstHit of four, of three and of two.
LEMMA FirstOfFour ==
    ASSUME NEW g, NEW h, NEW i, NEW j
    PROVE  FirstHit(<<g, h, i, j>>) = Either(g, Either(h, Either(i, j)))
<1> DEFINE s == <<g, h, i, j>>
           l == 4
<1>1. DOMAIN s = 1..l /\ l \in Nat /\ s[1] = g /\ s[2] = h /\ s[3] = i /\ s[4] = j
  OBVIOUS
<1>2. /\ 1 \in 1..l /\ 2 \in 1..l /\ 3 \in 1..l /\ 4 \in 1..l /\ 1 < 2 /\ 1 < 3 /\ 1 < 4 /\ 2 < 3 /\ 2 < 4 /\ 3 < 4
      /\ \A k \in 1..l : k = 1 \/ k = 2 \/ k = 3 \/ k = 4
  OBVIOUS
<1> HIDE DEF s, l
<1> DEFINE f == FirstHit(s)
<1>3. /\ f = NoHit => \A k \in 1..l : s[k] = NoHit
      /\ f # NoHit => \E k \in 1..l : f = s[k] /\ \A m \in 1..l : m < k => s[m] = NoHit
  BY <1>1, FirstHitIs
<1> HIDE DEF f
<1>4. f = Either(g, Either(h, Either(i, j)))
  BY <1>1, <1>2, <1>3 DEF Either
<1> QED BY <1>4 DEF f, s

\* FirstHit of three.
LEMMA FirstOfThree ==
    ASSUME NEW g, NEW h, NEW i
    PROVE  FirstHit(<<g, h, i>>) = Either(g, Either(h, i))
<1> DEFINE s == <<g, h, i>>
           l == 3
<1>1. DOMAIN s = 1..l /\ l \in Nat /\ s[1] = g /\ s[2] = h /\ s[3] = i
  OBVIOUS
<1>2. /\ 1 \in 1..l /\ 2 \in 1..l /\ 3 \in 1..l /\ 1 < 2 /\ 1 < 3 /\ 2 < 3
      /\ \A k \in 1..l : k = 1 \/ k = 2 \/ k = 3
  OBVIOUS
<1> HIDE DEF s, l
<1> DEFINE f == FirstHit(s)
<1>3. /\ f = NoHit => \A k \in 1..l : s[k] = NoHit
      /\ f # NoHit => \E k \in 1..l : f = s[k] /\ \A m \in 1..l : m < k => s[m] = NoHit
  BY <1>1, FirstHitIs
<1> HIDE DEF f
<1>4. f = Either(g, Either(h, i))
  BY <1>1, <1>2, <1>3 DEF Either
<1> QED BY <1>4 DEF f, s

\* FirstHit of two.
LEMMA FirstOfTwo ==
    ASSUME NEW g, NEW h
    PROVE  FirstHit(<<g, h>>) = Either(g, h)
<1> DEFINE s == <<g, h>>
           l == 2
<1>1. DOMAIN s = 1..l /\ l \in Nat /\ s[1] = g /\ s[2] = h
  OBVIOUS
<1>2. 1 \in 1..l /\ 2 \in 1..l /\ 1 < 2 /\ \A k \in 1..l : k = 1 \/ k = 2
  OBVIOUS
<1> HIDE DEF s, l
<1> DEFINE f == FirstHit(s)
<1>3. /\ f = NoHit => \A k \in 1..l : s[k] = NoHit
      /\ f # NoHit => \E k \in 1..l : f = s[k] /\ \A m \in 1..l : m < k => s[m] = NoHit
  BY <1>1, FirstHitIs
<1> HIDE DEF f
<1>4. f = Either(g, h)
  BY <1>1, <1>2, <1>3 DEF Either
<1> QED BY <1>4 DEF f, s

\* goto_definition at such a cursor.
LEMMA DefinitionIs ==
    ASSUME NEW db, NEW symbol, NEW n \in Names, NEW a, NEW c \in Qualified(symbol, n, a)
    PROVE  goto_definition(db, c) =
              Either(find_symbol_in_inheritance_chain(db, n, symbol),
                     Either(find_symbol_in_inheritance_chain(db, c.enclosing, symbol),
                            Either(find_type_definition(db, symbol), find_member_anywhere(db, symbol))))
<1>1. c.symbol = symbol /\ c.local = FALSE /\ c.qualifier # NoType /\ QualifierClass(c) = n
  <2>1. AtCursor(c, symbol, n)
    BY CursorIs
  <2> QED BY <2>1 DEF AtCursor
<1>2. goto_definition(db, c) = FirstHit(<<find_symbol_in_inheritance_chain(db, n, symbol),
         find_symbol_in_inheritance_chain(db, c.enclosing, symbol),
         find_type_definition(db, symbol), find_member_anywhere(db, symbol)>>)
  BY <1>1, Zenon DEF goto_definition
<1> QED BY <1>2, FirstOfFour

\* get_hover at such a cursor.
LEMMA HoverIs ==
    ASSUME NEW db, NEW symbol, NEW n \in Names, NEW a, NEW c \in Qualified(symbol, n, a)
    PROVE  get_hover(db, c) =
              Either(find_symbol_in_inheritance_chain(db, n, symbol),
                     Either(find_type_definition(db, symbol), find_member_anywhere(db, symbol)))
<1>1. c.symbol = symbol /\ c.local = FALSE /\ resolve_lookup_class(c) = n
  <2>1. AtCursor(c, symbol, n)
    BY CursorIs
  <2> QED BY <2>1 DEF AtCursor
<1>2. get_hover(db, c) = FirstHit(<<find_symbol_in_inheritance_chain(db, n, symbol),
         find_type_definition(db, symbol), find_member_anywhere(db, symbol)>>)
  BY <1>1, Zenon DEF get_hover, find_member_hover_in_inheritance_chain, find_type_hover, find_member_hover_anywhere
<1> QED BY <1>2, FirstOfThree

\* No member of a name is in an index that finds none anywhere.
LEMMA NoneAnywhere ==
    ASSUME NEW db, Consistent(db), NEW symbol, find_member_anywhere(db, symbol) = NoHit
    PROVE  collect_function_signatures_anywhere(db, symbol) = << >>
<1> DEFINE ids == DOMAIN db
           hits == Hits(db, ids, symbol)
           s == Ordered(db, hits, FALSE)
           best == Best(db, hits, FALSE)
<1>1. BestOf(db, ids, hits, best, s)
  BY BestIs
<1>2. find_member_anywhere(db, symbol) = best /\ collect_function_signatures_anywhere(db, symbol) = Cut(s, MaxSignatures)
  BY DEF find_member_anywhere, collect_function_signatures_anywhere
<1> HIDE DEF hits, s, best
<1>3. hits = {} /\ s \in Seq(hits)
  BY <1>1, <1>2 DEF BestOf
<1>4. s = << >> /\ MaxSignatures \in Nat \ {0}
  BY <1>3, GotoAssumption
<1> QED BY <1>2, <1>3, <1>4, CutKeepsHead

\* get_signature_help at such a cursor.
LEMMA SignatureHelpIs ==
    ASSUME NEW db, Consistent(db), NEW symbol, NEW n \in Names, NEW a, NEW c \in Qualified(symbol, n, a)
    PROVE  /\ find_symbol_in_inheritance_chain(db, n, symbol) # NoHit
                 => /\ get_signature_help(db, c) # << >> /\ get_signature_help(db, c) \in Seq(AllHits(db))
                    /\ Head(get_signature_help(db, c)).row = find_symbol_in_inheritance_chain(db, n, symbol).row
           /\ /\ find_symbol_in_inheritance_chain(db, n, symbol) = NoHit
              /\ find_member_anywhere(db, symbol) = NoHit
              => get_signature_help(db, c) = << >>
<1> DEFINE inherited == SignaturesFrom(db, n, symbol)
           all == collect_function_signatures_anywhere(db, symbol)
           chain == Chain(db, n, symbol)
           hit == find_symbol_in_inheritance_chain(db, n, symbol)
<1>1. get_signature_help(db, c) = IF inherited # << >> THEN inherited ELSE all
  <2>1. c.symbol = symbol /\ resolve_lookup_class(c) = n
    <3>1. AtCursor(c, symbol, n)
      BY CursorIs
    <3> QED BY <3>1 DEF AtCursor
  <2> QED BY <2>1, Zenon DEF get_signature_help, resolve_signature_class
<1>2. inherited \in Seq(AllHits(db)) /\ (inherited = << >> <=> chain = 0) /\ (chain # 0 => Head(inherited).row = chain)
  BY SignaturesAre
<1>3. (hit # NoHit <=> chain # 0) /\ (chain # 0 => hit.row = chain)
  BY ChainIs
<1>4. find_member_anywhere(db, symbol) = NoHit => all = << >>
  BY NoneAnywhere
<1> HIDE DEF inherited, all, chain
<1> QED BY <1>1, <1>2, <1>3, <1>4

\* An implementation is of the class or of one that its links reach.
LEMMA ImplementationIs ==
    ASSUME NEW db, Consistent(db), NEW symbol, NEW n \in Names, NEW a, NEW c \in Qualified(symbol, n, a),
           goto_implementation(db, c) # NoHit
    PROVE  db[goto_implementation(db, c).row].name \in {n} \union LinkedAbove(db, n)
<1> DEFINE own == find_member_by_class_name(db, n, symbol, TRUE)
           above == ImplFrom(db, n, symbol)
           declared == find_member_by_class_name(db, n, symbol, FALSE)
           hit == Either(Either(own, above), declared)
<1>1. goto_implementation(db, c) = hit
  <2>1. c.symbol = symbol /\ c.local = FALSE /\ resolve_impl_class(c) = n
    <3>1. AtCursor(c, symbol, n)
      BY CursorIs
    <3> QED BY <3>1 DEF AtCursor
  <2>2. find_impl_in_inheritance(db, n, symbol) = Either(own, above)
    BY FirstOfTwo DEF find_impl_in_inheritance
  <2>3. goto_implementation(db, c) = FirstHit(<<Either(own, above), declared>>)
    BY <2>1, <2>2, Zenon DEF goto_implementation
  <2> QED BY <2>3, FirstOfTwo
<1>2. ByName(db, n, own) /\ ByName(db, n, declared) /\ LinkedTo(db, n, above)
  BY ByNameIs, ImplIs
<1>3. hit = own \/ hit = above \/ hit = declared
  BY DEF Either
<1> HIDE DEF own, above, declared, hit
<1> QED BY <1>1, <1>2, <1>3 DEF ByName, LinkedTo

-----------------------------------------------------------------------------
\* The requests agree.

\* The answer of the project's index, or of the Engine's.
LEMMA FederatedIs ==
    /\ \A c : goto_definition_with_engine(c) =
          IF goto_definition(rows, c) # NoHit THEN Answer("project", goto_definition(rows, c))
          ELSE Answer("engine", goto_definition(engine, c))
    /\ \A c : goto_implementation_with_engine(c) =
          IF goto_implementation(rows, c) # NoHit THEN Answer("project", goto_implementation(rows, c))
          ELSE Answer("engine", goto_implementation(engine, c))
    /\ \A c : hover_with_engine(c) =
          IF get_hover(rows, c) # NoHit THEN Answer("project", get_hover(rows, c))
          ELSE Answer("engine", get_hover(engine, c))
BY DEF goto_definition_with_engine, goto_implementation_with_engine, hover_with_engine, Federated

\* The first of the signatures is the first of the hits.
LEMMA SignaturesFromIs ==
    ASSUME NEW V, NEW source, NEW hits \in Seq(V), hits # << >>
    PROVE  Head([k \in DOMAIN hits |-> Answer(source, hits[k])]) = Answer(source, Head(hits))
<1>1. Len(hits) \in Nat \ {0} /\ DOMAIN hits = 1..Len(hits) /\ Head(hits) = hits[1] /\ 1 \in DOMAIN hits
  OBVIOUS
<1> DEFINE f == [k \in DOMAIN hits |-> Answer(source, hits[k])]
<1>2. f \in Seq({Answer(source, hits[k]) : k \in DOMAIN hits})
  BY <1>1
<1>3. f[1] = Answer(source, hits[1])
  BY <1>1
<1> HIDE DEF f
<1>4. Head(f) = f[1]
  BY <1>2
<1> QED BY <1>1, <1>3, <1>4 DEF f

HelpIs(c, source, id) ==
    LET help == signature_help_with_engine(c)
    IN  Head(help).source = source /\ Head(help).hit.row = id

\* Signatures of the project's index.
LEMMA OwnHelp ==
    ASSUME NEW c, NEW V, get_signature_help(rows, c) \in Seq(V), get_signature_help(rows, c) # << >>
    PROVE  HelpIs(c, "project", Head(get_signature_help(rows, c)).row)
<1> DEFINE own == get_signature_help(rows, c)
<1>1. signature_help_with_engine(c) = [k \in DOMAIN own |-> Answer("project", own[k])]
  BY DEF signature_help_with_engine
<1> HIDE DEF own
<1>2. Head([k \in DOMAIN own |-> Answer("project", own[k])]) = Answer("project", Head(own))
  BY SignaturesFromIs DEF own
<1> QED BY <1>1, <1>2 DEF HelpIs, Answer, own

\* Signatures of the Engine's index.
LEMMA EngineHelp ==
    ASSUME NEW c, NEW V, get_signature_help(rows, c) = << >>,
           get_signature_help(engine, c) \in Seq(V), get_signature_help(engine, c) # << >>
    PROVE  HelpIs(c, "engine", Head(get_signature_help(engine, c)).row)
<1> DEFINE far == get_signature_help(engine, c)
<1>1. signature_help_with_engine(c) = [k \in DOMAIN far |-> Answer("engine", far[k])]
  BY DEF signature_help_with_engine
<1> HIDE DEF far
<1>2. Head([k \in DOMAIN far |-> Answer("engine", far[k])]) = Answer("engine", Head(far))
  BY SignaturesFromIs DEF far
<1> QED BY <1>1, <1>2 DEF HelpIs, Answer, far

\* One cursor.
Agree(c, n, symbol) ==
    LET definition == goto_definition_with_engine(c)
        hover == hover_with_engine(c)
        signatures == signature_help_with_engine(c)
        implementation == goto_implementation_with_engine(c)
        member == resolve_usage_scope(rows, c)
        db == IF implementation.source = "project" THEN rows ELSE engine
    IN  /\ (\E s \in {"project", "engine"} : find_symbol_in_inheritance_chain(IF s = "project" THEN rows ELSE engine, n, symbol) # NoHit
               /\ definition.source = s)
           => /\ ClassOf(hover) = ClassOf(definition)
              /\ ClassOf(Head(signatures)) = ClassOf(definition)
        /\ member # NoHit => definition = Answer("project", member)
        /\ implementation.hit # NoHit
              => ClassOf(implementation) \in {n} \union LinkedAbove(db, n)

\* The requests agree at each cursor.
LEMMA RequestsAtCursor ==
    ASSUME IndexesConsistent, NEW symbol \in Labels, NEW n \in Names, NEW a \in Accessors,
           NEW c \in Qualified(symbol, n, a)
    PROVE  Agree(c, n, symbol)
<1> DEFINE own == find_symbol_in_inheritance_chain(rows, n, symbol)
           far == find_symbol_in_inheritance_chain(engine, n, symbol)
           definition == goto_definition_with_engine(c)
           hover == hover_with_engine(c)
           first == Head(signature_help_with_engine(c))
           implementation == goto_implementation_with_engine(c)
           member == resolve_usage_scope(rows, c)
<1>1. Consistent(rows) /\ Consistent(engine)
  BY DEF IndexesConsistent
<1>2. /\ definition = IF goto_definition(rows, c) # NoHit THEN Answer("project", goto_definition(rows, c))
                      ELSE Answer("engine", goto_definition(engine, c))
      /\ hover = IF get_hover(rows, c) # NoHit THEN Answer("project", get_hover(rows, c))
                 ELSE Answer("engine", get_hover(engine, c))
      /\ implementation = IF goto_implementation(rows, c) # NoHit THEN Answer("project", goto_implementation(rows, c))
                          ELSE Answer("engine", goto_implementation(engine, c))
  BY FederatedIs
<1> HIDE DEF definition, hover, implementation
<1>3. own # NoHit => definition = Answer("project", own)
  <2>1. own # NoHit => goto_definition(rows, c) = own
    BY DefinitionIs DEF Either
  <2> HIDE DEF own
  <2> QED BY <1>2, <2>1
<1>4. ASSUME own # NoHit, definition.source = "project"
      PROVE  ClassOf(hover) = ClassOf(definition) /\ ClassOf(first) = ClassOf(definition)
  <2>1. get_hover(rows, c) = own
    BY <1>4, HoverIs DEF Either
  <2>2. get_signature_help(rows, c) # << >> /\ get_signature_help(rows, c) \in Seq(AllHits(rows))
        /\ Head(get_signature_help(rows, c)).row = own.row
    BY <1>1, <1>4, SignatureHelpIs
  <2>3. HelpIs(c, "project", own.row)
    BY <2>2, OwnHelp
  <2>4. first.source = "project" /\ first.hit.row = own.row
    BY <2>3 DEF HelpIs
  <2> HIDE DEF own, first
  <2>5. hover = Answer("project", own)
    BY <1>2, <1>4, <2>1
  <2> QED BY <1>3, <1>4, <2>4, <2>5 DEF ClassOf, Answer
<1>5. ASSUME far # NoHit, definition.source = "engine"
      PROVE  ClassOf(hover) = ClassOf(definition) /\ ClassOf(first) = ClassOf(definition)
  <2>1. goto_definition(rows, c) = NoHit
    BY <1>2, <1>5 DEF Answer
  <2>2. own = NoHit /\ find_type_definition(rows, symbol) = NoHit /\ find_member_anywhere(rows, symbol) = NoHit
    BY <2>1, DefinitionIs DEF Either
  <2>3. get_hover(rows, c) = NoHit
    BY <2>2, HoverIs DEF Either
  <2>4. get_signature_help(rows, c) = << >>
    BY <1>1, <2>2, SignatureHelpIs
  <2>5. goto_definition(engine, c) = far /\ get_hover(engine, c) = far
    BY <1>5, DefinitionIs, HoverIs DEF Either
  <2>6. get_signature_help(engine, c) # << >> /\ get_signature_help(engine, c) \in Seq(AllHits(engine))
        /\ Head(get_signature_help(engine, c)).row = far.row
    BY <1>1, <1>5, SignatureHelpIs
  <2>7. HelpIs(c, "engine", far.row)
    BY <2>4, <2>6, EngineHelp
  <2>8. first.source = "engine" /\ first.hit.row = far.row
    BY <2>7 DEF HelpIs
  <2> HIDE DEF far, first
  <2>9. hover = Answer("engine", far) /\ definition = Answer("engine", far)
    BY <1>2, <2>1, <2>3, <2>5
  <2> QED BY <2>8, <2>9 DEF ClassOf, Answer
<1>6. member # NoHit => definition = Answer("project", member)
  <2>1. AtCursor(c, symbol, n)
    BY CursorIs
  <2>2. member = own
    BY <2>1 DEF AtCursor
  <2> QED BY <1>3, <2>2
<1>7. ASSUME implementation.hit # NoHit
      PROVE  ClassOf(implementation)
                \in {n} \union LinkedAbove(IF implementation.source = "project" THEN rows ELSE engine, n)
  <2> DEFINE near == goto_implementation(rows, c)
             there == goto_implementation(engine, c)
  <2>1. /\ near # NoHit => rows[near.row].name \in {n} \union LinkedAbove(rows, n)
        /\ there # NoHit => engine[there.row].name \in {n} \union LinkedAbove(engine, n)
    BY <1>1, ImplementationIs
  <2> HIDE DEF near, there
  <2>2. implementation = IF near # NoHit THEN Answer("project", near) ELSE Answer("engine", there)
    BY <1>2 DEF near, there
  <2>3. CASE near # NoHit
    BY <2>1, <2>2, <2>3 DEF ClassOf, Answer
  <2>4. CASE near = NoHit
    BY <1>7, <2>1, <2>2, <2>4 DEF ClassOf, Answer
  <2> QED BY <2>3, <2>4
<1>8. ASSUME NEW s \in {"project", "engine"}, definition.source = s,
             find_symbol_in_inheritance_chain(IF s = "project" THEN rows ELSE engine, n, symbol) # NoHit
      PROVE  ClassOf(hover) = ClassOf(definition) /\ ClassOf(first) = ClassOf(definition)
  <2>1. CASE s = "project"
    BY <1>4, <1>8, <2>1
  <2>2. CASE s = "engine"
    BY <1>5, <1>8, <2>2
  <2> QED BY <2>1, <2>2
<1> HIDE DEF member, first
<1> QED BY <1>6, <1>7, <1>8 DEF Agree, definition, hover, implementation, member, first

\* The requests agree, in consistent indexes.
LEMMA RequestsAreOne == IndexesConsistent => RequestsAgree
<1> SUFFICES ASSUME IndexesConsistent PROVE RequestsAgree
  OBVIOUS
<1>1. \A symbol \in Labels, n \in Names, a \in Accessors : \A c \in Qualified(symbol, n, a) : Agree(c, n, symbol)
  BY RequestsAtCursor
<1> QED BY <1>1, Zenon DEF RequestsAgree, Agree

(* RequestsAgree holds of every such index: the walk of goto and of hover and the one that
   collects signatures end at one row, and the one for implementations does not leave what
   links reach. *)
THEOREM RequestsAlwaysAgree == IndexSpec => []RequestsAgree
<1>1. IndexSpec => []IndexesConsistent
  BY IndexStarts, IndexKeeps, PTL DEF IndexSpec
<1> QED BY <1>1, RequestsAreOne, PTL

-----------------------------------------------------------------------------
\* What is offered is found.

Labelled(db, label) == \E i \in DOMAIN db : \E m \in db[i].members : m.label = label

\* What is listed is a member of some row.
LEMMA ListedRow ==
    ASSUME NEW ctx, Consistent(ctx.rows), NEW n, NEW how, NEW x \in Range(fetch_members_recursive(ctx, n, how))
    PROVE  Labelled(ctx.rows, x.label)
<1>1. PICK s : Gathered(ctx, n, how, s) /\ fetch_members_recursive(ctx, n, how) = s.items
  BY FetchIs
<1>2. x \in Range(s.items)
  BY <1>1
<1>3. PICK i \in s.visited : x \in MemberItems(ctx, i, how)
  BY <1>1, <1>2 DEF Gathered
<1>4. i \in DOMAIN ctx.rows
  BY <1>1, <1>3 DEF Gathered, Collecting
<1>5. \E m \in ctx.rows[i].members : m.label = x.label
  BY <1>3 DEF MemberItems, AccessibleMembers
<1> QED BY <1>4, <1>5 DEF Labelled

\* What is offered is a member of some row of the project or of the Engine.
LEMMA OfferedRow ==
    ASSUME NEW p, Consistent(p.rows), NEW e, Consistent(e.rows), NEW n \in Names, NEW a,
           NEW b \in [Names -> Seq(Names)],
           NEW x \in Range(fetch_members_with_engine(p, e, n, a, b))
    PROVE  Labelled(p.rows, x.label) \/ Labelled(e.rows, x.label)
<1> DEFINE roots == collect_engine_member_roots(p, e, n, b)
           lists == MemberLists(p, e, n, a, b)
           items == MergedLists(lists)
<1>1. fetch_members_with_engine(p, e, n, a, b) = items
  BY DEF fetch_members_with_engine
<1>2. ListsOf(p, e, n, a, b, lists)
  BY ListsAre
<1> HIDE DEF lists
<1>3. lists \in Seq(Seq(Items)) /\ lists # << >>
  BY <1>2 DEF ListsOf
<1>4. Range(lists) = {fetch_members_recursive(p, n, How(a, FALSE, FALSE))}
         \union {fetch_members_recursive(p, b[n][k], How(a, TRUE, FALSE)) : k \in DOMAIN b[n]}
         \union {fetch_members_recursive(e, roots[k], How(a, roots[k] # n, TRUE)) : k \in DOMAIN roots}
  BY <1>2 DEF ListsOf
<1>5. \A y \in Range(items) : \E k \in 1..Len(lists) : y \in Range(lists[k])
  BY <1>3, MergedAre
<1> HIDE DEF items, roots
<1>6. PICK k \in 1..Len(lists) : x \in Range(lists[k])
  BY <1>1, <1>5
<1>7. lists[k] \in Range(lists)
  BY <1>3 DEF Range
<1>8. \/ lists[k] = fetch_members_recursive(p, n, How(a, FALSE, FALSE))
      \/ \E j \in DOMAIN b[n] : lists[k] = fetch_members_recursive(p, b[n][j], How(a, TRUE, FALSE))
      \/ \E j \in DOMAIN roots : lists[k] = fetch_members_recursive(e, roots[j], How(a, roots[j] # n, TRUE))
  BY <1>4, <1>7
<1>9. CASE lists[k] = fetch_members_recursive(p, n, How(a, FALSE, FALSE))
  BY <1>6, <1>9, ListedRow
<1>10. ASSUME NEW j \in DOMAIN b[n], lists[k] = fetch_members_recursive(p, b[n][j], How(a, TRUE, FALSE))
       PROVE  Labelled(p.rows, x.label)
  BY <1>6, <1>10, ListedRow
<1>11. ASSUME NEW j \in DOMAIN roots, lists[k] = fetch_members_recursive(e, roots[j], How(a, roots[j] # n, TRUE))
       PROVE  Labelled(e.rows, x.label)
  BY <1>6, <1>11, ListedRow
<1> QED BY <1>8, <1>9, <1>10, <1>11

\* A member of a row that has its file is found somewhere.
LEMMA FoundAnywhere ==
    ASSUME NEW db, Consistent(db), NEW label, Labelled(db, label), \A i \in DOMAIN db : db[i].live
    PROVE  find_member_anywhere(db, label) # NoHit
<1> DEFINE ids == DOMAIN db
           hits == Hits(db, ids, label)
           best == Best(db, hits, FALSE)
<1>1. BestOf(db, ids, hits, best, Ordered(db, hits, FALSE))
  BY BestIs
<1>2. hits # {}
  <2>1. PICK i \in ids : \E m \in db[i].members : m.label = label
    BY DEF Labelled
  <2>2. PICK m \in db[i].members : m.label = label
    BY <2>1
  <2> QED BY <2>1, <2>2, HitsExist
<1>3. find_member_anywhere(db, label) = best
  BY DEF find_member_anywhere
<1> HIDE DEF best, hits
<1> QED BY <1>1, <1>2, <1>3 DEF BestOf

\* goto finds what is offered, unless a row has lost its file.
LEMMA OfferedIsFound ==
    ASSUME IndexesConsistent, NEW n \in Names, NEW a, NEW label, NEW c \in Qualified(label, n, a),
           Labelled(rows, label) \/ Labelled(engine, label)
    PROVE  goto_definition_with_engine(c).hit # NoHit \/ \E j \in DOMAIN rows : ~rows[j].live
<1> SUFFICES ASSUME \A j \in DOMAIN rows : rows[j].live PROVE goto_definition_with_engine(c).hit # NoHit
  OBVIOUS
<1>1. find_member_anywhere(rows, label) # NoHit \/ find_member_anywhere(engine, label) # NoHit
  BY FoundAnywhere DEF IndexesConsistent
<1>2. goto_definition(rows, c) # NoHit \/ goto_definition(engine, c) # NoHit
  BY <1>1, DefinitionIs DEF Either
<1> QED BY <1>2, FederatedIs DEF Answer

-----------------------------------------------------------------------------
\* Healthy links.

\* Without a file that is included, all rows of a name are found.
LEMMA AllOfName ==
    ASSUME NEW db, Consistent(db), NEW n
    PROVE  Range(class_ids_by_name(Context(db, {}), n)) = Named(db, n)
<1> DEFINE ids == {i \in DOMAIN db : db[i].name = n}
           Before(i, j) == db[i].line < db[j].line \/ (db[i].line = db[j].line /\ i < j)
           before == {p \in ids \X ids : Before(p[1], p[2])}
           s == Sorted(ids, before)
           near == {i \in DOMAIN db : db[i].live /\ db[i].file \in {}}
<1>1. Context(db, {}).rows = db /\ Context(db, {}).seen = {}
  BY DEF Context
<1>2. class_ids_by_name(Context(db, {}), n) = Preferred(KeepIn(s, near), s)
  BY <1>1 DEF class_ids_by_name, filter_class_ids_by_includes
<1>3. near = {}
  OBVIOUS
<1>4. IsFiniteSet(ids) /\ ids \subseteq Nat /\ \A i \in ids : db[i].line \in Nat
  BY ClassRowsAre, FS_Subset
<1>5. WeakOrder(ids, before)
  <2> SUFFICES /\ \A x, y \in ids : Before(x, y) => ~Before(y, x)
               /\ \A x, y, z \in ids : Before(x, z) => Before(x, y) \/ Before(y, z)
    BY DEF WeakOrder
  <2> DEFINE line == [i \in ids |-> db[i].line]
  <2>1. /\ \A i \in ids : line[i] \in Nat
        /\ \A i, j \in ids : Before(i, j) <=> line[i] < line[j] \/ (line[i] = line[j] /\ i < j)
    BY <1>4
  <2> HIDE DEF line, Before, ids
  <2> QED BY <1>4, <2>1, SMTT(30)
<1> HIDE DEF before, near
<1>6. s \in Seq(ids) /\ Range(s) = ids
  <2> HIDE DEF ids
  <2> QED BY <1>4, <1>5, SortedIs
<1> DEFINE k == KeepIn(s, near)
<1>7. k \in Seq(ids) /\ Range(k) = Range(s) \intersect near
  <2> HIDE DEF s, ids
  <2> QED BY <1>6, KeepIs
<1> HIDE DEF k, s
<1>8. k = << >>
  BY <1>3, <1>7, NotEmpty
<1>9. Preferred(k, s) = s
  BY <1>8 DEF Preferred
<1> QED BY <1>2, <1>6, <1>9 DEF Named, k

\* What names reach, links reach, where they name the only declaration.
LEMMA NamesAreLinked ==
    ASSUME NEW p, Consistent(p.rows), Healthy(p.rows), NEW n \in Names,
           NEW C \in ClosedSets(DOMAIN p.rows, get_class_ids(p.rows, n), Parents(p.rows)),
           NEW x \in NamesAbove(p, {n}), NEW i \in DOMAIN p.rows, p.rows[i].name = x, Declares(p.rows[i])
    PROVE  i \in C
<1> DEFINE db == p.rows
           D == {y \in Names : \A j \in DOMAIN db : db[j].name = y /\ Declares(db[j]) => j \in C}
<1>1. n \in D
  BY ClassIdsAre DEF ClosedSets, Healthy
<1>2. ASSUME NEW y \in D, NEW b \in BasesOf(p, y) PROVE b \in D
  <2>1. PICK j \in Range(class_ids_by_name(p, y)) : b \in Range(db[j].bases)
    BY DEF BasesOf
  <2>2. j \in DOMAIN db /\ db[j].name = y
    <3>1. Finds(p, y, class_ids_by_name(p, y))
      BY NamedIs
    <3> QED BY <2>1, <3>1 DEF Finds, Named
  <2>3. PICK k \in DOMAIN db[j].bases : b = db[j].bases[k]
    BY <2>1 DEF Range
  <2>4. db[j].bases \in Seq(Names) /\ DOMAIN db[j].links = DOMAIN db[j].bases
    BY <2>2, ClassRowsAre DEF Linked
  <2>5. b \in Names /\ db[j].bases # << >>
    BY <2>3, <2>4
  <2>6. Declares(db[j])
    BY <2>5 DEF Declares
  <2>7. j \in C
    BY <2>2, <2>6
  <2>8. LinkedRows(db, j) \subseteq C
    BY <2>2, <2>7, ParentsOf DEF ClosedSets
  <2>9. ASSUME NEW d \in DOMAIN db, db[d].name = b, Declares(db[d]) PROVE d \in C
    <3>1. CASE db[j].links[k] # 0
      <4>1. {q \in DOMAIN db : db[q].name = db[j].bases[k] /\ Declares(db[q])} \subseteq {db[j].links[k]}
        BY <2>2, <2>3, <2>4, <3>1 DEF Healthy
      <4>2. db[j].links[k] \in LinkedRows(db, j)
        BY <2>3, <3>1 DEF LinkedRows
      <4> QED BY <2>3, <2>8, <2>9, <4>1, <4>2
    <3>2. CASE db[j].links[k] = 0
      <4>1. db[d].live
        BY DEF Healthy
      <4>2. d \in LinkedRows(db, j)
        BY <2>3, <2>9, <3>2, <4>1 DEF LinkedRows
      <4> QED BY <2>8, <4>2
    <3> QED BY <3>1, <3>2
  <2> QED BY <2>5, <2>9
<1>3. D \in SUBSET Names /\ {n} \subseteq D /\ (\A y \in D : BasesOf(p, y) \subseteq D) /\ {n} \in SUBSET Names
  BY <1>1, <1>2
<1>4. NamesAbove(p, {n}) \subseteq D
  <2> HIDE DEF D
  <2> QED BY <1>3, AboveIs
<1> QED BY <1>4

\* A row that links reach is of a name that names reach, whatever is included.
LEMMA LinksAreNames ==
    ASSUME NEW db, Consistent(db), NEW n \in Names
    PROVE  {i \in DOMAIN db : db[i].name \in NamesAbove(Context(db, {}), {n})}
              \in ClosedSets(DOMAIN db, get_class_ids(db, n), Parents(db))
<1> DEFINE ctx == Context(db, {})
           A == NamesAbove(ctx, {n})
           C == {i \in DOMAIN db : db[i].name \in A}
<1>1. ctx.rows = db
  BY DEF Context
<1> HIDE DEF ctx
<1>2. A \in SUBSET Names /\ {n} \subseteq A /\ \A y \in A : BasesOf(ctx, y) \subseteq A
  <2>1. {n} \in SUBSET Names
    OBVIOUS
  <2> QED BY <1>1, <2>1, AboveIs
<1> HIDE DEF A
<1>3. Range(get_class_ids(db, n)) \subseteq C
  BY <1>2, ClassIdsAre
<1>4. ASSUME NEW i \in C, NEW j \in Range(Parents(db)[i]) PROVE j \in C
  <2>1. j \in LinkedRows(db, i) /\ j \in DOMAIN db
    <3>1. j \in LinkedRows(db, i) /\ Parents(db)[i] \in Seq(DOMAIN db)
      BY <1>4, ParentsOf
    <3>2. Range(Parents(db)[i]) \subseteq DOMAIN db
      BY <3>1, RangeIs
    <3> QED BY <3>1, <3>2
  <2>2. PICK k \in DOMAIN db[i].bases : db[j].name = db[i].bases[k]
    BY <2>1, ParentIdsAre
  <2>3. i \in Range(class_ids_by_name(ctx, db[i].name))
    BY AllOfName DEF Named, ctx
  <2>4. db[i].bases[k] \in Range(db[i].bases)
    BY DEF Range
  <2>5. db[i].bases[k] \in BasesOf(ctx, db[i].name)
    BY <1>1, <2>3, <2>4 DEF BasesOf
  <2> QED BY <1>2, <2>1, <2>2, <2>5
<1>5. C \in ClosedSets(DOMAIN db, get_class_ids(db, n), Parents(db))
  <2>1. C \in SUBSET DOMAIN db
    OBVIOUS
  <2> HIDE DEF C
  <2> QED BY <1>3, <1>4, <2>1 DEF ClosedSets
<1> QED BY <1>5 DEF C, A, ctx

\* The chain of goto finds what is public above a class, where links are healthy.
LEMMA PublicIsFound ==
    ASSUME NEW p, Consistent(p.rows), Healthy(p.rows), NEW n \in Names, NEW label,
           label \in PublicLabels(p, NamesAbove(p, {n}))
    PROVE  LET hit == find_symbol_in_inheritance_chain(p.rows, n, label)
           IN  /\ hit # NoHit /\ hit.row \in DOMAIN p.rows
               /\ p.rows[hit.row].name \in NamesAbove(Context(p.rows, {}), {n})
<1> DEFINE db == p.rows
           X == DOMAIN db
           from == get_class_ids(db, n)
           w == Wanted(db, label)
           chain == Chain(db, n, label)
           hit == find_symbol_in_inheritance_chain(db, n, label)
<1>1. /\ Finding(X, from, Parents(db), w, chain)
      /\ hit # NoHit <=> chain # 0
      /\ chain # 0 => chain \in DOMAIN db /\ hit.row = chain
  BY ChainIs
<1>2. PICK x \in NamesAbove(p, {n}) : \E i \in Range(class_ids_by_name(p, x)) :
         \E m \in db[i].members : m.access = "public" /\ m.label = label
  BY PublicIs
<1>3. PICK i \in Range(class_ids_by_name(p, x)) : \E m \in db[i].members : m.access = "public" /\ m.label = label
  BY <1>2
<1>4. PICK m \in db[i].members : m.access = "public" /\ m.label = label
  BY <1>3
<1>5. i \in X /\ db[i].name = x /\ db[i].live /\ Declares(db[i])
  <2>1. Finds(p, x, class_ids_by_name(p, x))
    BY NamedIs
  <2>2. i \in X /\ db[i].name = x
    BY <1>3, <2>1 DEF Finds, Named
  <2> QED BY <1>4, <2>2 DEF Healthy, Declares
<1>6. i \in w
  <2> DEFINE ids == {i}
             hits == Hits(db, ids, label)
             best == Best(db, hits, FALSE)
  <2>1. ids \in SUBSET DOMAIN db /\ i \in ids
    BY <1>5
  <2> HIDE DEF ids
  <2>2. hits # {}
    BY <1>4, <1>5, <2>1, HitsExist
  <2>3. BestOf(db, ids, hits, best, Ordered(db, hits, FALSE))
    BY <2>1, BestIs
  <2>4. best # NoHit
    <3> HIDE DEF hits, best
    <3> QED BY <2>2, <2>3 DEF BestOf
  <2>5. find_member_in_class(db, i, label) = best
    BY DEF find_member_in_class, ids
  <2> QED BY <1>5, <2>4, <2>5 DEF Wanted
<1>7. \A C \in ClosedSets(X, from, Parents(db)) : i \in C
  BY <1>5, NamesAreLinked
<1> HIDE DEF hit, w, chain
<1>8. chain # 0
  BY <1>1, <1>6, <1>7 DEF Finding
<1>9. chain \in {j \in X : db[j].name \in NamesAbove(Context(db, {}), {n})}
  BY <1>1, <1>8, LinksAreNames DEF Finding
<1> QED BY <1>1, <1>8, <1>9 DEF hit

-----------------------------------------------------------------------------
\* What is public is found in the chain.

\* goto goes there.
LEMMA PublicIsReached ==
    ASSUME IndexesConsistent, Healthy(rows), NEW f, NEW n \in Names, NEW a, NEW label,
           NEW c \in Qualified(label, n, a), label \in PublicLabels(ProjectContext(f), NamesAbove(ProjectContext(f), {n}))
    PROVE  /\ goto_definition_with_engine(c).source = "project"
           /\ ClassOf(goto_definition_with_engine(c)) \in NamesAbove(Context(rows, {}), {n})
<1> DEFINE p == ProjectContext(f)
           hit == find_symbol_in_inheritance_chain(rows, n, label)
           found == goto_definition_with_engine(c)
<1>1. p.rows = rows /\ Consistent(p.rows) /\ Healthy(p.rows)
  BY ContextsAre
<1>2. /\ hit # NoHit /\ rows[hit.row].name \in NamesAbove(Context(rows, {}), {n})
  <2> HIDE DEF p
  <2>1. label \in PublicLabels(p, NamesAbove(p, {n}))
    BY DEF p
  <2>2. LET h == find_symbol_in_inheritance_chain(p.rows, n, label)
        IN  /\ h # NoHit /\ h.row \in DOMAIN p.rows
            /\ p.rows[h.row].name \in NamesAbove(Context(p.rows, {}), {n})
    BY <1>1, <2>1, PublicIsFound
  <2> QED BY <1>1, <2>2
<1> HIDE DEF hit
<1>3. goto_definition(rows, c) = hit
  BY <1>2, DefinitionIs DEF Either, hit
<1>4. found = Answer("project", hit)
  BY <1>2, <1>3, FederatedIs
<1> HIDE DEF found
<1>5. found.source = "project" /\ ClassOf(found) = rows[hit.row].name
  BY <1>4 DEF Answer, ClassOf
<1> QED BY <1>2, <1>5 DEF found

\* goto finds what is offered, in consistent indexes.
LEMMA GotoFinds == IndexesConsistent => GotoFindsWhatIsOffered
<1> SUFFICES ASSUME IndexesConsistent PROVE GotoFindsWhatIsOffered
  OBVIOUS
<1>1. ASSUME NEW f \in SourceFiles, NEW n \in Names, NEW a \in Accessors
      PROVE  LET p == ProjectContext(f)
                 items == fetch_members_with_engine(p, EngineContext, n, a, NoBuffer)
             IN  \A i \in DOMAIN items : \A c \in Qualified(items[i].label, n, a) :
                    LET found == goto_definition_with_engine(c) IN
                    /\ found.hit # NoHit \/ \E j \in DOMAIN rows : ~rows[j].live
                    /\ Healthy(rows) /\ items[i].label \in PublicLabels(p, NamesAbove(p, {n}))
                          => /\ found.source = "project"
                             /\ ClassOf(found) \in NamesAbove(Context(rows, {}), {n})
  <2> DEFINE p == ProjectContext(f)
             e == EngineContext
             items == fetch_members_with_engine(p, e, n, a, NoBuffer)
  <2>1. NoBuffer \in [Names -> Seq(Names)]
    BY EmptyIs DEF NoBuffer
  <2>2. p.rows = rows /\ e.rows = engine /\ Consistent(p.rows) /\ Consistent(e.rows)
    BY ContextsAre
  <2>3. ASSUME NEW x \in Range(items) PROVE Labelled(rows, x.label) \/ Labelled(engine, x.label)
    <3> HIDE DEF p, e
    <3>1. Labelled(p.rows, x.label) \/ Labelled(e.rows, x.label)
      BY <2>1, <2>2, OfferedRow
    <3> QED BY <2>2, <3>1
  <2> HIDE DEF items
  <2> SUFFICES ASSUME NEW i \in DOMAIN items, NEW c \in Qualified(items[i].label, n, a)
               PROVE  /\ \/ goto_definition_with_engine(c).hit # NoHit
                         \/ \E j \in DOMAIN rows : ~rows[j].live
                      /\ Healthy(rows) /\ items[i].label \in PublicLabels(p, NamesAbove(p, {n}))
                            => /\ goto_definition_with_engine(c).source = "project"
                               /\ ClassOf(goto_definition_with_engine(c)) \in NamesAbove(Context(rows, {}), {n})
    BY DEF items
  <2> DEFINE label == items[i].label
  <2>4. c \in Qualified(label, n, a) /\ (Labelled(rows, label) \/ Labelled(engine, label))
    <3>1. items[i] \in Range(items)
      BY DEF Range
    <3> QED BY <2>3, <3>1
  <2> HIDE DEF label
  <2>5. goto_definition_with_engine(c).hit # NoHit \/ \E j \in DOMAIN rows : ~rows[j].live
    BY <2>4, OfferedIsFound
  <2>6. ASSUME Healthy(rows), label \in PublicLabels(p, NamesAbove(p, {n}))
        PROVE  /\ goto_definition_with_engine(c).source = "project"
               /\ ClassOf(goto_definition_with_engine(c)) \in NamesAbove(Context(rows, {}), {n})
    BY <2>4, <2>6, PublicIsReached
  <2> QED BY <2>5, <2>6 DEF label
<1> QED BY <1>1 DEF GotoFindsWhatIsOffered

(* GotoFindsWhatIsOffered holds of every such index: the walk of goto along links reaches
   what the walk of completion along names does, where every link names the only
   declaration of its class. *)
THEOREM GotoAlwaysFindsWhatIsOffered == IndexSpec => []GotoFindsWhatIsOffered
<1>1. IndexSpec => []IndexesConsistent
  BY IndexStarts, IndexKeeps, PTL DEF IndexSpec
<1> QED BY <1>1, GotoFinds, PTL
=============================================================================
