---------------------------- MODULE DbOpenProofs ----------------------------
(***************************************************************************)
(* Proofs, for any number of tasks, files, kills and failures, that a      *)
(* database of an earlier version is stamped with the current one by local *)
(* scans alone, and that a half-made database at the path needs a kill or  *)
(* a failure.                                                              *)
(***************************************************************************)
EXTENDS DbOpen, TLAPS

\* The path names no database of an earlier version.
NoOldAtPath == file = NoInode \/ schema[file] # "old"

\* t holds a file that is not of an earlier version.
HandleNotOld(t) == handle[t] \in Inodes /\ schema[handle[t]] # "old"

\* Past the check and the removal, and until it ends, ensure_correct_version
\* and the opening after it can meet no old database; what they have opened to
\* write a schema is not old. A local scan makes neither check nor rebuild.
PastCheck(t) ==
    /\ pc[t] \in {"create", "tables", "version"} => NoOldAtPath
    /\ pc[t] = "open" => NoOldAtPath \/ op[t] = "scan"
    /\ pc[t] \in {"tables", "version", "store"} => HandleNotOld(t)
    /\ pc[t] \in {"initTables", "initVersion", "write"} => handle[t] \in Inodes
    /\ pc[t] \in {"initTables", "initVersion"} => HandleNotOld(t) \/ op[t] = "scan"
    /\ op[t] = "scan" =>
           pc[t] \in {"idle", "open", "initTables", "initVersion", "write"}

\* save_to_db works on the cached connection.
ConnNotOld == conn # NoInode => schema[conn] # "old"

OpenInv == OpenTypeOK /\ ConnNotOld /\ \A t \in Tasks : PastCheck(t)

\* t's last step stamps the old database i, as a local scan may.
StampedByScan(t, i) == op[t] = "scan" /\ handle[t] = i /\ InitVersion(t)

LEMMA OpenPathStep ==
    ASSUME OpenTypeOK, NEW i \in Inodes, OpenPath(i)
    PROVE  /\ file' = i
           /\ schema' \in [Inodes -> Schemas]
           /\ \A j \in Inodes : schema'[j] = "old" <=> schema[j] = "old"
           /\ NoOldAtPath => schema'[i] # "old"
BY FileAssumption DEF OpenPath, OpenTypeOK, Schemas, NoOldAtPath

\* A step that makes no file old, and puts none at the path that is, disturbs
\* only the task that takes it.
LEMMA OthersKept ==
    ASSUME OpenInv, NEW t \in Tasks,
           NoOldAtPath => NoOldAtPath',
           \A j \in Inodes : schema'[j] = "old" => schema[j] = "old",
           \A u \in Tasks \ {t} :
              pc'[u] = pc[u] /\ handle'[u] = handle[u] /\ op'[u] = op[u]
    PROVE  \A u \in Tasks \ {t} : PastCheck(u)'
BY DEF OpenInv, PastCheck, HandleNotOld

\* A cached connection stays one to a file that is not old.
LEMMA ConnKept ==
    ASSUME OpenInv, conn' = conn,
           \A j \in Inodes : schema'[j] = "old" => schema[j] = "old"
    PROVE  ConnNotOld'
BY DEF OpenInv, OpenTypeOK, ConnNotOld

LEMMA StepKeeps ==
    ASSUME OpenInv, NEW t \in Tasks, Work(t)
    PROVE  /\ OpenInv'
           /\ \A i \in Inodes : schema[i] = "old" =>
                 schema'[i] = "old" \/ StampedByScan(t, i)
<1> USE FileAssumption DEF OpenInv, OpenTypeOK, At, Goto, fileVars, Steps, EnsureSteps,
            AfterReady, AfterError, AfterConnected, Ops, Verdicts
<1>1. CASE Exists(t)
  <2>1. OpenTypeOK'
    BY <1>1 DEF Exists
  <2>2. ConnNotOld'
    BY <1>1, ConnKept DEF Exists
  <2>3. PastCheck(t)'
    BY <1>1 DEF Exists, PastCheck, HandleNotOld, NoOldAtPath
  <2>4. \A u \in Tasks \ {t} : PastCheck(u)'
    BY <1>1, OthersKept DEF Exists, NoOldAtPath
  <2> QED BY <1>1, <2>1, <2>2, <2>3, <2>4 DEF Exists
<1>2. CASE Check(t)
  <2> PICK i \in Inodes : 
        /\ OpenPath(i)
        /\ Goto(t, CASE schema'[i] = "empty" -> AfterError(t)
                     [] schema'[i] = "current" -> AfterReady(t)
                     [] OTHER -> "remove")
    BY <1>2 DEF Check
  <2>1. /\ file' = i
        /\ schema' \in [Inodes -> Schemas]
        /\ \A j \in Inodes : schema'[j] = "old" <=> schema[j] = "old"
        /\ NoOldAtPath => schema'[i] # "old"
    BY OpenPathStep
  <2>2. OpenTypeOK'
    BY <1>2, <2>1 DEF Check
  <2>3. ConnNotOld'
    BY <1>2, <2>1, ConnKept DEF Check
  <2>4. PastCheck(t)'
    BY <1>2, <2>1 DEF Check, PastCheck, HandleNotOld, NoOldAtPath
  <2>5. \A u \in Tasks \ {t} : PastCheck(u)'
    BY <1>2, <2>1, OthersKept DEF Check, NoOldAtPath
  <2> QED BY <2>1, <2>2, <2>3, <2>4, <2>5
<1>3. CASE Remove(t)
  <2>1. OpenTypeOK'
    BY <1>3 DEF Remove, RemovePath
  <2>2. ConnNotOld'
    BY <1>3, ConnKept DEF Remove, RemovePath
  <2>3. PastCheck(t)'
    BY <1>3 DEF Remove, PastCheck, HandleNotOld, NoOldAtPath, RemovePath
  <2>4. \A u \in Tasks \ {t} : PastCheck(u)'
    BY <1>3, OthersKept DEF Remove, NoOldAtPath, RemovePath
  <2> QED BY <1>3, <2>1, <2>2, <2>3, <2>4 DEF Remove
<1>4. CASE Create(t)
  <2> PICK i \in Inodes : OpenPath(i) /\ handle' = [handle EXCEPT ![t] = i]
    BY <1>4 DEF Create
  <2>1. /\ file' = i
        /\ schema' \in [Inodes -> Schemas]
        /\ \A j \in Inodes : schema'[j] = "old" <=> schema[j] = "old"
        /\ NoOldAtPath => schema'[i] # "old"
    BY OpenPathStep
  <2>2. OpenTypeOK'
    BY <1>4, <2>1 DEF Create
  <2>3. ConnNotOld'
    BY <1>4, <2>1, ConnKept DEF Create
  <2>4. PastCheck(t)'
    BY <1>4, <2>1 DEF Create, PastCheck, HandleNotOld, NoOldAtPath
  <2>5. \A u \in Tasks \ {t} : PastCheck(u)'
    BY <1>4, <2>1, OthersKept DEF Create, NoOldAtPath
  <2> QED BY <2>1, <2>2, <2>3, <2>4, <2>5
<1>5. CASE Tables(t) \/ InitTables(t)
  <2>1. schema' \in [Inodes -> Schemas]
    BY <1>5 DEF Tables, InitTables, CreateTables, PastCheck, HandleNotOld, Schemas
  <2>2. \A j \in Inodes : schema'[j] = "old" => schema[j] = "old"
    BY <1>5 DEF Tables, InitTables, CreateTables, PastCheck, HandleNotOld, Schemas
  <2>3. \A j \in Inodes : schema[j] = "old" => schema'[j] = "old"
    BY <1>5 DEF Tables, InitTables, CreateTables, PastCheck, HandleNotOld, Schemas
  <2>4. OpenTypeOK'
    BY <1>5, <2>1 DEF Tables, InitTables
  <2>5. ConnNotOld'
    BY <1>5, <2>2, ConnKept DEF Tables, InitTables
  <2>6. PastCheck(t)'
    BY <1>5, <2>2 DEF Tables, InitTables, PastCheck, HandleNotOld, NoOldAtPath
  <2>7. \A u \in Tasks \ {t} : PastCheck(u)'
    BY <1>5, <2>2, OthersKept DEF Tables, InitTables, NoOldAtPath
  <2> QED BY <2>3, <2>4, <2>5, <2>6, <2>7
<1>6. CASE Version(t) \/ InitVersion(t)
  <2>1. schema' \in [Inodes -> Schemas]
    BY <1>6 DEF Version, InitVersion, StampVersion, PastCheck, HandleNotOld, Schemas
  <2>2. \A j \in Inodes : schema'[j] = "old" => schema[j] = "old"
    BY <1>6 DEF Version, InitVersion, StampVersion, PastCheck, HandleNotOld, Schemas
  <2>3. \A j \in Inodes : schema[j] = "old" => schema'[j] = "old" \/ StampedByScan(t, j)
    BY <1>6 DEF Version, InitVersion, StampVersion, PastCheck, HandleNotOld, Schemas,
              StampedByScan
  <2>4. OpenTypeOK'
    BY <1>6, <2>1 DEF Version, InitVersion, Finish
  <2>5. ConnNotOld'
    BY <1>6, <2>2, ConnKept DEF Version, InitVersion, Finish
  <2>6. PastCheck(t)'
    BY <1>6, <2>2 DEF Version, InitVersion, PastCheck, HandleNotOld, NoOldAtPath, Finish
  <2>7. \A u \in Tasks \ {t} : PastCheck(u)'
    BY <1>6, <2>2, OthersKept DEF Version, InitVersion, NoOldAtPath, Finish
  <2> QED BY <2>3, <2>4, <2>5, <2>6, <2>7
<1>7. CASE Count(t)
  <2> PICK i \in Inodes : 
        /\ OpenPath(i)
        /\ verdict' = [verdict EXCEPT ![t] = IF i \in rows THEN "ready" ELSE "refresh"]
    BY <1>7 DEF Count
  <2>1. /\ file' = i
        /\ schema' \in [Inodes -> Schemas]
        /\ \A j \in Inodes : schema'[j] = "old" <=> schema[j] = "old"
        /\ NoOldAtPath => schema'[i] # "old"
    BY OpenPathStep
  <2>2. OpenTypeOK'
    BY <1>7, <2>1 DEF Count, Finish
  <2>3. ConnNotOld'
    BY <1>7, <2>1, ConnKept DEF Count
  <2>4. PastCheck(t)'
    BY <1>7, <2>1 DEF Count, PastCheck, HandleNotOld, NoOldAtPath, Finish
  <2>5. \A u \in Tasks \ {t} : PastCheck(u)'
    BY <1>7, <2>1, OthersKept DEF Count, NoOldAtPath, Finish
  <2> QED BY <2>1, <2>2, <2>3, <2>4, <2>5
<1>8. CASE Cached(t)
  <2>1. OpenTypeOK'
    BY <1>8 DEF Cached, ConnNotOld
  <2>2. ConnNotOld'
    BY <1>8, ConnKept DEF Cached, ConnNotOld
  <2>3. PastCheck(t)'
    BY <1>8 DEF Cached, PastCheck, HandleNotOld, NoOldAtPath, ConnNotOld
  <2>4. \A u \in Tasks \ {t} : PastCheck(u)'
    BY <1>8, OthersKept DEF Cached, NoOldAtPath, ConnNotOld
  <2> QED BY <1>8, <2>1, <2>2, <2>3, <2>4 DEF Cached
<1>9. CASE Open(t)
  <2> PICK i \in Inodes : OpenPath(i) /\ handle' = [handle EXCEPT ![t] = i]
    BY <1>9 DEF Open
  <2>1. /\ file' = i
        /\ schema' \in [Inodes -> Schemas]
        /\ \A j \in Inodes : schema'[j] = "old" <=> schema[j] = "old"
        /\ NoOldAtPath => schema'[i] # "old"
    BY OpenPathStep
  <2>2. OpenTypeOK'
    BY <1>9, <2>1 DEF Open
  <2>3. ConnNotOld'
    BY <1>9, <2>1, ConnKept DEF Open
  <2>4. PastCheck(t)'
    BY <1>9, <2>1 DEF Open, PastCheck, HandleNotOld, NoOldAtPath
  <2>5. \A u \in Tasks \ {t} : PastCheck(u)'
    BY <1>9, <2>1, OthersKept DEF Open, NoOldAtPath
  <2> QED BY <2>1, <2>2, <2>3, <2>4, <2>5
<1>10. CASE Store(t)
  <2>1. OpenTypeOK'
    BY <1>10 DEF Store, PastCheck, HandleNotOld
  <2>2. ConnNotOld'
    BY <1>10 DEF Store, ConnNotOld, PastCheck, HandleNotOld
  <2>3. PastCheck(t)'
    BY <1>10 DEF Store, PastCheck, HandleNotOld, NoOldAtPath, ConnNotOld
  <2>4. \A u \in Tasks \ {t} : PastCheck(u)'
    BY <1>10, OthersKept DEF Store, NoOldAtPath, ConnNotOld
  <2> QED BY <1>10, <2>1, <2>2, <2>3, <2>4 DEF Store
<1>11. CASE Skip(t)
  <2>1. OpenTypeOK'
    BY <1>11 DEF Skip
  <2>2. ConnNotOld'
    BY <1>11, ConnKept DEF Skip
  <2>3. PastCheck(t)'
    BY <1>11 DEF Skip, PastCheck, HandleNotOld, NoOldAtPath
  <2>4. \A u \in Tasks \ {t} : PastCheck(u)'
    BY <1>11, OthersKept DEF Skip, NoOldAtPath
  <2> QED BY <1>11, <2>1, <2>2, <2>3, <2>4 DEF Skip
<1>12. CASE Write(t)
  <2>1. OpenTypeOK'
    <3>1. rows' \in SUBSET Inodes
      BY <1>12 DEF Write, PastCheck
    <3>2. op' \in [Tasks -> Ops] /\ pc' \in [Tasks -> Steps]
      BY <1>12 DEF Write, Finish
    <3> QED BY <1>12, <3>1, <3>2 DEF Write
  <2>2. ConnNotOld'
    BY <1>12, ConnKept DEF Write, Finish
  <2>3. PastCheck(t)'
    BY <1>12 DEF Write, PastCheck, HandleNotOld, NoOldAtPath, Finish
  <2>4. \A u \in Tasks \ {t} : PastCheck(u)'
    BY <1>12, OthersKept DEF Write, NoOldAtPath, Finish
  <2> QED BY <1>12, <2>1, <2>2, <2>3, <2>4 DEF Write
<1> QED BY <1>1, <1>2, <1>3, <1>4, <1>5, <1>6, <1>7, <1>8, <1>9, <1>10, <1>11,
           <1>12 DEF Work

LEMMA RequestOrFailureKeeps ==
    ASSUME OpenInv,
           \/ \E t \in Tasks : (\E o \in Ops : Start(t, o)) \/ Fail(t) \/ KillCli(t)
           \/ KillServer
    PROVE  OpenInv' /\ UNCHANGED schema
<1> USE DEF OpenInv, OpenTypeOK, At, Goto, fileVars
<1>1. ASSUME NEW t \in Tasks, NEW o \in Ops, Start(t, o)
      PROVE  OpenInv' /\ UNCHANGED schema
  <2>1. OpenTypeOK' /\ ConnNotOld' /\ UNCHANGED schema
    BY <1>1 DEF Start, ConnNotOld, Steps, EnsureSteps, Verdicts
  <2>2. PastCheck(t)'
    BY <1>1 DEF Start, PastCheck, Ops
  <2>3. \A u \in Tasks \ {t} : PastCheck(u)'
    BY <1>1, OthersKept DEF Start, NoOldAtPath
  <2> QED BY <2>1, <2>2, <2>3
<1>2. ASSUME NEW t \in Tasks, Fail(t)
      PROVE  OpenInv' /\ UNCHANGED schema
  <2>1. OpenTypeOK' /\ ConnNotOld' /\ UNCHANGED schema
    BY <1>2 DEF Fail, ConnNotOld, AfterError, Steps, EnsureSteps
  <2>2. PastCheck(t)'
    BY <1>2 DEF Fail, PastCheck, AfterError, EnsureSteps
  <2>3. \A u \in Tasks \ {t} : PastCheck(u)'
    BY <1>2, OthersKept DEF Fail, NoOldAtPath
  <2> QED BY <2>1, <2>2, <2>3
<1>3. ASSUME NEW S \in SUBSET Tasks, Kill(S), conn' \in {conn, NoInode}
      PROVE  OpenInv' /\ UNCHANGED schema
  <2>1. OpenTypeOK' /\ ConnNotOld' /\ UNCHANGED schema
    BY <1>3 DEF Kill, ConnNotOld, Steps, Ops, Verdicts
  <2>2. \A t \in Tasks : PastCheck(t)'
    BY <1>3 DEF Kill, PastCheck, HandleNotOld, NoOldAtPath
  <2> QED BY <2>1, <2>2
<1>4. ASSUME KillServer
      PROVE  OpenInv' /\ UNCHANGED schema
  <2>1. {t \in Tasks : op[t] \notin OwnProcess} \in SUBSET Tasks
    OBVIOUS
  <2> QED BY <1>3, <1>4, <2>1 DEF KillServer
<1>5. ASSUME NEW t \in Tasks, KillCli(t)
      PROVE  OpenInv' /\ UNCHANGED schema
  BY <1>3, <1>5 DEF KillCli
<1> QED BY <1>1, <1>2, <1>4, <1>5

LEMMA OpenInvariant == OpenSpec => []OpenInv
<1>1. OpenInit => OpenInv
  <2> SUFFICES ASSUME OpenInit PROVE OpenInv
    OBVIOUS
  <2>1. ConnNotOld /\ \A t \in Tasks : PastCheck(t)
    BY DEF OpenInit, PastCheck, ConnNotOld
  <2>2. /\ op \in [Tasks -> Ops]
        /\ pc \in [Tasks -> Steps]
        /\ handle \in [Tasks -> Inodes \union {NoInode}]
        /\ verdict \in [Tasks -> Verdicts]
        /\ conn \in Inodes \union {NoInode} /\ disturbed \in BOOLEAN
    BY DEF OpenInit, Ops, Steps, EnsureSteps, Verdicts
  <2>3. CASE file = NoInode /\ schema = [i \in Inodes |-> "free"] /\ rows = {}
    BY <2>1, <2>2, <2>3 DEF OpenInv, OpenTypeOK, Schemas
  <2>4. ASSUME NEW i \in Inodes, NEW s \in {"old", "current"}, file = i,
               schema = [j \in Inodes |-> IF j = i THEN s ELSE "free"],
               rows = {i}
        PROVE  OpenInv
    BY <2>1, <2>2, <2>4 DEF OpenInv, OpenTypeOK, Schemas
  <2> QED BY <2>3, <2>4 DEF OpenInit
<1>2. OpenInv /\ [OpenNext]_openVars => OpenInv'
  <2>1. ASSUME OpenInv, UNCHANGED openVars PROVE OpenInv'
    BY <2>1 DEF openVars, OpenInv, OpenTypeOK, PastCheck, HandleNotOld, NoOldAtPath,
        ConnNotOld
  <2> QED BY <2>1, StepKeeps, RequestOrFailureKeeps DEF OpenNext
<1> QED BY <1>1, <1>2, PTL DEF OpenSpec

(* Every variable keeps its type: no opening, kill or failure leads a task to
   an unknown step or leaves it without the file it writes to. *)
THEOREM OpenTypeCorrect == OpenSpec => []OpenTypeOK
BY OpenInvariant, PTL DEF OpenInv

(* A database of an earlier version is stamped as current by no task but a
   local scan: everywhere else init_db runs only on files that
   ensure_correct_version has created or found current, whatever other tasks
   remove and create at the path meanwhile. *)
THEOREM OldStampedByScanOnly == OpenSpec => OldStampedOnlyByScan
<1>1. OpenInv /\ [OpenNext]_openVars
        => [\A i \in Inodes : schema[i] = "old" /\ schema'[i] # "old"
              => \E t \in Tasks : op[t] = "scan" /\ handle[t] = i /\ InitVersion(t)]_openVars
  <2> SUFFICES ASSUME OpenInv, OpenNext, NEW i \in Inodes,
                      schema[i] = "old", schema'[i] # "old"
               PROVE  \E t \in Tasks : StampedByScan(t, i)
    BY DEF StampedByScan
  <2> QED BY StepKeeps, RequestOrFailureKeeps DEF OpenNext
<1> QED BY <1>1, OpenInvariant, PTL DEF OpenSpec, OldStampedOnlyByScan

-----------------------------------------------------------------------------
\* Half-made databases

\* Some file has been created.
Used == \E i \in Inodes : schema[i] # "free"

\* What the path, the cached connection and the tasks name has been created.
NamedAreUsed ==
    /\ file # NoInode => schema[file] # "free"
    /\ conn # NoInode => schema[conn] # "free"
    /\ \A t \in Tasks :
          pc[t] \in {"tables", "version", "store", "initTables", "initVersion", "write"}
          => schema[handle[t]] # "free"

\* Who looks at the version, or opens after it, found or made a file before.
UsedBefore(t) ==
    pc[t] \in {"check", "remove", "count"} \/ (pc[t] = "open" /\ op[t] # "scan") => Used

\* t will give the file at the path its tables and its version.
Finishes(t) ==
    \/ pc[t] = "create"
    \/ /\ handle[t] = file
       /\ \/ pc[t] \in {"tables", "version", "initVersion"}
          \/ pc[t] = "initTables" /\ op[t] # "save"

HalfMade == file # NoInode /\ schema[file] \in {"empty", "unversioned"}

\* Strengthening of HalfMadeOnlyAfterFailure: a file that was removed is about to
\* be created again, and a half-made one to be finished.
MadeInv ==
    /\ NamedAreUsed
    /\ ~disturbed =>
          /\ \A t \in Tasks : UsedBefore(t)
          /\ file = NoInode /\ Used => \E t \in Tasks : pc[t] = "create"
          /\ HalfMade => \E t \in Tasks : Finishes(t)

(* A task works for itself alone. *)
LEMMA OthersWait ==
    ASSUME OpenTypeOK, NEW t \in Tasks, Work(t)
    PROVE  /\ disturbed' = disturbed
           /\ \A u \in Tasks \ {t} :
                 pc'[u] = pc[u] /\ handle'[u] = handle[u] /\ op'[u] = op[u]
BY DEF OpenTypeOK, Work, Exists, Check, Remove, RemovePath, Create, Tables, Version, Count, Cached,
       Open, Store, Skip, InitTables, InitVersion, Write, Finish, Goto

(* No file is forgotten, and only an opening of an empty path or a removal changes
   what the path names. *)
LEMMA WorkOnFiles ==
    ASSUME OpenInv, NamedAreUsed, NEW t \in Tasks, Work(t)
    PROVE  /\ \A i \in Inodes : schema[i] # "free" => schema'[i] # "free"
           /\ \/ file' = file
              \/ Remove(t) /\ file' = NoInode
              \/ /\ file = NoInode /\ file' \in Inodes /\ schema'[file'] = "empty"
                 /\ Check(t) \/ Create(t) \/ Count(t) \/ Open(t)
           /\ file' # NoInode => schema'[file'] # "free"
<1> USE FileAssumption DEF OpenInv, NamedAreUsed, OpenTypeOK, PastCheck, HandleNotOld, At, Schemas
<1>1. ASSUME NEW i \in Inodes, OpenPath(i), Check(t) \/ Create(t) \/ Count(t) \/ Open(t)
      PROVE  /\ \A j \in Inodes : schema[j] # "free" => schema'[j] # "free"
             /\ \/ file' = file
                \/ /\ file = NoInode /\ file' \in Inodes /\ schema'[file'] = "empty"
                   /\ Check(t) \/ Create(t) \/ Count(t) \/ Open(t)
             /\ file' # NoInode => schema'[file'] # "free"
  BY <1>1 DEF OpenPath
<1>2. CASE Remove(t)
  BY <1>2 DEF Remove, RemovePath
<1>3. CASE Tables(t) \/ InitTables(t)
  BY <1>3 DEF Tables, InitTables, CreateTables
<1>4. CASE Version(t) \/ InitVersion(t)
  BY <1>4 DEF Version, InitVersion, StampVersion
<1>5. CASE UNCHANGED <<file, schema>>
  BY <1>5
<1>6. Check(t) \/ Create(t) \/ Count(t) \/ Open(t) => \E i \in Inodes : OpenPath(i)
  BY DEF Check, Create, Count, Open
<1> QED BY <1>1, <1>2, <1>3, <1>4, <1>5, <1>6 DEF Work, Exists, Cached, Store, Skip, Write, fileVars

(* Connections are opened on files that are there. *)
LEMMA NamedStayUsed ==
    ASSUME OpenInv, NamedAreUsed, NEW t \in Tasks, Work(t)
    PROVE  NamedAreUsed'
<1> USE FileAssumption DEF OpenInv, OpenTypeOK, At, Goto
<1>1. \A i \in Inodes : schema[i] # "free" => schema'[i] # "free"
  BY WorkOnFiles
<1>2. file' # NoInode => schema'[file'] # "free"
  BY WorkOnFiles
<1>3. conn' # NoInode => schema'[conn'] # "free"
  <2>1. conn' = conn \/ (Store(t) /\ conn' = handle[t])
    BY DEF Work, Exists, Check, Remove, Create, Tables, Version, Count, Cached, Open, Store,
       Skip, InitTables, InitVersion, Write
  <2> QED BY <1>1, <2>1 DEF NamedAreUsed, Store, PastCheck, HandleNotOld
<1>4. ASSUME NEW u \in Tasks \ {t},
             pc'[u] \in {"tables", "version", "store", "initTables", "initVersion", "write"}
      PROVE  schema'[handle'[u]] # "free"
  BY <1>1, <1>4, OthersWait DEF NamedAreUsed, PastCheck, HandleNotOld
<1>5. ASSUME pc'[t] \in {"tables", "version", "store", "initTables", "initVersion", "write"}
      PROVE  schema'[handle'[t]] # "free"
  <2>1. CASE handle' = handle /\ schema[handle[t]] # "free" /\ handle[t] \in Inodes
    BY <1>1, <2>1
  <2>2. CASE Create(t) \/ Open(t)
    <3>1. handle'[t] \in Inodes /\ OpenPath(handle'[t])
      BY <2>2 DEF Create, Open
    <3> QED BY <1>2, <3>1 DEF OpenPath
  <2>3. CASE Cached(t)
    BY <1>1, <1>5, <2>3 DEF Cached, NamedAreUsed, AfterConnected
  <2>4. CASE Store(t)
    BY <1>1, <2>4 DEF Store, NamedAreUsed, PastCheck, HandleNotOld
  <2>5. CASE Tables(t) \/ InitTables(t) \/ InitVersion(t)
    BY <2>1, <2>5 DEF Tables, InitTables, InitVersion, NamedAreUsed, PastCheck, HandleNotOld
  <2>6. pc'[t] \notin {"tables", "version", "store", "initTables", "initVersion", "write"}
        \/ Create(t) \/ Open(t) \/ Cached(t) \/ Store(t)
        \/ Tables(t) \/ InitTables(t) \/ InitVersion(t)
    BY DEF Work, Exists, Check, Remove, RemovePath, Version, Count, Skip, Write, Finish,
       AfterReady, AfterError
  <2> QED BY <1>5, <2>2, <2>3, <2>4, <2>5, <2>6
<1> QED BY <1>2, <1>3, <1>4, <1>5 DEF NamedAreUsed

(* Whoever looks for a version, or removes a file for it, has seen one. *)
LEMMA StaysUsedBefore ==
    ASSUME OpenInv, NamedAreUsed, \A u \in Tasks : UsedBefore(u), NEW t \in Tasks, Work(t)
    PROVE  \A u \in Tasks : UsedBefore(u)'
<1> USE FileAssumption DEF OpenInv, OpenTypeOK, At, Goto
<1>1. Used => Used'
  BY WorkOnFiles DEF Used
<1>2. \A u \in Tasks \ {t} : UsedBefore(u)'
  BY <1>1, OthersWait DEF UsedBefore
<1>3. ASSUME NEW i \in Inodes, i = file' \/ schema'[i] # "free" PROVE Used'
  BY <1>3, WorkOnFiles DEF Used
<1>4. ASSUME pc'[t] \in {"check", "remove", "count"} \/ (pc'[t] = "open" /\ op'[t] # "scan")
      PROVE  Used'
  <2>1. CASE Exists(t)
    BY <1>3, <1>4, <2>1 DEF Exists, fileVars
  <2>2. CASE Check(t)
    BY <1>3, <2>2 DEF Check, OpenPath
  <2>3. CASE Remove(t)
    BY <1>1, <2>3 DEF Remove, UsedBefore
  <2>4. CASE Version(t)
    BY <1>3, <2>4 DEF Version, StampVersion, PastCheck, HandleNotOld
  <2> QED
    BY <1>4, <2>1, <2>2, <2>3, <2>4 DEF Work, Create, Tables, Count, Cached, Open, Store,
       Skip, InitTables, InitVersion, Write, Finish, AfterConnected
<1> QED BY <1>2, <1>4 DEF UsedBefore

(* A file that is gone is about to be created again by the task that removed it,
   or by another. *)
LEMMA StaysGoneIsCreated ==
    ASSUME OpenInv, MadeInv, ~disturbed, NEW t \in Tasks, Work(t), file' = NoInode, Used'
    PROVE  \E u \in Tasks : pc'[u] = "create"
<1> USE FileAssumption DEF OpenInv, OpenTypeOK, At, Goto, MadeInv
<1>1. CASE file # NoInode
  <2>1. Remove(t)
    BY <1>1, WorkOnFiles
  <2> QED BY <1>1, <2>1 DEF Remove, RemovePath
<1>2. CASE file = NoInode
  <2>1. Used
    <3>1. CASE Tables(t) \/ InitTables(t) \/ Version(t) \/ InitVersion(t)
      BY <3>1 DEF Tables, InitTables, Version, InitVersion, NamedAreUsed, PastCheck,
         HandleNotOld, Used
    <3>2. CASE UNCHANGED schema
      BY <3>2 DEF Used
    <3>3. ASSUME NEW i \in Inodes, OpenPath(i) PROVE FALSE
      BY <1>2, <3>3 DEF OpenPath
    <3> QED
      BY <3>1, <3>2, <3>3 DEF Work, Exists, Check, Remove, Create, Count, Cached, Open, Store,
         Skip, Write, fileVars
  <2>2. PICK u \in Tasks : pc[u] = "create"
    BY <1>2, <2>1
  <2>3. u # t
    <3>1. ASSUME NEW i \in Inodes, OpenPath(i) PROVE FALSE
      BY <1>2, <3>1 DEF OpenPath
    <3> QED
      BY <2>2, <3>1 DEF Work, Exists, Check, Remove, Create, Tables, Version, Count, Cached,
         Open, Store, Skip, InitTables, InitVersion, Write
  <2> QED BY <2>2, <2>3, OthersWait
<1> QED BY <1>1, <1>2

(* A half-made file at the path has a task that goes on with it: who makes one and
   does not finish it has met a path that was just emptied. *)
LEMMA StaysFinished ==
    ASSUME OpenInv, MadeInv, ~disturbed, NEW t \in Tasks, Work(t), HalfMade'
    PROVE  \E u \in Tasks : Finishes(u)'
<1> USE FileAssumption DEF OpenInv, OpenTypeOK, At, Goto
<1>1. CASE file' = file
  <2>1. HalfMade
    <3>1. CASE Tables(t) \/ InitTables(t) \/ Version(t) \/ InitVersion(t)
      BY <1>1, <3>1 DEF Tables, InitTables, CreateTables, Version, InitVersion, StampVersion,
         HalfMade, PastCheck, HandleNotOld
    <3>2. CASE UNCHANGED schema
      BY <1>1, <3>2 DEF HalfMade
    <3>3. ASSUME NEW i \in Inodes, OpenPath(i) PROVE UNCHANGED schema
      BY <1>1, <3>3 DEF OpenPath
    <3> QED
      BY <3>1, <3>2, <3>3 DEF Work, Exists, Check, Remove, Create, Count, Cached, Open, Store,
         Skip, Write, fileVars
  <2>2. PICK u \in Tasks : Finishes(u)
    BY <2>1 DEF MadeInv
  <2>3. CASE u # t
    BY <1>1, <2>2, <2>3, OthersWait DEF Finishes
  <2>4. CASE u = t
    <3>1. CASE Create(t)
      BY <1>1, <2>1, <3>1 DEF Create, OpenPath, Finishes, HalfMade
    <3>2. CASE Tables(t) \/ InitTables(t)
      BY <1>1, <2>2, <2>4, <3>2 DEF Tables, InitTables, Finishes
    <3>3. CASE Version(t) \/ InitVersion(t)
      BY <1>1, <2>2, <2>4, <3>3 DEF Version, InitVersion, StampVersion, Finishes, HalfMade,
         PastCheck, HandleNotOld
    <3>4. ~Skip(t)
      BY <2>2, <2>4 DEF Skip, Finishes
    <3> QED
      BY <2>2, <2>4, <3>1, <3>2, <3>3, <3>4 DEF Finishes, Work, Exists, Check, Remove, Count,
         Cached, Open, Store, Write
  <2> QED BY <2>3, <2>4
<1>2. CASE /\ file = NoInode /\ file' \in Inodes /\ schema'[file'] = "empty"
           /\ Check(t) \/ Create(t) \/ Count(t) \/ Open(t)
  <2>1. CASE Create(t)
    BY <1>2, <2>1 DEF Create, OpenPath, Finishes
  <2>2. CASE Open(t) /\ op[t] \notin {"get", "save"}
    <3>1. handle'[t] = file' /\ pc'[t] = "initTables" /\ op'[t] # "save"
      BY <1>2, <2>2 DEF Open, OpenPath
    <3> QED BY <3>1 DEF Finishes
  <2>3. CASE Check(t) \/ Count(t) \/ (Open(t) /\ op[t] \in {"get", "save"})
    <3>1. Used
      BY <2>3 DEF MadeInv, UsedBefore, Check, Count, Open
    <3>2. PICK u \in Tasks : pc[u] = "create"
      BY <1>2, <3>1 DEF MadeInv
    <3>3. u # t
      BY <2>3, <3>2 DEF Check, Count, Open
    <3> QED BY <3>2, <3>3, OthersWait DEF Finishes
  <2> QED BY <1>2, <2>1, <2>2, <2>3
<1>3. file' # NoInode
  BY DEF HalfMade
<1> QED BY <1>1, <1>2, <1>3, WorkOnFiles DEF MadeInv

(* Requests, failures and kills touch no file. *)
LEMMA RequestOrFailureKeepsMade ==
    ASSUME OpenInv, MadeInv,
           \/ \E t \in Tasks : (\E o \in Ops : Start(t, o)) \/ Fail(t) \/ KillCli(t)
           \/ KillServer
    PROVE  MadeInv'
<1> USE DEF OpenInv, OpenTypeOK, At, Goto, fileVars
<1>1. ASSUME NEW t \in Tasks, NEW o \in Ops, Start(t, o) PROVE MadeInv'
  <2>1. UNCHANGED <<fileVars, disturbed>> /\ pc[t] = "idle" /\ conn' \in {conn, NoInode}
        /\ \A u \in Tasks \ {t} : pc'[u] = pc[u] /\ handle'[u] = handle[u] /\ op'[u] = op[u]
    BY <1>1 DEF Start
  <2>2. pc'[t] \in {"cached", "exists"} \/ (pc'[t] = "open" /\ op'[t] = "scan")
    BY <1>1 DEF Start
  <2>3. NamedAreUsed'
    BY <2>1, <2>2 DEF MadeInv, NamedAreUsed
  <2>4. (\A u \in Tasks : UsedBefore(u)) => \A u \in Tasks : UsedBefore(u)'
    BY <2>1, <2>2 DEF UsedBefore, Used
  <2>5. \A u \in Tasks : (pc[u] = "create" => pc'[u] = "create") /\ (Finishes(u) => Finishes(u)')
    BY <2>1 DEF Finishes
  <2> QED BY <2>1, <2>3, <2>4, <2>5 DEF MadeInv, Used, HalfMade
<1>2. ASSUME NEW t \in Tasks, Fail(t) PROVE MadeInv'
  BY <1>2 DEF Fail, AfterError, MadeInv, NamedAreUsed
<1>3. ASSUME NEW S \in SUBSET Tasks, Kill(S), conn' \in {conn, NoInode} PROVE MadeInv'
  BY <1>3 DEF Kill, MadeInv, NamedAreUsed
<1>4. {t \in Tasks : op[t] \notin OwnProcess} \in SUBSET Tasks
  OBVIOUS
<1> QED BY <1>1, <1>2, <1>3, <1>4 DEF KillServer, KillCli

(* Setups, refreshes, scans and the watcher leave no half-made database at the
   path, however many there are and however they interleave: one without tables
   or version needs a process killed or a failed operation
   (ensure_correct_version, init_db). *)
THEOREM HalfMadeByFailureOnly == OpenSpec => []HalfMadeOnlyAfterFailure
<1>1. OpenInit => MadeInv
  <2> SUFFICES ASSUME OpenInit PROVE MadeInv
    OBVIOUS
  <2>1. /\ \A t \in Tasks : pc[t] = "idle"
        /\ conn = NoInode
    BY DEF OpenInit
  <2>2. CASE file = NoInode /\ schema = [i \in Inodes |-> "free"]
    BY <2>1, <2>2 DEF MadeInv, NamedAreUsed, UsedBefore, Used, HalfMade
  <2>3. ASSUME NEW i \in Inodes, NEW s \in {"old", "current"}, file = i,
               schema = [j \in Inodes |-> IF j = i THEN s ELSE "free"]
        PROVE  MadeInv
    BY <2>1, <2>3, FileAssumption DEF MadeInv, NamedAreUsed, UsedBefore, HalfMade
  <2> QED BY <2>2, <2>3 DEF OpenInit
<1>2. OpenInv /\ MadeInv /\ [OpenNext]_openVars => MadeInv'
  <2> SUFFICES ASSUME OpenInv, MadeInv, [OpenNext]_openVars PROVE MadeInv'
    OBVIOUS
  <2>1. ASSUME NEW t \in Tasks, Work(t) PROVE MadeInv'
    <3>1. NamedAreUsed'
      BY <2>1, NamedStayUsed DEF MadeInv
    <3>2. disturbed' = disturbed
      BY <2>1, OthersWait DEF OpenInv
    <3>3. ASSUME ~disturbed PROVE \A u \in Tasks : UsedBefore(u)'
      BY <2>1, <3>3, StaysUsedBefore DEF MadeInv
    <3>4. ASSUME ~disturbed, file' = NoInode, Used' PROVE \E u \in Tasks : pc'[u] = "create"
      BY <2>1, <3>4, StaysGoneIsCreated
    <3>5. ASSUME ~disturbed, HalfMade' PROVE \E u \in Tasks : Finishes(u)'
      BY <2>1, <3>5, StaysFinished
    <3> QED BY <3>1, <3>2, <3>3, <3>4, <3>5 DEF MadeInv
  <2>2. CASE UNCHANGED openVars
    BY <2>2 DEF openVars, MadeInv, NamedAreUsed, UsedBefore, Used, HalfMade, Finishes
  <2> QED BY <2>1, <2>2, RequestOrFailureKeepsMade DEF OpenNext
<1>3. OpenInv /\ MadeInv => HalfMadeOnlyAfterFailure
  <2> SUFFICES ASSUME OpenInv, MadeInv, Quiescent, ~disturbed, file # NoInode
               PROVE  schema[file] \in {"old", "current"}
    BY DEF HalfMadeOnlyAfterFailure
  <2>1. ~HalfMade
    BY DEF MadeInv, Quiescent, At, Finishes
  <2> QED BY <2>1 DEF OpenInv, OpenTypeOK, Schemas, MadeInv, NamedAreUsed, HalfMade
<1> QED BY <1>1, <1>2, <1>3, OpenInvariant, PTL DEF OpenSpec
=============================================================================
