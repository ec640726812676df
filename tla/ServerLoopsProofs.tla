------------------------- MODULE ServerLoopsProofs -------------------------
(* Theorems about WatchLoop and ClientLifecycle, for any directories, files,
   requests, workers and clients, and any size of the channel. *)
EXTENDS WatchLoop, ClientLifecycle, FiniteSetTheorems, TLAPS

-----------------------------------------------------------------------------
\* Sequences of paths

Among(f, s) == \E i \in DOMAIN s : s[i] = f

(* A path that is appended is there, and the others stay. *)
LEMMA AmongAppended ==
    ASSUME NEW s \in Seq(Files), NEW g \in Files
    PROVE  /\ Among(g, Append(s, g))
           /\ \A f \in Files : Among(f, s) => Among(f, Append(s, g))
<1>1. Append(s, g)[Len(s) + 1] = g /\ Len(s) + 1 \in DOMAIN Append(s, g)
  OBVIOUS
<1>2. \A i \in DOMAIN s : i \in DOMAIN Append(s, g) /\ Append(s, g)[i] = s[i]
  OBVIOUS
<1> QED
  BY <1>1, <1>2 DEF Among

(* All but the first path remain in the rest. *)
LEMMA AmongTail ==
    ASSUME NEW s \in Seq(Files), s # << >>, NEW f \in Files, Among(f, s)
    PROVE  f = Head(s) \/ Among(f, Tail(s))
<1>1. PICK i \in 1..Len(s) : s[i] = f
  BY DEF Among
<1>2. CASE i = 1
  BY <1>1, <1>2
<1>3. CASE i # 1
  <2>1. i - 1 \in DOMAIN Tail(s) /\ Tail(s)[i - 1] = f
    BY <1>1, <1>3
  <2> QED
    BY <2>1 DEF Among
<1> QED
  BY <1>2, <1>3

-----------------------------------------------------------------------------
\* find_project_for_path

(* The longest registered root a file's path begins with is the one it lies in,
   whatever other roots are prefixes of its path. *)
LEMMA OwnerIsInnermost ==
    ASSUME NEW f \in Files, projects \subseteq Dirs, Dir[f] \in projects
    PROVE  Owner(f) = {Dir[f]}
<1> DEFINE d == Dir[f]
<1>1. d \in Dirs /\ d \in Matching(f)
  BY WatchAssumption DEF Matching
<1>2. \A e \in Dirs : IsFiniteSet(Prefixes[e]) /\ Cardinality(Prefixes[e]) \in Nat
  BY WatchAssumption, FS_Subset, FS_CardinalityType
<1>3. ASSUME NEW e \in Matching(f), e # d
      PROVE  Cardinality(Prefixes[e]) < Cardinality(Prefixes[d])
  <2>1. e \in Dirs /\ Prefixes[e] \subseteq Prefixes[d] /\ d \notin Prefixes[e] /\ d \in Prefixes[d]
    BY <1>1, <1>3, WatchAssumption DEF Matching
  <2>2. Cardinality(Prefixes[e]) <= Cardinality(Prefixes[d])
        /\ (Cardinality(Prefixes[e]) = Cardinality(Prefixes[d]) => Prefixes[e] = Prefixes[d])
    BY <1>1, <1>2, <2>1, FS_Subset
  <2>3. Cardinality(Prefixes[e]) # Cardinality(Prefixes[d])
    BY <2>1, <2>2
  <2> QED
    BY <1>1, <1>2, <2>1, <2>2, <2>3
<1>4. \A e \in Matching(f) : Cardinality(Prefixes[e]) <= Cardinality(Prefixes[d])
  <2> SUFFICES ASSUME NEW e \in Matching(f), e # d
               PROVE  Cardinality(Prefixes[e]) <= Cardinality(Prefixes[d])
    BY <1>1, <1>2
  <2>1. e \in Dirs
    BY DEF Matching
  <2> QED
    BY <1>1, <1>2, <1>3, <2>1
<1>5. \A e \in Matching(f) \ {d} : ~(Cardinality(Prefixes[d]) <= Cardinality(Prefixes[e]))
  BY <1>1, <1>2, <1>3, WatchAssumption DEF Matching
<1> QED
  BY <1>1, <1>4, <1>5 DEF Owner
-----------------------------------------------------------------------------
\* Invariants of WatchLoop

\* The mutex is held by the request that hands its root to notify, and by no other.
MutexHeld == \A r \in Requests : pc[r] = "watch" <=> mutex = r

\* A request that is under way has a root.
RequestsHaveRoots == \A r \in Requests : pc[r] # "idle" => root[r] \in Dirs

\* A job works for the project the file lies in, if that is registered.
JobsKnowOwner ==
    \A j \in jobs \union parsed : Dir[j[1]] \in projects => j[2] = Dir[j[1]]

\* No version was read that has not been on disk yet.
VersionsPast ==
    /\ \A j \in parsed : disk[j[1]] # 0 => j[4] <= disk[j[1]]
    /\ \A f \in Files : disk[f] # 0 => seen[f][2] <= disk[f]

\* One job at a time is between its parse and its save on a connection, and what
\* it has parsed is no older than what was saved through the connection.
OneJobPerConnection ==
    \A i, j \in parsed : i[2] = j[2] /\ i[3] = j[3] => i = j

SavesOrdered ==
    \A j \in parsed :
        /\ Kind[j[1]] = "source"
        /\ seen[j[1]][1] = j[2] /\ seen[j[1]][3] = j[3]
        => seen[j[1]][2] <= j[4]

Present(f) == seen[f][1] = Dir[f] /\ seen[f][2] = disk[f]

\* f is on its way to a handler, or its project has the present version.
Told(f) == \/ Among(f, raw) \/ Among(f, chan)
           \/ \E j \in jobs : j[1] = f /\ j[2] = Dir[f]
           \/ \E j \in parsed : j[1] = f /\ j[2] = Dir[f] /\ j[4] = disk[f]
           \/ Present(f)

AllTold == \A f \in Files \ missed :
               disk[f] > 1 /\ Dir[f] \in projects /\ Kind[f] # "other" => Told(f)

\* Strengthening of SettledIsPresent and OnlyConnectionsGoBack.
WatchInv == /\ TypeOK /\ RequestsHaveRoots /\ MutexHeld
            /\ JobsKnowOwner /\ VersionsPast /\ OneJobPerConnection /\ SavesOrdered
            /\ AllTold

-----------------------------------------------------------------------------
(* Init satisfies the invariant: no file has changed yet. *)
LEMMA WatchInitInv == Init => WatchInv
<1> SUFFICES ASSUME Init PROVE WatchInv
  OBVIOUS
<1>1. TypeOK
  BY WatchAssumption DEF Init, Unseen, TypeOK
<1>2. RequestsHaveRoots /\ MutexHeld /\ AllTold
  BY WatchAssumption DEF Init, RequestsHaveRoots, MutexHeld, AllTold
<1>3. JobsKnowOwner /\ VersionsPast /\ OneJobPerConnection /\ SavesOrdered
  BY DEF Init, Unseen, JobsKnowOwner, VersionsPast, OneJobPerConnection, SavesOrdered
<1> QED
  BY <1>1, <1>2, <1>3 DEF WatchInv

Seen == (Dirs \union {None}) \X Nat \X Nat

(* The fields of a parsed job, and of what was last taken in. *)
LEMMA ParsedFields ==
    ASSUME TypeOK, NEW j \in parsed
    PROVE  /\ j = <<j[1], j[2], j[3], j[4]>>
           /\ j[1] \in Files /\ j[2] \in Dirs /\ j[3] \in Nat /\ j[4] \in Nat
<1>1. j \in Files \X Dirs \X Nat \X Nat
  BY DEF TypeOK
<1> QED
  BY <1>1

LEMMA SeenVersion ==
    ASSUME TypeOK, NEW f \in Files
    PROVE  seen[f][2] \in Nat
<1>1. seen[f] \in (Dirs \union {None}) \X Nat \X Nat
  BY DEF TypeOK
<1> QED
  BY <1>1

(* A handled change that is not given up reaches the project the file lies in,
   through a job or at once; nothing of other files is touched. *)
LEMMA HandledIsTaken ==
    ASSUME TypeOK, NEW f \in Files, HandleFileChange(f)
    PROVE  /\ jobs' \in SUBSET (Files \X Dirs \X Nat) /\ seen' \in [Files -> Seen]
           /\ missed' \in SUBSET Files
           /\ jobs \subseteq jobs'
           /\ \A g \in Files \ {f} : seen'[g] = seen[g] /\ (g \in missed' <=> g \in missed)
           /\ Kind[f] = "source" => seen' = seen
           /\ seen' = seen \/ (seen'[f][2] = disk[f] /\ Kind[f] # "source")
           /\ \A j \in jobs' \ jobs : /\ j[1] = f
                                      /\ Dir[f] \in projects => j[2] = Dir[f]
           /\ disk[f] # 0 /\ Dir[f] \in projects /\ Kind[f] # "other" /\ f \notin missed'
              => \/ \E j \in jobs' : j[1] = f /\ j[2] = Dir[f]
                 \/ seen'[f][1] = Dir[f] /\ seen'[f][2] = disk[f]
<1> USE DEF TypeOK, Seen
<1>1. Dir[f] \in projects => Owner(f) = {Dir[f]}
  BY OwnerIsInnermost
<1>2. CASE Ignored(f) /\ UNCHANGED <<jobs, seen>> /\ missed' = missed \ {f}
  BY <1>1, <1>2 DEF Ignored
<1>3. CASE GiveUp(f) /\ missed' = missed \union {f}
  BY <1>3 DEF GiveUp
<1>4. ASSUME NEW d \in Owner(f), TakeIn(f, d), missed' = missed \ {f}
      PROVE  /\ jobs' \in SUBSET (Files \X Dirs \X Nat) /\ seen' \in [Files -> Seen]
             /\ missed' \in SUBSET Files
             /\ jobs \subseteq jobs'
             /\ \A g \in Files \ {f} : seen'[g] = seen[g]
                                      /\ (g \in missed' <=> g \in missed)
             /\ Kind[f] = "source" => seen' = seen
             /\ seen' = seen \/ (seen'[f][2] = disk[f] /\ Kind[f] # "source")
             /\ \A j \in jobs' \ jobs : j[1] = f /\ j[2] = d
             /\ \/ \E j \in jobs' : j[1] = f /\ j[2] = d
                \/ seen'[f][1] = d /\ seen'[f][2] = disk[f]
  <2>1. d \in Dirs /\ conn[d] \in Nat
    BY <1>4 DEF Owner, Matching
  <2>2. CASE Kind[f] = "source" /\ jobs' = jobs \union {<<f, d, conn[d]>>} /\ UNCHANGED seen
    <3>1. <<f, d, conn[d]>> \in Files \X Dirs \X Nat
      BY <2>1
    <3>2. \A j \in jobs' \ jobs : j = <<f, d, conn[d]>>
      BY <2>2
    <3>3. jobs' \in SUBSET (Files \X Dirs \X Nat) /\ jobs \subseteq jobs' /\ missed' \in SUBSET Files
      BY <1>4, <2>2, <3>1
    <3>4. <<f, d, conn[d]>> \in jobs'
      BY <2>2
    <3>5. <<f, d, conn[d]>>[1] = f /\ <<f, d, conn[d]>>[2] = d
      OBVIOUS
    <3>6. \A g \in Files \ {f} : g \in missed' <=> g \in missed
      BY <1>4
    <3>7. seen' \in [Files -> Seen]
      BY <2>2
    <3> HIDE DEF TypeOK, Seen
    <3> QED
      BY <2>2, <3>2, <3>3, <3>4, <3>5, <3>6, <3>7
  <2>3. CASE /\ Kind[f] \in {"ini", "asset"} /\ UNCHANGED jobs
             /\ seen' = [seen EXCEPT ![f] = <<d, disk[f], 0>>]
    BY <1>4, <2>1, <2>3
  <2> QED
    BY <1>4, <2>2, <2>3 DEF TakeIn
<1>5. CASE \E d \in Owner(f) : TakeIn(f, d) /\ missed' = missed \ {f}
  <2>1. PICK d \in Owner(f) : TakeIn(f, d) /\ missed' = missed \ {f}
    BY <1>5
  <2>2. Dir[f] \in projects => d = Dir[f]
    BY <1>1, <2>1
  <2> QED
    BY <1>4, <2>1, <2>2
<1> QED
  BY <1>2, <1>3, <1>5 DEF HandleFileChange

-----------------------------------------------------------------------------
(* Every step of the threads, the loop and the requests keeps the types. *)
LEMMA WatchNextType == TypeOK /\ RequestsHaveRoots /\ [Next]_vars => TypeOK'
<1> SUFFICES ASSUME TypeOK, RequestsHaveRoots, [Next]_vars PROVE TypeOK'
  OBVIOUS
<1> USE DEF TypeOK, requests, pool
<1>1. ASSUME NEW f \in Files, NEW v \in 0..MaxVersion[f], Change(f, v) PROVE TypeOK'
  <2>1. MaxVersion[f] \in Nat /\ v \in Nat /\ v <= MaxVersion[f]
    BY <1>1, WatchAssumption
  <2>2. disk' \in [Files -> Nat] /\ \A g \in Files : disk'[g] <= MaxVersion[g]
    BY <1>1, <2>1 DEF Change
  <2>3. raw' \in Seq(Files) /\ missed' \in SUBSET Files
    <3>1. Append(raw, f) \in Seq(Files)
      OBVIOUS
    <3>2. CASE raw' = Append(raw, f) /\ UNCHANGED missed
      BY <3>1, <3>2
    <3>3. CASE missed' = missed \union {f} /\ UNCHANGED raw
      BY <3>3
    <3> QED
      BY <1>1, <3>2, <3>3 DEF Change
  <2> QED
    BY <1>1, <2>2, <2>3 DEF Change
<1>2. CASE Forward
  <2>1. Head(raw) \in Files /\ Tail(raw) \in Seq(Files)
    BY <1>2 DEF Forward
  <2>2. Len(chan) # ChannelSize /\ ChannelSize \in Nat /\ Len(chan) \in Nat
    BY <1>2, WatchAssumption DEF Forward, Stuck
  <2>3. chan' \in Seq(Files) /\ Len(chan') <= ChannelSize
    BY <1>2, <2>1, <2>2 DEF Forward
  <2> QED
    BY <1>2, <2>1, <2>3 DEF Forward
<1>3. ASSUME NEW f \in Files, Calm(f) PROVE TypeOK'
  BY <1>3 DEF Calm
<1>4. CASE Receive
  <2>1. Head(chan) \in Files /\ chan' \in Seq(Files) /\ Len(chan') <= ChannelSize
    BY <1>4, WatchAssumption DEF Receive
  <2>2. jobs' \in SUBSET (Files \X Dirs \X Nat) /\ seen' \in [Files -> Seen]
        /\ missed' \in SUBSET Files
    <3>1. CASE Skip(Head(chan))
      BY <2>1, <3>1 DEF Skip, Seen
    <3>2. CASE HandleFileChange(Head(chan))
      BY <2>1, <3>2, HandledIsTaken
    <3> QED
      BY <1>4, <3>1, <3>2 DEF Receive, Handle
  <2>3. recent' \in SUBSET Files
    BY <1>4, <2>1 DEF Receive, Skip, Handle
  <2> QED
    BY <1>4, <2>1, <2>2, <2>3 DEF Receive, Seen
<1>5. ASSUME NEW j \in jobs, ParseJob(j[1], j[2], j[3]) PROVE TypeOK'
  BY <1>5 DEF ParseJob
<1>11. ASSUME NEW j \in parsed, SaveJob(j[1], j[2], j[3], j[4]) PROVE TypeOK'
  <2>1. j[1] \in Files /\ <<j[2], j[4], j[3]>> \in Seen
    BY <1>11 DEF Seen
  <2>2. seen' \in [Files -> Seen] /\ missed' \in SUBSET Files
    BY <1>11, <2>1 DEF SaveJob, Seen
  <2> QED
    BY <1>11, <2>2 DEF SaveJob, Seen
<1>12. ASSUME NEW d \in projects, DropConnection(d) PROVE TypeOK'
  <2>1. conn' \in [Dirs -> Nat]
    <3>1. d \in Dirs /\ conn[d] + 1 \in Nat
      BY <1>12
    <3> QED
      BY <1>12, <3>1 DEF DropConnection
  <2> QED
    BY <1>12, <2>1 DEF DropConnection
<1>6. ASSUME NEW r \in Requests, NEW d \in projects, StartWatch(r, d) PROVE TypeOK'
  BY <1>6 DEF StartWatch
<1>7. ASSUME NEW r \in Requests, Lock(r) PROVE TypeOK'
  BY <1>7 DEF Lock
<1>8. ASSUME NEW r \in Requests, Watch(r) PROVE TypeOK'
  BY <1>8 DEF Watch, Unlock, RequestsHaveRoots
<1>9. CASE Restart
  BY <1>9, WatchAssumption DEF Restart, Unseen
<1>10. CASE UNCHANGED vars
  BY <1>10 DEF vars
<1> QED
  BY <1>1, <1>2, <1>3, <1>4, <1>5, <1>6, <1>7, <1>8, <1>9, <1>10, <1>11,
     <1>12 DEF Next

(* Requests take the mutex with a root in hand and give it back. *)
LEMMA NextRequests ==
    TypeOK /\ RequestsHaveRoots /\ MutexHeld /\ [Next]_vars
    => RequestsHaveRoots' /\ MutexHeld'
<1> SUFFICES ASSUME TypeOK, RequestsHaveRoots, MutexHeld, [Next]_vars
             PROVE  RequestsHaveRoots' /\ MutexHeld'
  OBVIOUS
<1> USE DEF TypeOK, RequestsHaveRoots, MutexHeld
<1>1. ASSUME NEW r \in Requests, NEW d \in projects, StartWatch(r, d)
      PROVE  RequestsHaveRoots' /\ MutexHeld'
  BY <1>1 DEF StartWatch
<1>2. ASSUME NEW r \in Requests, Lock(r) PROVE RequestsHaveRoots' /\ MutexHeld'
  BY <1>2, WatchAssumption DEF Lock
<1>3. ASSUME NEW r \in Requests, Watch(r) PROVE RequestsHaveRoots' /\ MutexHeld'
  BY <1>3, WatchAssumption DEF Watch, Unlock
<1>4. CASE Restart
  BY <1>4, WatchAssumption DEF Restart
<1>5. CASE UNCHANGED requests
  BY <1>5 DEF requests
<1> QED
  BY <1>1, <1>2, <1>3, <1>4, <1>5 DEF Next, Change, Forward, Calm, Receive,
     ParseJob, SaveJob, DropConnection, requests, vars

(* A job is left for the innermost registered project. *)
LEMMA NextJobsKnowOwner == TypeOK /\ JobsKnowOwner /\ [Next]_vars => JobsKnowOwner'
<1> SUFFICES ASSUME TypeOK, JobsKnowOwner, [Next]_vars PROVE JobsKnowOwner'
  OBVIOUS
<1> USE DEF JobsKnowOwner
<1>1. CASE Receive
  <2>1. Head(chan) \in Files /\ UNCHANGED <<projects, parsed>>
    BY <1>1 DEF Receive, TypeOK
  <2>2. CASE UNCHANGED jobs
    BY <2>1, <2>2
  <2>3. CASE HandleFileChange(Head(chan))
    <3> SUFFICES ASSUME NEW j \in jobs' \ jobs, Dir[j[1]] \in projects
                 PROVE  j[2] = Dir[j[1]]
      BY <2>1
    <3> QED
      BY <2>1, <2>3, HandledIsTaken
  <2> QED
    BY <1>1, <2>2, <2>3 DEF Receive, Skip, Handle
<1>2. ASSUME NEW j \in jobs, ParseJob(j[1], j[2], j[3]) PROVE JobsKnowOwner'
  BY <1>2 DEF ParseJob
<1>3. ASSUME NEW j \in parsed, SaveJob(j[1], j[2], j[3], j[4]) PROVE JobsKnowOwner'
  BY <1>3 DEF SaveJob
<1>4. CASE Restart
  BY <1>4 DEF Restart
<1>5. CASE UNCHANGED <<jobs, parsed, projects>>
  BY <1>5
<1> QED
  BY <1>1, <1>2, <1>3, <1>4, <1>5 DEF Next, Change, Forward, Calm, DropConnection,
     StartWatch, Lock, Watch, pool, vars

(* Versions are read as they come. *)
LEMMA NextVersionsPast == TypeOK /\ VersionsPast /\ [Next]_vars => VersionsPast'
<1> SUFFICES ASSUME TypeOK, VersionsPast, [Next]_vars PROVE VersionsPast'
  OBVIOUS
<1> USE DEF VersionsPast, TypeOK
<1>1. ASSUME NEW g \in Files, NEW v \in 0..MaxVersion[g], Change(g, v) PROVE VersionsPast'
  <2>1. UNCHANGED <<parsed, seen>> /\ \A f \in Files : disk'[f] # 0 => disk[f] # 0 /\ disk[f] <= disk'[f]
    BY <1>1 DEF Change, pool
  <2>2. \A j \in parsed : j[1] \in Files /\ j[4] \in Nat
    BY ParsedFields
  <2>3. \A f \in Files : seen[f][2] \in Nat /\ disk[f] \in Nat /\ disk'[f] \in Nat
    BY <1>1, SeenVersion, WatchAssumption DEF Change
  <2> HIDE DEF TypeOK
  <2> QED
    BY <2>1, <2>2, <2>3
<1>2. CASE Receive
  <2>1. Head(chan) \in Files /\ UNCHANGED <<disk, parsed>>
    BY <1>2 DEF Receive
  <2>2. CASE UNCHANGED seen
    BY <2>1, <2>2
  <2>3. CASE HandleFileChange(Head(chan))
    <3>1. \A f \in Files : seen'[f] = seen[f] \/ seen'[f][2] = disk[f]
      BY <2>1, <2>3, HandledIsTaken
    <3>2. \A f \in Files : disk[f] \in Nat
      OBVIOUS
    <3> HIDE DEF TypeOK
    <3> QED
      BY <2>1, <3>1, <3>2
  <2> QED
    BY <1>2, <2>2, <2>3 DEF Receive, Skip, Handle
<1>3. ASSUME NEW j \in jobs, ParseJob(j[1], j[2], j[3]) PROVE VersionsPast'
  BY <1>3 DEF ParseJob
<1>4. ASSUME NEW j \in parsed, SaveJob(j[1], j[2], j[3], j[4]) PROVE VersionsPast'
  <2>1. /\ UNCHANGED disk /\ parsed' \subseteq parsed
        /\ seen' = seen \/ seen' = [seen EXCEPT ![j[1]] = <<j[2], j[4], j[3]>>]
    <3>1. parsed' \subseteq parsed
      BY <1>4 DEF SaveJob
    <3> QED
      BY <1>4, <3>1 DEF SaveJob
  <2>2. \A f \in Files : seen'[f] = seen[f] \/ (f = j[1] /\ seen'[f][2] = j[4])
    BY <2>1
  <2> HIDE DEF TypeOK
  <2> QED
    BY <2>1, <2>2
<1>5. CASE Restart
  BY <1>5 DEF Restart, Unseen
<1>6. CASE UNCHANGED <<disk, parsed, seen>>
  BY <1>6
<1> QED
  BY <1>1, <1>2, <1>3, <1>4, <1>5, <1>6 DEF Next, Forward, Calm, DropConnection, StartWatch,
     Lock, Watch, pool, vars

(* A job takes a connection nobody holds, and reads after the last save. *)
LEMMA NextSavesOrdered ==
    TypeOK /\ VersionsPast /\ OneJobPerConnection /\ SavesOrdered /\ [Next]_vars
    => OneJobPerConnection' /\ SavesOrdered'
<1> SUFFICES ASSUME TypeOK, VersionsPast, OneJobPerConnection, SavesOrdered, [Next]_vars
             PROVE  OneJobPerConnection' /\ SavesOrdered'
  OBVIOUS
<1> USE DEF OneJobPerConnection, SavesOrdered, TypeOK
<1>1. CASE Receive
  <2>1. Head(chan) \in Files /\ UNCHANGED parsed
    BY <1>1 DEF Receive
  <2>2. CASE UNCHANGED seen
    BY <2>1, <2>2
  <2>3. CASE HandleFileChange(Head(chan))
    <3>1. \A f \in Files : Kind[f] = "source" => seen'[f] = seen[f]
      BY <2>1, <2>3, HandledIsTaken
    <3> QED
      BY <2>1, <3>1
  <2> QED
    BY <1>1, <2>2, <2>3 DEF Receive, Skip, Handle
<1>2. ASSUME NEW j \in jobs, ParseJob(j[1], j[2], j[3])
      PROVE  OneJobPerConnection' /\ SavesOrdered'
  <2>1. CASE UNCHANGED parsed
    BY <1>2, <2>1 DEF ParseJob
  <2>2. CASE disk[j[1]] # 0 /\ parsed' = parsed \union {<<j[1], j[2], j[3], disk[j[1]]>>}
    <3>1. OneJobPerConnection'
      <4>1. \A i \in parsed : ~(i[2] = j[2] /\ i[3] = j[3])
        BY <1>2 DEF ParseJob, Locked
      <4> DEFINE new == <<j[1], j[2], j[3], disk[j[1]]>>
      <4>2. new[2] = j[2] /\ new[3] = j[3]
        OBVIOUS
      <4> HIDE DEF new, TypeOK
      <4>3. parsed' = parsed \union {new}
        BY <2>2 DEF new
      <4> QED
        BY <4>1, <4>2, <4>3
    <3>2. seen[j[1]][2] <= disk[j[1]] /\ UNCHANGED seen
      BY <1>2, <2>2 DEF ParseJob, VersionsPast
    <3> QED
      BY <2>2, <3>1, <3>2
  <2> QED
    BY <1>2, <2>1, <2>2 DEF ParseJob
<1>3. ASSUME NEW j \in parsed, SaveJob(j[1], j[2], j[3], j[4])
      PROVE  OneJobPerConnection' /\ SavesOrdered'
  <2>1. parsed' = parsed \ {j}
    BY <1>3, ParsedFields DEF SaveJob
  <2>2. CASE UNCHANGED seen
    BY <2>1, <2>2
  <2>3. CASE seen' = [seen EXCEPT ![j[1]] = <<j[2], j[4], j[3]>>]
    <3>1. \A i \in parsed' : ~(i[2] = j[2] /\ i[3] = j[3])
      BY <2>1
    <3>2. seen'[j[1]] = <<j[2], j[4], j[3]>> /\ \A f \in Files \ {j[1]} : seen'[f] = seen[f]
      BY <2>3
    <3>3. OneJobPerConnection'
      BY <2>1
    <3>4. ASSUME NEW i \in parsed', Kind[i[1]] = "source",
                 seen'[i[1]][1] = i[2], seen'[i[1]][3] = i[3]
          PROVE  seen'[i[1]][2] <= i[4]
      <4>1. i \in parsed /\ i[1] \in Files
        BY <2>1, ParsedFields
      <4>2. i[1] # j[1]
        BY <3>1, <3>2, <3>4
      <4> HIDE DEF TypeOK
      <4> QED
        BY <3>2, <3>4, <4>1, <4>2
    <3> QED
      BY <3>3, <3>4
  <2> QED
    BY <1>3, <2>2, <2>3 DEF SaveJob
<1>4. CASE Restart
  BY <1>4 DEF Restart
<1>5. CASE UNCHANGED <<parsed, seen>>
  BY <1>5
<1> QED
  BY <1>1, <1>2, <1>3, <1>4, <1>5 DEF Next, Change, Forward, Calm, DropConnection,
     StartWatch, Lock, Watch, pool, vars

(* A change that a handler will be told of, or has been, is not lost. *)
LEMMA NextAllTold == WatchInv /\ [Next]_vars => AllTold'
<1> SUFFICES ASSUME WatchInv, [Next]_vars, NEW f \in Files, f \notin missed', disk'[f] > 1,
                    Dir[f] \in projects', Kind[f] # "other"
             PROVE  Told(f)'
  BY DEF AllTold
<1> USE DEF WatchInv
<1>p. UNCHANGED projects
  BY DEF Next, Change, Forward, Calm, Receive, ParseJob, SaveJob, DropConnection, StartWatch,
     Lock, Watch, Restart, vars
<1>t. /\ Dir[f] \in Dirs /\ raw \in Seq(Files) /\ chan \in Seq(Files)
      /\ \A g \in Files : disk[g] \in Nat /\ seen[g][2] \in Nat
      /\ \A j \in parsed : j[1] \in Files /\ j[4] \in Nat
  BY WatchAssumption, ParsedFields, SeenVersion DEF TypeOK
<1>1. ASSUME NEW g \in Files, NEW v \in 0..MaxVersion[g], Change(g, v) PROVE Told(f)'
  <2>1. CASE f = g
    <3>1. raw' = Append(raw, f)
      BY <1>1, <2>1 DEF Change
    <3> QED
      BY <1>t, <3>1, AmongAppended DEF Told
  <2>2. CASE f # g
    <3>1. disk'[f] = disk[f] /\ f \notin missed
      BY <1>1, <2>2 DEF Change, TypeOK
    <3>2. Told(f)
      BY <1>p, <3>1 DEF AllTold
    <3>3. Among(f, raw) => Among(f, raw')
      BY <1>1, <1>t, AmongAppended DEF Change
    <3> QED
      BY <1>1, <3>1, <3>2, <3>3 DEF Told, Present, Change, pool
  <2> QED
    BY <2>1, <2>2
<1>2. CASE Forward
  <2>1. Told(f)
    BY <1>2, <1>p DEF AllTold, Forward
  <2>2. Head(raw) \in Files /\ raw # << >>
    BY <1>2, <1>t DEF Forward
  <2>3. Among(f, raw) => Among(f, raw') \/ Among(f, chan')
    BY <1>2, <1>t, <2>2, AmongTail, AmongAppended DEF Forward
  <2>4. Among(f, chan) => Among(f, chan')
    BY <1>2, <1>t, <2>2, AmongAppended DEF Forward
  <2> QED
    BY <1>2, <2>1, <2>3, <2>4 DEF Told, Present, Forward, pool
<1>3. CASE Receive
  <2>1. /\ Head(chan) \in Files /\ chan # << >> /\ chan' = Tail(chan)
        /\ UNCHANGED <<disk, projects, raw, parsed>>
    BY <1>3, <1>t DEF Receive
  <2>2. CASE f = Head(chan)
    <3>1. HandleFileChange(f)
      BY <1>3, <2>2 DEF Receive, Skip, Handle
    <3>2. disk[f] # 0 /\ Dir[f] \in projects
      BY <1>p, <1>t, <2>1
    <3>3. (\E j \in jobs' : j[1] = f /\ j[2] = Dir[f])
          \/ (seen'[f][1] = Dir[f] /\ seen'[f][2] = disk[f])
      BY <3>1, <3>2, HandledIsTaken
    <3> QED
      BY <2>1, <3>3 DEF Told, Present
  <2>3. CASE f # Head(chan)
    <3>1. jobs \subseteq jobs' /\ seen'[f] = seen[f] /\ f \notin missed
      BY <1>3, <2>1, <2>3, HandledIsTaken DEF Receive, Skip, Handle
    <3>2. Told(f)
      BY <2>1, <3>1 DEF AllTold
    <3>3. Among(f, chan) => Among(f, chan')
      BY <1>t, <2>1, <2>3, AmongTail
    <3> QED
      BY <2>1, <3>1, <3>2, <3>3 DEF Told, Present
  <2> QED
    BY <2>2, <2>3
<1>4. ASSUME NEW j \in jobs, ParseJob(j[1], j[2], j[3]) PROVE Told(f)'
  <2>1. Told(f) /\ UNCHANGED <<disk, raw, chan, seen>>
    BY <1>4, <1>p DEF AllTold, ParseJob
  <2>2. CASE j[1] = f
    <3>1. j[2] = Dir[f]
      BY <1>p, <2>2 DEF JobsKnowOwner
    <3>2. <<f, Dir[f], j[3], disk[f]>> \in parsed'
      BY <1>4, <2>2, <3>1 DEF ParseJob
    <3> QED
      BY <2>1, <3>2 DEF Told
  <2>3. CASE j[1] # f
    <3>1. parsed \subseteq parsed' /\ \A i \in jobs : i[1] = f => i \in jobs'
      BY <1>4, <2>3 DEF ParseJob
    <3> QED
      BY <2>1, <3>1 DEF Told, Present
  <2> QED
    BY <2>2, <2>3
<1>5. ASSUME NEW j \in parsed, SaveJob(j[1], j[2], j[3], j[4]) PROVE Told(f)'
  <2>1. Told(f) /\ UNCHANGED <<disk, raw, chan, jobs>>
    BY <1>5, <1>p DEF AllTold, SaveJob
  <2>2. parsed' = parsed \ {j}
    BY <1>5, ParsedFields DEF SaveJob
  <2>3. CASE j[1] = f
    <3>1. j[2] = Dir[f] /\ j[4] <= disk[f] /\ disk[f] # 0
      BY <1>p, <1>t, <2>1, <2>3 DEF JobsKnowOwner, VersionsPast
    <3>2. seen'[f] = <<Dir[f], j[4], j[3]>> /\ ~(j[4] < seen[f][2])
      BY <1>5, <2>3, <3>1 DEF SaveJob, TypeOK
    <3>3. Present(f) => Present(f)'
      BY <1>t, <2>1, <3>1, <3>2 DEF Present
    <3>4. j[4] = disk[f] => Present(f)'
      BY <2>1, <3>2 DEF Present
    <3> QED
      BY <2>1, <2>2, <3>3, <3>4 DEF Told
  <2>4. CASE j[1] # f
    <3>1. seen'[f] = seen[f]
      BY <1>5, <2>4 DEF SaveJob, TypeOK
    <3> QED
      BY <2>1, <2>2, <2>4, <3>1 DEF Told, Present
  <2> QED
    BY <2>3, <2>4
<1>6. CASE Restart
  <2>1. f \notin missed /\ Settled(f) /\ disk' = disk /\ seen'[f] = seen[f]
    BY <1>6 DEF Restart
  <2>2. Present(f)
    BY <1>p, <1>t, <2>1 DEF AllTold, Told, Settled, Among
  <2> QED
    BY <2>1, <2>2 DEF Told, Present
<1>7. CASE UNCHANGED <<disk, projects, raw, chan, jobs, parsed, seen, missed>>
  BY <1>7 DEF AllTold, Told, Present
<1> QED
  BY <1>1, <1>2, <1>3, <1>4, <1>5, <1>6, <1>7 DEF Next, Calm, DropConnection, StartWatch,
     Lock, Watch, pool, vars

-----------------------------------------------------------------------------
(* What every step of the watching keeps. *)
LEMMA WatchInvariants == Spec => []WatchInv
<1>1. WatchInv /\ [Next]_vars => WatchInv'
  BY WatchNextType, NextRequests, NextJobsKnowOwner, NextVersionsPast,
     NextSavesOrdered, NextAllTold DEF WatchInv
<1> QED
  BY <1>1, WatchInitInv, PTL DEF Spec

(* Threads, channel, loop and requests keep their types, and the channel its
   size. *)
THEOREM WatchTypeCorrect == Spec => []TypeOK
<1>1. WatchInv => TypeOK
  BY DEF WatchInv
<1> QED
  BY <1>1, WatchInvariants, PTL

(* The watcher's mutex is held by exactly the request that hands a root to the
   event thread, for any number of requests, also after a restart
   (handle_watch). *)
THEOREM OneWatcher == Spec => []MutexHeld
<1>1. WatchInv => MutexHeld
  BY DEF WatchInv
<1> QED
  BY <1>1, WatchInvariants, PTL

(* Once all events of a file have been dealt with, the project it lies in has its
   present version, however many roots are prefixes of its path, unless no
   handler was told of the last change, a handler or its job gave it up, or a
   job on another connection saved an older version later
   (spawn_watch_event_loop, handle_file_change, handle_source_change). *)
THEOREM SettledFilesArePresent == Spec => []SettledIsPresent
<1>1. WatchInv => SettledIsPresent
  <2> SUFFICES ASSUME WatchInv, NEW f \in Files, Settled(f), f \notin missed, disk[f] > 1,
                      Dir[f] \in projects, Kind[f] # "other"
               PROVE  Present(f)
    BY DEF SettledIsPresent, Present
  <2>1. Told(f) /\ Dir[f] \in Dirs
    BY WatchAssumption DEF WatchInv, AllTold
  <2> QED
    BY <2>1 DEF Told, Settled, Among
<1> QED
  BY <1>1, WatchInvariants, PTL

(* Jobs that share a connection save the versions of a file in the order of the
   changes, for any number of files, projects and connections
   (handle_source_change). *)
THEOREM SavesKeepTheirOrder == Spec => OnlyConnectionsGoBack
<1>1. WatchInv /\ [Next]_vars
      => [\A f \in Files :
             /\ Kind[f] = "source" /\ seen'[f][1] = seen[f][1]
             /\ seen'[f][2] < seen[f][2]
             => seen'[f][3] # seen[f][3]]_vars
  <2> SUFFICES ASSUME WatchInv, [Next]_vars, NEW f \in Files, Kind[f] = "source",
                      seen'[f][1] = seen[f][1], seen'[f][2] < seen[f][2]
               PROVE  seen'[f][3] # seen[f][3]
    OBVIOUS
  <2>0. seen[f] \in Seen
    BY DEF WatchInv, TypeOK, Seen
  <2>1. ASSUME seen'[f] = seen[f] PROVE FALSE
    BY <2>0, <2>1 DEF Seen
  <2>2. CASE Receive
    <3>1. Head(chan) \in Files
      BY <2>2 DEF Receive, WatchInv, TypeOK
    <3>2. seen'[f] = seen[f]
      BY <2>2, <3>1, HandledIsTaken DEF Receive, Skip, Handle, WatchInv
    <3> QED
      BY <2>1, <3>2
  <2>3. ASSUME NEW j \in parsed, SaveJob(j[1], j[2], j[3], j[4])
        PROVE  seen'[f][3] # seen[f][3]
    <3>1. f = j[1] /\ seen'[f] = <<j[2], j[4], j[3]>>
      BY <2>1, <2>3 DEF SaveJob, WatchInv, TypeOK
    <3>2. j[4] \in Nat /\ seen[f][2] \in Nat
      BY <2>0 DEF WatchInv, TypeOK, Seen
    <3> QED
      BY <3>1, <3>2 DEF WatchInv, SavesOrdered
  <2>4. CASE Restart
    BY <2>1, <2>4 DEF Restart
  <2> QED
    BY <2>1, <2>2, <2>3, <2>4 DEF Next, Change, Forward, Calm, ParseJob, DropConnection,
       StartWatch, Lock, Watch, vars
<1> QED
  BY <1>1, WatchInvariants, PTL DEF Spec, OnlyConnectionsGoBack

-----------------------------------------------------------------------------
\* Invariants of ClientLifecycle

\* The list of processes misses only those that have started since.
ListMissesNewcomers == loop = "remove" => running \ newcomers \subseteq system

\* A client that has pinged and runs is registered or was overlooked.
PingsAreKept == /\ announced \subseteq running
                /\ announced \subseteq active_clients \union overlooked

\* Strengthening of ExitOverlooksOnlyNewcomers.
LifecycleInv == LifecycleTypeOK /\ ListMissesNewcomers /\ PingsAreKept

(* Every step of clients and loop keeps the invariant. *)
LEMMA NextLifecycleInv == LifecycleInv /\ [LifecycleNext]_clientVars => LifecycleInv'
<1> SUFFICES ASSUME LifecycleInv, [LifecycleNext]_clientVars PROVE LifecycleInv'
  OBVIOUS
<1> USE DEF LifecycleInv, LifecycleTypeOK, ListMissesNewcomers, PingsAreKept
<1>1. ASSUME NEW p \in Pids, ProcessStarts(p) PROVE LifecycleInv'
  BY <1>1 DEF ProcessStarts
<1>2. ASSUME NEW p \in Pids, ProcessEnds(p) PROVE LifecycleInv'
  BY <1>2 DEF ProcessEnds
<1>3. ASSUME NEW p \in Pids, Register(p) PROVE LifecycleInv'
  BY <1>3 DEF Register
<1>4. ASSUME NEW p \in Pids, StampActivity(p) PROVE LifecycleInv'
  BY <1>4, LifecycleAssumption DEF StampActivity, history
<1>5. CASE Wake
  BY <1>5, LifecycleAssumption DEF Wake, ProcessList
<1>6. CASE RemoveDeadClients
  BY <1>6 DEF RemoveDeadClients, Alive
<1>7. CASE CheckIdle
  BY <1>7, LifecycleAssumption DEF CheckIdle, history
<1>8. CASE Exit
  BY <1>8 DEF Exit, history
<1>9. CASE UNCHANGED clientVars
  BY <1>9 DEF clientVars
<1> QED
  BY <1>1, <1>2, <1>3, <1>4, <1>5, <1>6, <1>7, <1>8, <1>9 DEF LifecycleNext

(* What clients and loop keep. *)
LEMMA LifecycleInvariants == LifecycleSpec => []LifecycleInv
<1>1. LifecycleInit => LifecycleInv
  BY LifecycleAssumption DEF LifecycleInit, LifecycleInv, LifecycleTypeOK,
     ListMissesNewcomers, PingsAreKept
<1> QED
  BY <1>1, NextLifecycleInv, PTL DEF LifecycleSpec

(* Clients and loop keep their types. *)
THEOREM LifecycleTypeCorrect == LifecycleSpec => []LifecycleTypeOK
<1>1. LifecycleInv => LifecycleTypeOK
  BY DEF LifecycleInv
<1> QED
  BY <1>1, LifecycleInvariants, PTL

(* A server that decides to exit drops no running client but those whose process
   and ping came between the reading of the processes and the look at the
   clients, for any number of clients (spawn_client_lifecycle_loop). *)
THEOREM ExitOverlooksNoOther == LifecycleSpec => []ExitOverlooksOnlyNewcomers
<1>1. LifecycleInv => ExitOverlooksOnlyNewcomers
  BY DEF LifecycleInv, PingsAreKept, ExitOverlooksOnlyNewcomers
<1> QED
  BY <1>1, LifecycleInvariants, PTL
=============================================================================
