-------------------------- MODULE CompletionProofs --------------------------
(***************************************************************************)
(* Proofs about the completion cache for any class names, prefixes, values *)
(* and capacity: its types and the coverage of its index; and              *)
(* about completion queries that race refreshes, watched changes and       *)
(* restarts, for any queries, classes and chains: types, and that only a   *)
(* query already running at a clear leaves a stale entry.                  *)
(***************************************************************************)
EXTENDS CompletionFlow, SequenceTheorems, TLAPS

-----------------------------------------------------------------------------
\* The cache

\* The key of a put is a key, and its class is the trimmed class name.
LEMMA KeyIsKey ==
    ASSUME NEW c \in ClassNames, NEW p \in KeyPrefixes
    PROVE  Key(c, p) \in Keys /\ Key(c, p)[1] = Trim[c]
BY CacheAssumption DEF Key, Keys

LEMMA PromoteType ==
    ASSUME CacheTypeOK, NEW k \in Keys, NEW S \in SUBSET Keys
    PROVE  Promote(k, S) \in SUBSET (Keys \X Keys)
BY DEF Promote, Among

\* What each operation does to the cache: types, and the values it leaves.
LEMMA PutStep ==
    ASSUME CacheTypeOK, NEW c \in ClassNames, NEW p \in KeyPrefixes,
           NEW v \in Values, Put(c, p, v)
    PROVE  /\ CacheTypeOK'
           /\ lru'[Key(c, p)] = v
           /\ \A k \in Keys \ {Key(c, p)} : lru'[k] \in {lru[k], NoValue}
<1> DEFINE k == Key(c, p)
<1>1. k \in Keys
  BY KeyIsKey
<1>2. class_to_keys' \in [ClassNames -> SUBSET Keys]
  BY <1>1 DEF Put, FileUnder, CacheTypeOK
<1>3. /\ lru' \in [Keys -> Values \union {NoValue}]
      /\ lru'[k] = v
      /\ \A j \in Keys \ {k} : lru'[j] \in {lru[j], NoValue}
  BY <1>1 DEF Put, CacheTypeOK, Cached
<1>4. older' \in SUBSET (Keys \X Keys)
  <2>1. Cached \in SUBSET Keys /\ \A victim : Cached \ {victim} \in SUBSET Keys
    BY DEF Cached
  <2>2. \E S \in SUBSET Keys : older' = Promote(k, S)
    BY <2>1 DEF Put
  <2> QED BY <1>1, <2>2, PromoteType
<1> QED BY <1>2, <1>3, <1>4 DEF CacheTypeOK

LEMMA TouchStep ==
    ASSUME CacheTypeOK, NEW k \in Keys, Touch(k)
    PROVE  CacheTypeOK' /\ lru' = lru
<1>1. Cached \in SUBSET Keys
  BY DEF Cached
<1> QED BY <1>1, PromoteType DEF Touch, CacheTypeOK

LEMMA InvalidateStep ==
    ASSUME CacheTypeOK, NEW c \in ClassNames, InvalidateClass(c)
    PROVE  CacheTypeOK' /\ \A k \in Keys : lru'[k] \in {lru[k], NoValue}
BY DEF InvalidateClass, Pop, Among, Cached, CacheTypeOK

LEMMA ClearStep ==
    ASSUME CacheTypeOK, Clear
    PROVE  CacheTypeOK' /\ \A k \in Keys : lru'[k] = NoValue
BY DEF Clear, Pop, Among, Cached, CacheTypeOK

(* The maps and the recency order keep their types. *)
THEOREM CacheTypeCorrect == CacheSpec => []CacheTypeOK
<1>1. CacheInit => CacheTypeOK
  BY DEF CacheInit, CacheTypeOK
<1>2. CacheTypeOK /\ [CacheNext]_cacheVars => CacheTypeOK'
  <2> SUFFICES ASSUME CacheTypeOK, [CacheNext]_cacheVars PROVE CacheTypeOK'
    OBVIOUS
  <2>1. ASSUME NEW c \in ClassNames, NEW p \in KeyPrefixes, NEW v \in Values,
               Put(c, p, v)
        PROVE  CacheTypeOK'
    BY <2>1, PutStep
  <2>2. ASSUME NEW c \in ClassNames, NEW p \in KeyPrefixes, Hit(c, p)
        PROVE  CacheTypeOK'
    BY <2>2, KeyIsKey, TouchStep DEF Hit
  <2>3. ASSUME NEW c \in ClassNames, InvalidateClass(c)
        PROVE  CacheTypeOK'
    BY <2>3, InvalidateStep
  <2>4. CASE Clear
    BY <2>4, ClearStep
  <2>5. CASE UNCHANGED cacheVars
    BY <2>5 DEF cacheVars, CacheTypeOK
  <2> QED BY <2>1, <2>2, <2>3, <2>4, <2>5 DEF CacheNext
<1> QED BY <1>1, <1>2, PTL DEF CacheSpec

-----------------------------------------------------------------------------
(* Every cached entry is filed in class_to_keys under a spelling of its class,
   so that invalidate_class can find it. *)
THEOREM IndexCoverage == CacheSpec => []IndexCovers
<1>1. CacheInit => IndexCovers
  BY DEF CacheInit, IndexCovers, Cached
<1>2. CacheTypeOK /\ IndexCovers /\ [CacheNext]_cacheVars => IndexCovers'
  <2> SUFFICES ASSUME CacheTypeOK, IndexCovers, [CacheNext]_cacheVars
               PROVE  IndexCovers'
    OBVIOUS
  <2> USE DEF IndexCovers, Cached, CacheTypeOK
  <2>1. ASSUME NEW c \in ClassNames, NEW p \in KeyPrefixes, NEW v \in Values,
               Put(c, p, v)
        PROVE  IndexCovers'
    <3> DEFINE k == Key(c, p)
    <3>1. k \in Keys /\ k[1] = Trim[c]
      BY KeyIsKey
    <3>2. \A d \in ClassNames : class_to_keys[d] \subseteq class_to_keys'[d]
      BY <2>1 DEF Put, FileUnder
    <3>3. k \in class_to_keys'[c]
      BY <2>1 DEF Put, FileUnder
    <3>4. \A j \in Keys : j # k /\ lru'[j] # NoValue => lru[j] # NoValue
      BY <2>1, <3>1 DEF Put
    <3> HIDE DEF k
    <3> QED BY <3>1, <3>2, <3>3, <3>4
  <2>2. ASSUME NEW c \in ClassNames, NEW p \in KeyPrefixes, Hit(c, p)
        PROVE  IndexCovers'
    BY <2>2 DEF Hit, Touch
  <2>3. ASSUME NEW c \in ClassNames, InvalidateClass(c)
        PROVE  IndexCovers'
    BY <2>3 DEF InvalidateClass, Pop
  <2>4. CASE Clear
    BY <2>4 DEF Clear, Pop
  <2>5. CASE UNCHANGED cacheVars
    BY <2>5 DEF cacheVars
  <2> QED BY <2>1, <2>2, <2>3, <2>4, <2>5 DEF CacheNext
<1> QED BY <1>1, <1>2, CacheTypeCorrect, PTL DEF CacheSpec

(* After invalidate_class no entry of the class is left: entries live only under
   keys the index knows, however often they were evicted and put again. *)
THEOREM InvalidationIsComplete == CacheSpec => InvalidationComplete
<1>1. ASSUME CacheTypeOK, IndexCovers, NEW c \in ClassNames,
             InvalidateClass(c), CleanSpelling(c), NEW k \in Keys, k[1] = c
      PROVE  lru'[k] = NoValue
  <2>1. lru'[k] = IF k \in class_to_keys[c] THEN NoValue ELSE lru[k]
    BY <1>1 DEF InvalidateClass, Pop
  <2>2. CASE lru[k] = NoValue
    BY <2>1, <2>2
  <2>3. CASE lru[k] # NoValue
    <3>1. PICK d \in ClassNames : k \in class_to_keys[d] /\ Trim[d] = c
      BY <1>1, <2>3 DEF IndexCovers, Cached
    <3>2. d = c
      BY <1>1, <3>1 DEF CleanSpelling
    <3> QED BY <2>1, <3>1, <3>2
  <2> QED BY <2>2, <2>3
<1>2. CacheTypeOK /\ IndexCovers
      => [\A c \in ClassNames : InvalidateClass(c) /\ CleanSpelling(c)
             => \A k \in Keys : k[1] = c => lru'[k] = NoValue]_cacheVars
  BY <1>1
<1> QED
  BY <1>2, CacheTypeCorrect, IndexCoverage, PTL DEF InvalidationComplete

-----------------------------------------------------------------------------
\* Queries and refreshes

\* Strengthening of OnlyRacingQueriesLeaveStale.
\* What a query holds fits the step it is in.
QueryHolds(q) ==
    /\ pc[q] # "idle" => key[q] \in CacheKeys
    /\ pc[q] \in {"idle", "memory", "persistent"} => val[q] = << >>
    /\ pc[q] = "compute" => Len(val[q]) <= Len(Chain[key[q]])
    /\ pc[q] \in {"putMemory", "putPersistent"} =>
           /\ Len(val[q]) = Len(Chain[key[q]])
           /\ val[q] \in Values

\* A query that started after the last clear has read nothing older than it.
QueryFresh(q) ==
    pc[q] \in {"compute", "putMemory"} /\ q \notin early
        => AtLeast(key[q], val[q], clearedAt)

FlowInv ==
    /\ TypeOK
    /\ \A c \in Classes : clearedAt[c] <= index[c]
    /\ \A q \in Queries : QueryHolds(q) /\ QueryFresh(q)
    /\ OnlyRacingQueriesLeaveStale

LEMMA MaxVersionIsNat == MaxVersion \in Nat
BY FlowAssumption

LEMMA SlotIsKey ==
    ASSUME NEW k \in CacheKeys
    PROVE  Slot(k) \in Keys /\ Slot(k)[1] = k
BY CacheAssumption, FlowAssumption DEF Slot, Key, Keys

\* Steps that only remove entries leave no new stale one.
LEMMA OnlyRemoved ==
    ASSUME FlowInv, UNCHANGED clearedAt,
           \A k \in Keys : lru'[k] \in {lru[k], NoValue},
           \A k \in raced \ raced' : lru'[k] = NoValue
    PROVE  OnlyRacingQueriesLeaveStale'
<1> SUFFICES ASSUME NEW k \in CacheKeys, Slot(k) \in Cached' \ raced'
             PROVE  AtLeast(k, lru'[Slot(k)], clearedAt')
  BY DEF OnlyRacingQueriesLeaveStale, Slot, Key
<1>1. lru'[Slot(k)] = lru[Slot(k)] /\ Slot(k) \in Cached \ raced
  BY SlotIsKey DEF Cached
<1> QED BY <1>1 DEF FlowInv, OnlyRacingQueriesLeaveStale, AtLeast

LEMMA FlowInitially == Init => FlowInv
<1> SUFFICES ASSUME Init PROVE FlowInv
  OBVIOUS
<1>1. Cached = {}
  BY DEF Init, CacheInit, Cached
<1>2. CacheTypeOK
  BY DEF Init, CacheInit, CacheTypeOK
<1>3. 0 \in Versions /\ << >> \in Seq(Versions)
  <2>1. 0 \in Versions
    BY MaxVersionIsNat DEF Versions
  <2>2. << >> \in Seq(Versions)
    OBVIOUS
  <2> QED BY <2>1, <2>2
<1>4. TypeOK
  BY <1>2, <1>3 DEF Init, TypeOK
<1>5. \A c \in Classes : clearedAt[c] <= index[c]
  BY DEF Init
<1>6. \A q \in Queries : QueryHolds(q) /\ QueryFresh(q)
  BY DEF Init, QueryHolds, QueryFresh
<1> QED BY <1>1, <1>4, <1>5, <1>6 DEF FlowInv, OnlyRacingQueriesLeaveStale

-----------------------------------------------------------------------------
\* One lemma per action.

LEMMA StartQueryStep ==
    ASSUME FlowInv, NEW q \in Queries, NEW k \in CacheKeys, StartQuery(q, k)
    PROVE  FlowInv'
<1> USE DEF FlowInv, TypeOK, StartQuery, Goto, history, cacheVars
<1>1. TypeOK'
  BY DEF CacheTypeOK
<1>2. \A r \in Queries : QueryHolds(r)' /\ QueryFresh(r)'
  BY DEF QueryHolds, QueryFresh, AtLeast
<1>3. OnlyRacingQueriesLeaveStale'
  BY OnlyRemoved
<1> QED BY <1>1, <1>2, <1>3

LEMMA ReadMemoryStep ==
    ASSUME FlowInv, NEW q \in Queries, ReadMemory(q)
    PROVE  FlowInv'
<1> USE DEF FlowInv, TypeOK, ReadMemory, Goto, history
<1> DEFINE k == Slot(key[q])
<1>1. key[q] \in CacheKeys /\ k \in Keys
  BY SlotIsKey DEF QueryHolds
<1>2. CacheTypeOK' /\ lru' = lru
  BY <1>1, TouchStep DEF cacheVars, CacheTypeOK
<1>3. val' \in [Queries -> Seq(Versions)]
  <2>1. k \in Cached => lru[k] \in Seq(Versions)
    BY <1>1, FlowAssumption DEF CacheTypeOK, Cached, Versions
  <2> QED BY <2>1 DEF Touch
<1>4. TypeOK'
  BY <1>2, <1>3
<1>5. \A r \in Queries : QueryHolds(r)' /\ QueryFresh(r)'
  BY <1>1 DEF QueryHolds, QueryFresh, AtLeast
<1>6. OnlyRacingQueriesLeaveStale'
  BY <1>2, OnlyRemoved
<1> QED BY <1>4, <1>5, <1>6

LEMMA ReadPersistentStep ==
    ASSUME FlowInv, NEW q \in Queries, ReadPersistent(q)
    PROVE  FlowInv'
<1> USE DEF FlowInv, TypeOK, ReadPersistent, Goto, history, cacheVars
<1>1. key[q] \in CacheKeys
  BY DEF QueryHolds
<1>2. val' \in [Queries -> Seq(Versions)]
  BY <1>1, FlowAssumption DEF Versions
<1>3. TypeOK'
  BY <1>2 DEF CacheTypeOK
<1>4. \A r \in Queries : QueryHolds(r)' /\ QueryFresh(r)'
  BY <1>1 DEF QueryHolds, QueryFresh, AtLeast
<1>5. OnlyRacingQueriesLeaveStale'
  BY OnlyRemoved
<1> QED BY <1>3, <1>4, <1>5

LEMMA ComputeStep ==
    ASSUME FlowInv, NEW q \in Queries, Compute(q)
    PROVE  FlowInv'
<1> USE DEF FlowInv, TypeOK, Compute, Goto, history, cacheVars
<1> DEFINE chain == Chain[key[q]]
           n == Len(val[q])
<1>1. /\ key[q] \in CacheKeys
      /\ chain \in Seq(Classes)
      /\ val[q] \in Seq(Versions)
      /\ n \in Nat
      /\ n <= Len(chain)
  <2>1. key[q] \in CacheKeys /\ n <= Len(chain)
    BY DEF QueryHolds
  <2>2. chain \in Seq(Classes)
    BY <2>1, FlowAssumption
  <2> QED BY <2>1, <2>2, LenProperties
<1>2. OnlyRacingQueriesLeaveStale'
  BY OnlyRemoved
<1>3. CASE n < Len(chain) /\ val' = [val EXCEPT ![q] = Append(@, index[chain[n + 1]])]
           /\ UNCHANGED pc
  <2> DEFINE c == chain[n + 1]
  <2>1. c \in Classes /\ index[c] \in Versions /\ clearedAt[c] <= index[c]
    BY <1>1, <1>3
  <2>2. val'[q] = Append(val[q], index[c])
    BY <1>3
  <2>3. /\ val'[q] \in Seq(Versions)
        /\ Len(val'[q]) = n + 1
        /\ val'[q][n + 1] = index[c]
        /\ \A i \in 1..n : val'[q][i] = val[q][i]
    BY <1>1, <2>1, <2>2
  <2>4. TypeOK'
    BY <1>3, <2>1, <2>3 DEF CacheTypeOK
  <2>5. QueryHolds(q)'
    BY <1>1, <1>3, <2>3 DEF QueryHolds
  <2>6. QueryFresh(q)'
    <3> SUFFICES ASSUME q \notin early, NEW i \in 1..(n + 1)
                 PROVE  val'[q][i] >= clearedAt[chain[i]]
      BY <1>1, <2>3 DEF QueryFresh, AtLeast
    <3>1. CASE i = n + 1
      BY <3>1, <2>1, <2>3
    <3>2. CASE i \in 1..n
      BY <1>1, <2>3, <3>2 DEF QueryFresh, AtLeast
    <3> QED BY <1>1, <3>1, <3>2
  <2>7. \A r \in Queries \ {q} : QueryHolds(r)' /\ QueryFresh(r)'
    BY <1>3 DEF QueryHolds, QueryFresh, AtLeast
  <2> QED BY <1>2, <2>4, <2>5, <2>6, <2>7
<1>4. CASE n = Len(chain) /\ pc' = [pc EXCEPT ![q] = "putMemory"] /\ UNCHANGED val
  <2>1. TypeOK'
    BY <1>4 DEF CacheTypeOK
  <2>2. val[q] \in Values
    <3>1. val[q] \in [1..Len(chain) -> 0..MaxVersion]
      BY <1>1, <1>4, LenProperties DEF Versions
    <3> QED BY <1>1, <3>1, FlowAssumption
  <2>3. \A r \in Queries : QueryHolds(r)' /\ QueryFresh(r)'
    BY <1>4, <2>2 DEF QueryHolds, QueryFresh, AtLeast
  <2> QED BY <1>2, <1>4, <2>1, <2>3
<1> QED BY <1>3, <1>4

LEMMA PutMemoryStep ==
    ASSUME FlowInv, NEW q \in Queries, PutMemory(q)
    PROVE  FlowInv'
<1> USE DEF FlowInv, TypeOK, PutMemory, Goto
<1> DEFINE k == Slot(key[q])
<1>1. key[q] \in CacheKeys /\ k \in Keys /\ val[q] \in Values
  BY SlotIsKey DEF QueryHolds
<1>2. /\ CacheTypeOK'
      /\ lru'[k] = val[q]
      /\ \A j \in Keys \ {k} : lru'[j] \in {lru[j], NoValue}
  BY <1>1, PutStep, FlowAssumption DEF Slot
<1>3. TypeOK'
  BY <1>1, <1>2
<1>4. \A r \in Queries : QueryHolds(r)' /\ QueryFresh(r)'
  BY DEF QueryHolds, QueryFresh, AtLeast
<1>5. OnlyRacingQueriesLeaveStale'
  <2> SUFFICES ASSUME NEW j \in CacheKeys, Slot(j) \in Cached' \ raced'
               PROVE  AtLeast(j, lru'[Slot(j)], clearedAt')
    BY DEF OnlyRacingQueriesLeaveStale, Slot, Key
  <2>1. CASE j = key[q]
    <3>1. q \notin early
      BY <2>1, <1>1
    <3> QED BY <2>1, <3>1, <1>2 DEF QueryFresh, AtLeast
  <2>2. CASE j # key[q]
    <3>1. Slot(j) \in Keys \ {k}
      BY <2>2, <1>1, SlotIsKey
    <3>2. lru'[Slot(j)] = lru[Slot(j)] /\ Slot(j) \in Cached \ raced
      BY <3>1, <1>2 DEF Cached
    <3> QED BY <3>2 DEF OnlyRacingQueriesLeaveStale, AtLeast
  <2> QED BY <2>1, <2>2
<1> QED BY <1>3, <1>4, <1>5

LEMMA PutPersistentStep ==
    ASSUME FlowInv, NEW q \in Queries, PutPersistent(q)
    PROVE  FlowInv'
<1> USE DEF FlowInv, TypeOK, PutPersistent, Goto, history, cacheVars
<1>1. key[q] \in CacheKeys /\ val[q] \in Values
  BY DEF QueryHolds
<1>2. TypeOK'
  BY <1>1 DEF CacheTypeOK
<1>3. \A r \in Queries : QueryHolds(r)' /\ QueryFresh(r)'
  BY DEF QueryHolds, QueryFresh, AtLeast
<1>4. OnlyRacingQueriesLeaveStale'
  BY OnlyRemoved
<1> QED BY <1>2, <1>3, <1>4

LEMMA AnswerStep ==
    ASSUME FlowInv, NEW q \in Queries, Answer(q)
    PROVE  FlowInv'
<1> USE DEF FlowInv, TypeOK, Answer, Goto, cacheVars
<1>1. TypeOK'
  BY DEF CacheTypeOK
<1>2. \A r \in Queries : QueryHolds(r)' /\ QueryFresh(r)'
  BY DEF QueryHolds, QueryFresh, AtLeast
<1>3. OnlyRacingQueriesLeaveStale'
  BY OnlyRemoved
<1> QED BY <1>1, <1>2, <1>3

\* A commit to the index of some classes, and nothing else a query holds.
LEMMA BumpStep ==
    ASSUME FlowInv, NEW S \in SUBSET Classes, index' = Bump(S),
           \A c \in S : index[c] < MaxVersion,
           UNCHANGED <<cacheVars, persistent, tasks, history>>,
           refresh' \in {"none", "run", "clear", "release"},
           watch' \in Classes \union {NoClass}
    PROVE  FlowInv'
<1> USE DEF FlowInv, TypeOK, Bump, tasks, history, cacheVars
<1>1. index' \in [Classes -> Versions] /\ \A c \in Classes : index[c] <= index'[c]
  <2> SUFFICES ASSUME NEW c \in Classes
               PROVE  index'[c] \in Versions /\ index[c] <= index'[c]
    OBVIOUS
  <2>1. index[c] \in Versions /\ (c \in S => index[c] < MaxVersion)
    OBVIOUS
  <2>2. index'[c] = IF c \in S THEN index[c] + 1 ELSE index[c]
    OBVIOUS
  <2> HIDE DEF FlowInv, TypeOK, Bump
  <2> QED BY <2>1, <2>2, MaxVersionIsNat DEF Versions
<1>2. \A c \in Classes : clearedAt'[c] <= index'[c]
  BY <1>1 DEF Versions
<1>3. TypeOK'
  BY <1>1 DEF CacheTypeOK
<1>4. \A r \in Queries : QueryHolds(r)' /\ QueryFresh(r)'
  BY DEF QueryHolds, QueryFresh, AtLeast
<1>5. OnlyRacingQueriesLeaveStale'
  BY OnlyRemoved
<1> QED BY <1>2, <1>3, <1>4, <1>5

LEMMA RefreshStepOnly ==
    ASSUME FlowInv, BeginRefresh \/ EndRun \/ EndRefresh
    PROVE  FlowInv'
<1> USE DEF FlowInv, TypeOK, BeginRefresh, EndRun, EndRefresh, tasks, history,
            cacheVars
<1>1. TypeOK'
  BY DEF CacheTypeOK
<1>2. \A r \in Queries : QueryHolds(r)' /\ QueryFresh(r)'
  BY DEF QueryHolds, QueryFresh, AtLeast
<1>3. OnlyRacingQueriesLeaveStale'
  BY OnlyRemoved
<1> QED BY <1>1, <1>2, <1>3

LEMMA ClearAfterRefreshStep ==
    ASSUME FlowInv, ClearAfterRefresh
    PROVE  FlowInv'
<1> USE DEF FlowInv, TypeOK, ClearAfterRefresh, ClearMemory, tasks
<1>1. CacheTypeOK' /\ Cached' = {}
  BY ClearStep DEF Cached
<1>2. TypeOK'
  BY <1>1
<1>3. \A r \in Queries : QueryHolds(r)'
  BY DEF QueryHolds
<1>4. \A r \in Queries : QueryFresh(r)'
  BY DEF QueryFresh
<1>5. \A c \in Classes : clearedAt'[c] <= index'[c]
  <2> SUFFICES ASSUME NEW c \in Classes PROVE index[c] <= index[c]
    OBVIOUS
  <2>1. index[c] \in Int
    BY DEF Versions
  <2> QED BY <2>1
<1> QED BY <1>1, <1>2, <1>3, <1>4, <1>5 DEF OnlyRacingQueriesLeaveStale

LEMMA InvalidateChangeStep ==
    ASSUME FlowInv, InvalidateChange
    PROVE  FlowInv'
<1> USE DEF FlowInv, TypeOK, InvalidateChange, tasks
<1>1. watch \in ClassNames
  BY FlowAssumption
<1>2. CacheTypeOK' /\ \A k \in Keys : lru'[k] \in {lru[k], NoValue}
  BY <1>1, InvalidateStep
<1>3. TypeOK'
  BY <1>2
<1>4. \A r \in Queries : QueryHolds(r)' /\ QueryFresh(r)'
  BY DEF QueryHolds, QueryFresh, AtLeast
<1>5. \A k \in raced \ raced' : lru'[k] = NoValue
  BY DEF InvalidateClass, Pop
<1>6. OnlyRacingQueriesLeaveStale'
  BY <1>2, <1>5, OnlyRemoved
<1> QED BY <1>3, <1>4, <1>6

LEMMA RestartStep ==
    ASSUME FlowInv, Restart
    PROVE  FlowInv'
<1> USE DEF FlowInv, TypeOK, Restart
<1>1. CacheTypeOK' /\ Cached' = {}
  BY ClearStep DEF Cached
<1>2. TypeOK'
  BY <1>1
<1>3. \A r \in Queries : QueryHolds(r)' /\ QueryFresh(r)'
  BY DEF QueryHolds, QueryFresh
<1> QED BY <1>1, <1>2, <1>3 DEF OnlyRacingQueriesLeaveStale

-----------------------------------------------------------------------------
LEMMA FlowInvariant == Spec => []FlowInv
<1>1. FlowInv /\ [Next]_vars => FlowInv'
  <2> SUFFICES ASSUME FlowInv, [Next]_vars PROVE FlowInv'
    OBVIOUS
  <2>1. ASSUME NEW q \in Queries, NEW k \in CacheKeys, StartQuery(q, k)
        PROVE  FlowInv'
    BY <2>1, StartQueryStep
  <2>2. ASSUME NEW q \in Queries,
               \/ ReadMemory(q) \/ ReadPersistent(q) \/ Compute(q)
               \/ PutMemory(q) \/ PutPersistent(q) \/ Answer(q)
        PROVE  FlowInv'
    BY <2>2, ReadMemoryStep, ReadPersistentStep, ComputeStep, PutMemoryStep,
       PutPersistentStep, AnswerStep
  <2>3. CASE BeginRefresh \/ EndRun \/ EndRefresh
    BY <2>3, RefreshStepOnly
  <2>4. CASE ClearAfterRefresh
    BY <2>4, ClearAfterRefreshStep
  <2>5. ASSUME NEW S \in SUBSET Classes, CommitRefresh(S)
        PROVE  FlowInv'
    BY <2>5, BumpStep DEF CommitRefresh, FlowInv, TypeOK
  <2>6. ASSUME NEW c \in Classes, SaveChange(c)
        PROVE  FlowInv'
    <3>1. {c} \in SUBSET Classes /\ \A d \in {c} : index[d] < MaxVersion
      BY <2>6 DEF SaveChange
    <3> QED BY <2>6, <3>1, BumpStep DEF SaveChange, FlowInv, TypeOK
  <2>7. CASE InvalidateChange
    BY <2>7, InvalidateChangeStep
  <2>8. CASE Restart
    BY <2>8, RestartStep
  <2>9. CASE UNCHANGED vars
    <3> USE <2>9 DEF vars, cacheVars, FlowInv
    <3>1. TypeOK'
      BY DEF TypeOK, CacheTypeOK
    <3>2. \A r \in Queries : QueryHolds(r)' /\ QueryFresh(r)'
      BY DEF QueryHolds, QueryFresh, AtLeast
    <3>3. OnlyRacingQueriesLeaveStale'
      BY OnlyRemoved DEF TypeOK
    <3> QED BY <3>1, <3>2, <3>3
  <2> QED BY <2>1, <2>2, <2>3, <2>4, <2>5, <2>6, <2>7, <2>8, <2>9 DEF Next
<1> QED BY <1>1, FlowInitially, PTL DEF Spec

(* Every variable of the cache, the index, the refresh, the watcher and the
   queries keeps its type, restarts included. *)
THEOREM FlowTypeCorrect == Spec => []TypeOK
BY FlowInvariant, PTL DEF FlowInv

(* After a successful refresh has cleared the memory cache, an entry older than
   the refreshed index was put by a query that was already past is_refreshing
   when clear_completion_cache ran. *)
THEOREM StaleOnlyByRacing == Spec => []OnlyRacingQueriesLeaveStale
BY FlowInvariant, PTL DEF FlowInv
=============================================================================
