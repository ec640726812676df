--------------------------- MODULE CompletionFlow ---------------------------
(***************************************************************************)
(* Completion queries of one project against everything that changes what  *)
(* they should answer: a refresh of the project, the watcher saving a      *)
(* changed source file, a restart of the server. The in-memory cache is    *)
(* CompletionCache; a second cache, the persistent_cache table, outlives   *)
(* the process.                                                            *)
(*                                                                         *)
(* The index is abstracted to a version per class, raised by each commit   *)
(* that changes the class; the result of a completion is the sequence of   *)
(* the versions read along the inheritance chain, each by a statement of   *)
(* its own on the query's read-only connection. The cache files a result   *)
(* under the whole formatted key of the query and an empty prefix          *)
(* (write_completion_cache), while the watcher invalidates by class name,  *)
(* so ClassNames holds both kinds of string.                               *)
(***************************************************************************)
EXTENDS CompletionCache, Sequences

CONSTANTS Queries,     \* query tasks
          Classes,     \* indexed class names
          CacheKeys,   \* "completion:class:prefix:.." strings
          Chain,       \* Chain[k]: the classes visited for key k, in order
          MaxVersion,  \* bound on the versions of a class
          NoClass, NoKey

ASSUME FlowAssumption ==
    /\ Classes \subseteq ClassNames
    /\ CacheKeys \subseteq ClassNames
    /\ Classes \cap CacheKeys = {}
    /\ Chain \in [CacheKeys -> Seq(Classes)]
    /\ \A k \in CacheKeys : Trim[k] = k
    /\ "" \in KeyPrefixes
    /\ MaxVersion \in Nat
    /\ \A v \in Values : v \in Seq(0..MaxVersion)
    /\ \A k \in CacheKeys : [1..Len(Chain[k]) -> 0..MaxVersion] \subseteq Values
    /\ NoKey \notin CacheKeys

VARIABLES index,       \* class -> version committed to the index
          refresh,     \* step of the refresh: none, run, clear, release
          watch,       \* class whose change the watcher has committed
          persistent,  \* persistent_cache: key -> result or NoValue
          pc, key, val, useDb,  \* per query: step, key, result, cache DB open
          \* history of the clears, read by no action:
          clearedAt,   \* index at the last clear after a refresh
          early,       \* queries in progress at the last clear
          raced        \* entries put since then by such queries

vars == <<cacheVars, index, refresh, watch, persistent, pc, key, val, useDb,
          clearedAt, early, raced>>
tasks == <<pc, key, val, useDb>>
history == <<clearedAt, early, raced>>

Versions == 0..MaxVersion

TypeOK ==
    /\ CacheTypeOK
    /\ index \in [Classes -> Versions]
    /\ refresh \in {"none", "run", "clear", "release"}
    /\ watch \in Classes \union {NoClass}
    /\ persistent \in [CacheKeys -> Values \union {NoValue}]
    /\ pc \in [Queries -> {"idle", "memory", "persistent", "compute",
                           "putMemory", "putPersistent", "answer"}]
    /\ key \in [Queries -> CacheKeys \union {NoKey}]
    /\ val \in [Queries -> Seq(Versions)]
    /\ useDb \in [Queries -> BOOLEAN]
    /\ clearedAt \in [Classes -> Versions]
    /\ early \in SUBSET Queries
    /\ raced \in SUBSET Keys

Init ==
    /\ CacheInit
    /\ index = [c \in Classes |-> 0]
    /\ refresh = "none"
    /\ watch = NoClass
    /\ persistent = [k \in CacheKeys |-> NoValue]
    /\ pc = [q \in Queries |-> "idle"]
    /\ key = [q \in Queries |-> NoKey]
    /\ val = [q \in Queries |-> << >>]
    /\ useDb = [q \in Queries |-> FALSE]
    /\ clearedAt = [c \in Classes |-> 0]
    /\ early = {}
    /\ raced = {}

Goto(q, step) == pc' = [pc EXCEPT ![q] = step]

\* The key under which write_completion_cache files a result.
Slot(k) == Key(k, "")

-----------------------------------------------------------------------------
\* Queries

\* is_refreshing
MayQuery == refresh = "none"

\* handle_query: is_refreshing answers with nothing, and opening the cache
\* database may fail, which only means doing without it.
StartQuery(q, k) ==
    /\ pc[q] = "idle"
    /\ MayQuery
    /\ Goto(q, "memory")
    /\ key' = [key EXCEPT ![q] = k]
    /\ \E b \in BOOLEAN : useDb' = [useDb EXCEPT ![q] = b]
    /\ UNCHANGED <<cacheVars, index, refresh, watch, persistent, val, history>>

\* read_completion_cache: the memory cache, then the table.
ReadMemory(q) ==
    /\ pc[q] = "memory"
    /\ LET k == Slot(key[q]) IN
       \/ /\ Touch(k)
          /\ val' = [val EXCEPT ![q] = lru[k]]
          /\ Goto(q, "answer")
       \/ /\ k \notin Cached
          /\ Goto(q, IF useDb[q] THEN "persistent" ELSE "compute")
          /\ UNCHANGED <<cacheVars, val>>
    /\ UNCHANGED <<index, refresh, watch, persistent, key, useDb, history>>

\* A hit is not copied to the memory cache; an error ends the query.
ReadPersistent(q) ==
    /\ pc[q] = "persistent"
    /\ \/ /\ persistent[key[q]] # NoValue
          /\ val' = [val EXCEPT ![q] = persistent[key[q]]]
          /\ Goto(q, "answer")
       \/ /\ persistent[key[q]] = NoValue
          /\ Goto(q, "compute")
          /\ UNCHANGED val
       \/ /\ Goto(q, "answer")
          /\ UNCHANGED val
    /\ UNCHANGED <<cacheVars, index, refresh, watch, persistent, key, useDb,
                   history>>

\* fetch_members_recursive walks the inheritance chain, one class at a time.
Compute(q) ==
    /\ pc[q] = "compute"
    /\ LET chain == Chain[key[q]]
           n == Len(val[q])
       IN  \/ /\ n < Len(chain)
              /\ val' = [val EXCEPT ![q] = Append(@, index[chain[n + 1]])]
              /\ UNCHANGED pc
           \/ /\ n = Len(chain)
              /\ Goto(q, "putMemory")
              /\ UNCHANGED val
    /\ UNCHANGED <<cacheVars, index, refresh, watch, persistent, key, useDb,
                   history>>

\* write_completion_cache: memory, then the table (a failure is ignored).
PutMemory(q) ==
    /\ pc[q] = "putMemory"
    /\ Put(key[q], "", val[q])
    /\ Goto(q, IF useDb[q] THEN "putPersistent" ELSE "answer")
    /\ raced' = IF q \in early THEN raced \union {Slot(key[q])}
                               ELSE raced \ {Slot(key[q])}
    /\ UNCHANGED <<index, refresh, watch, persistent, key, val, useDb,
                   clearedAt, early>>

PutPersistent(q) ==
    /\ pc[q] = "putPersistent"
    /\ \/ persistent' = [persistent EXCEPT ![key[q]] = val[q]]
       \/ UNCHANGED persistent
    /\ Goto(q, "answer")
    /\ UNCHANGED <<cacheVars, index, refresh, watch, key, val, useDb, history>>

Answer(q) ==
    /\ pc[q] = "answer"
    /\ Goto(q, "idle")
    /\ key' = [key EXCEPT ![q] = NoKey]
    /\ val' = [val EXCEPT ![q] = << >>]
    /\ useDb' = [useDb EXCEPT ![q] = FALSE]
    /\ early' = early \ {q}
    /\ UNCHANGED <<cacheVars, index, refresh, watch, persistent, clearedAt, raced>>

-----------------------------------------------------------------------------
\* handle_refresh and the watcher

Bump(S) == [c \in Classes |-> IF c \in S THEN index[c] + 1 ELSE index[c]]

BeginRefresh ==
    /\ refresh = "none"
    /\ refresh' = "run"
    /\ UNCHANGED <<cacheVars, index, watch, persistent, tasks, history>>

\* Each step of run_refresh commits a transaction of its own.
CommitRefresh(S) ==
    /\ refresh = "run"
    /\ \A c \in S : index[c] < MaxVersion
    /\ index' = Bump(S)
    /\ UNCHANGED <<cacheVars, refresh, watch, persistent, tasks, history>>

\* An error leaves handle_refresh before the cache is cleared.
EndRun ==
    /\ refresh = "run"
    /\ refresh' \in {"clear", "release"}
    /\ UNCHANGED <<cacheVars, index, watch, persistent, tasks, history>>

\* Faulty variant: the cache is not cleared.
ClearMemoryForgotten == UNCHANGED cacheVars

\* clear_completion_cache
ClearMemory == Clear

ClearAfterRefresh ==
    /\ refresh = "clear"
    /\ ClearMemory
    /\ refresh' = "release"
    /\ clearedAt' = index
    /\ early' = {q \in Queries : pc[q] # "idle"}
    /\ raced' = {}
    /\ UNCHANGED <<index, watch, persistent, tasks>>

EndRefresh ==
    /\ refresh = "release"
    /\ refresh' = "none"
    /\ UNCHANGED <<cacheVars, index, watch, persistent, tasks, history>>

\* handle_source_change holds the connection lock from save_to_db to the end of
\* the invalidation: one change at a time.
SaveChange(c) ==
    /\ watch = NoClass
    /\ index[c] < MaxVersion
    /\ index' = Bump({c})
    /\ watch' = c
    /\ UNCHANGED <<cacheVars, refresh, persistent, tasks, history>>

InvalidateChange ==
    /\ watch # NoClass
    /\ InvalidateClass(watch)
    /\ watch' = NoClass
    /\ raced' = raced \ class_to_keys[watch]
    /\ UNCHANGED <<index, refresh, persistent, tasks, clearedAt, early>>

\* The process ends and a new one starts: only the databases remain.
Restart ==
    /\ Clear
    /\ refresh' = "none"
    /\ watch' = NoClass
    /\ pc' = [q \in Queries |-> "idle"]
    /\ key' = [q \in Queries |-> NoKey]
    /\ val' = [q \in Queries |-> << >>]
    /\ useDb' = [q \in Queries |-> FALSE]
    /\ early' = {}
    /\ raced' = {}
    /\ UNCHANGED <<index, persistent, clearedAt>>

Next ==
    \/ \E q \in Queries :
          \/ \E k \in CacheKeys : StartQuery(q, k)
          \/ ReadMemory(q) \/ ReadPersistent(q) \/ Compute(q)
          \/ PutMemory(q) \/ PutPersistent(q) \/ Answer(q)
    \/ BeginRefresh \/ EndRun \/ ClearAfterRefresh \/ EndRefresh
    \/ \E S \in SUBSET Classes : CommitRefresh(S)
    \/ \E c \in Classes : SaveChange(c)
    \/ InvalidateChange
    \/ Restart

Spec == Init /\ [][Next]_vars
FairSpec == Spec /\ WF_vars(EndRun) /\ WF_vars(ClearAfterRefresh)
                 /\ WF_vars(InvalidateChange)

-----------------------------------------------------------------------------
\* Properties

\* The result v of key k was computed from these versions or later ones.
AtLeast(k, v, versions) == \A i \in DOMAIN v : v[i] >= versions[Chain[k][i]]

(* A successful refresh leaves nothing stale behind it in the memory cache, and
   nothing it left can come back, except through a query that was already past
   is_refreshing when the cache was cleared and put its result afterwards:
   clear_completion_cache runs after run_refresh and before the guard drops. *)
OnlyRacingQueriesLeaveStale ==
    \A k \in CacheKeys : Slot(k) \in Cached \ raced
                            => AtLeast(k, lru[Slot(k)], clearedAt)

(* When the watcher has saved a changed file, no completion computed from the
   old version of its class is left in memory ("Invalidate all completion
   entries for one class", state.rs). The entries are filed under the formatted
   key, not under the class name, so none is ever found. *)
ChangeInvalidates ==
    [][InvalidateChange =>
        \A k \in CacheKeys : lru'[Slot(k)] # NoValue =>
            \A i \in DOMAIN Chain[k] :
                Chain[k][i] = watch => lru'[Slot(k)][i] >= index[watch]]_vars
=============================================================================
