-------------------------- MODULE CompletionCache --------------------------
(***************************************************************************)
(* The in-memory completion cache of one project (struct CompletionCache): *)
(* an LRU map from (class_name, prefix) to a completion result, and an     *)
(* index class_to_keys that invalidate_class uses to find the entries of a *)
(* class. put files a key in the index under the class name as the caller  *)
(* spells it, while the key itself holds the trimmed spelling; an eviction *)
(* by the LRU map leaves the index alone.                                  *)
(***************************************************************************)
EXTENDS FiniteSets, Naturals

CONSTANTS ClassNames,  \* class_name arguments, as spelled by callers
          KeyPrefixes, \* prefix arguments, as spelled by callers
          Trim,        \* Trim[s]: s without surrounding blanks
          Values,      \* completion results
          NoValue,     \* not cached
          Capacity     \* COMPLETION_CACHE_CAPACITY

ASSUME CacheAssumption ==
    /\ Capacity \in Nat \ {0}
    /\ NoValue \notin Values
    /\ Trim \in [ClassNames \union KeyPrefixes -> ClassNames \union KeyPrefixes]
    /\ \A c \in ClassNames : Trim[c] \in ClassNames
    /\ \A p \in KeyPrefixes : Trim[p] \in KeyPrefixes

VARIABLES lru,          \* lru[k]: the cached result of key k, or NoValue
          older,        \* recency: <<a, b>> when a was last used before b
          class_to_keys \* class name -> keys filed under it

cacheVars == <<lru, older, class_to_keys>>

Keys == ClassNames \X KeyPrefixes

\* make_completion_key
Key(c, p) == <<Trim[c], Trim[p]>>

Cached == {k \in Keys : lru[k] # NoValue}

CacheTypeOK ==
    /\ lru \in [Keys -> Values \union {NoValue}]
    /\ older \in SUBSET (Keys \X Keys)
    /\ class_to_keys \in [ClassNames -> SUBSET Keys]

CacheInit ==
    /\ lru = [k \in Keys |-> NoValue]
    /\ older = {}
    /\ class_to_keys = [c \in ClassNames |-> {}]

-----------------------------------------------------------------------------
\* The recency order of the entries in S.
Among(S) == older \cap (S \X S)

\* The recency order of S once k is its most recently used entry.
Promote(k, S) == Among(S \ {k}) \union ((S \ {k}) \X {k})

\* The least recently used entry.
IsOldest(k) == k \in Cached /\ \A a \in Cached \ {k} : <<k, a>> \in older

\* LruCache::put makes room only for a key that is not there yet.
Full(k) == k \notin Cached /\ Cardinality(Cached) >= Capacity

\* Faulty variant: only the first key of a class is filed.
FileOnce(c, k) == IF class_to_keys[c] = {} THEN {k} ELSE class_to_keys[c]

FileUnder(c, k) == class_to_keys[c] \union {k}

Put(c, p, v) ==
    LET k == Key(c, p) IN
    /\ class_to_keys' = [class_to_keys EXCEPT ![c] = FileUnder(c, k)]
    /\ \/ /\ ~Full(k)
          /\ lru' = [lru EXCEPT ![k] = v]
          /\ older' = Promote(k, Cached)
       \/ /\ Full(k)
          /\ \E victim \in Cached :
                /\ IsOldest(victim)
                /\ lru' = [lru EXCEPT ![victim] = NoValue, ![k] = v]
                /\ older' = Promote(k, Cached \ {victim})

\* get on a cached key: get_mut makes it the most recently used.
Touch(k) ==
    /\ k \in Cached
    /\ older' = Promote(k, Cached)
    /\ UNCHANGED <<lru, class_to_keys>>

Hit(c, p) == Touch(Key(c, p))

Pop(S) ==
    /\ lru' = [k \in Keys |-> IF k \in S THEN NoValue ELSE lru[k]]
    /\ older' = Among(Cached \ S)

InvalidateClass(c) ==
    /\ Pop(class_to_keys[c])
    /\ class_to_keys' = [class_to_keys EXCEPT ![c] = {}]

Clear ==
    /\ Pop(Keys)
    /\ class_to_keys' = [c \in ClassNames |-> {}]

CacheNext ==
    \/ \E c \in ClassNames, p \in KeyPrefixes :
          \/ \E v \in Values : Put(c, p, v)
          \/ Hit(c, p)
    \/ \E c \in ClassNames : InvalidateClass(c)
    \/ Clear

CacheSpec == CacheInit /\ [][CacheNext]_cacheVars

-----------------------------------------------------------------------------
\* Properties

(* Every cached entry can be found by an invalidation: it is filed in
   class_to_keys under some spelling of its class, after any sequence of puts,
   hits, evictions, invalidations and clears. *)
IndexCovers ==
    \A k \in Cached :
        \E c \in ClassNames : k \in class_to_keys[c] /\ Trim[c] = k[1]

\* c is spelled without surrounding blanks and nothing is filed under another
\* spelling of it, as is the case for every caller in src/.
CleanSpelling(c) ==
    /\ Trim[c] = c
    /\ \A d \in ClassNames : Trim[d] = c /\ d # c => class_to_keys[d] = {}

(* invalidate_class removes all entries of the class ("Invalidate all completion
   entries for one class"), whatever was evicted and put again before. *)
InvalidationComplete ==
    [][\A c \in ClassNames : InvalidateClass(c) /\ CleanSpelling(c)
          => \A k \in Keys : k[1] = c => lru'[k] = NoValue]_cacheVars
=============================================================================
