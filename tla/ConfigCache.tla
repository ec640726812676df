---------------------------- MODULE ConfigCache ----------------------------
(***************************************************************************)
(* The cache of resolved .ini configuration of one project: queries that   *)
(* read through it (get_config_data_with_cache) and the watcher that marks *)
(* it dirty (mark_config_cache_dirty), over one entry of config_caches.    *)
(*                                                                         *)
(* A query that finds no clean entry reads the ini files with no lock held *)
(* and stores the result as a clean entry. Each platform resolved reads    *)
(* its own stack of files, so one file may be read several times. Data is  *)
(* abstracted to the versions read; what is made of them is ConfigMerge.   *)
(***************************************************************************)
EXTENDS Naturals, Sequences

CONSTANTS Queries,     \* query tasks
          Files,       \* ini files under the project root
          ReadOrder,   \* the files in the order a query reads them
          MaxVersion,  \* MaxVersion[f]: bound on the versions of f; 0 is no file
          NoEntry

ASSUME ConfigAssumption ==
    /\ ReadOrder \in Seq(Files)
    /\ MaxVersion \in [Files -> Nat \ {0}]
    /\ NoEntry \notin Seq(Nat)

VARIABLES files,      \* file -> version, 0 when there is none
          pending,    \* changed files the watcher has not handled yet
          data,       \* the entry's data, or NoEntry
          is_dirty,   \* the entry's flag
          pc, read,   \* per query: step, versions read so far
          \* history, read by no action:
          early,      \* queries reading when the watcher last marked
          raced,      \* the entry was stored by such a query
          unnoticed   \* files removed, or changed with no event handled

vars == <<files, pending, data, is_dirty, pc, read, early, raced, unnoticed>>
cache == <<data, is_dirty>>
tasks == <<pc, read>>
history == <<early, raced, unnoticed>>

Versions == UNION {0..MaxVersion[f] : f \in Files}

TypeOK ==
    /\ files \in [Files -> Versions]
    /\ pending \in SUBSET Files
    /\ data \in Seq(Versions) \union {NoEntry}
    /\ is_dirty \in BOOLEAN
    /\ pc \in [Queries -> {"idle", "look", "resolve", "store"}]
    /\ read \in [Queries -> Seq(Versions)]
    /\ early \in SUBSET Queries
    /\ raced \in BOOLEAN
    /\ unnoticed \in SUBSET Files

Init ==
    /\ files \in [Files -> {0, 1}]
    /\ pending = {}
    /\ data = NoEntry /\ is_dirty = FALSE
    /\ pc = [q \in Queries |-> "idle"]
    /\ read = [q \in Queries |-> << >>]
    /\ early = {} /\ raced = FALSE /\ unnoticed = {}

Goto(q, step) == pc' = [pc EXCEPT ![q] = step]

-----------------------------------------------------------------------------
\* get_config_data_with_cache

Start(q) ==
    /\ pc[q] = "idle"
    /\ Goto(q, "look")
    /\ UNCHANGED <<files, pending, cache, read, history>>

Hit == data # NoEntry /\ ~is_dirty

Look(q) ==
    /\ pc[q] = "look"
    /\ Goto(q, IF Hit THEN "idle" ELSE "resolve")
    /\ UNCHANGED <<files, pending, cache, read, history>>

\* parse_ini; a file that cannot be read is skipped.
ReadIni(f) == files[f]

\* resolve_platform reads one file after the other.
ReadFile(q) ==
    /\ pc[q] = "resolve"
    /\ LET n == Len(read[q]) IN
       \/ /\ n < Len(ReadOrder)
          /\ read' = [read EXCEPT ![q] = Append(@, ReadIni(ReadOrder[n + 1]))]
          /\ UNCHANGED pc
       \/ /\ n = Len(ReadOrder)
          /\ Goto(q, "store")
          /\ UNCHANGED read
    /\ UNCHANGED <<files, pending, cache, history>>

\* caches.insert replaces the entry with a clean one.
Store(q) ==
    /\ pc[q] = "store"
    /\ data' = read[q]
    /\ is_dirty' = FALSE
    /\ read' = [read EXCEPT ![q] = << >>]
    /\ Goto(q, "idle")
    /\ raced' = (q \in early)
    /\ early' = early \ {q}
    /\ UNCHANGED <<files, pending, unnoticed>>

-----------------------------------------------------------------------------
\* Changes, and the watcher

\* A file is written or removed.
Change(f, v) ==
    /\ v # files[f] /\ (v = 0 \/ v > files[f])
    /\ files' = [files EXCEPT ![f] = v]
    /\ pending' = pending \union {f}
    /\ unnoticed' = IF v = 0 THEN unnoticed \union {f} ELSE unnoticed
    /\ UNCHANGED <<cache, tasks, early, raced>>

\* should_skip_by_debounce drops the event of a second change.
Debounce(f) ==
    /\ f \in pending
    /\ pending' = pending \ {f}
    /\ unnoticed' = unnoticed \union {f}
    /\ UNCHANGED <<files, cache, tasks, early, raced>>

\* Faulty variant: a clean entry is left clean.
MarkDirtyForgotten == UNCHANGED is_dirty

\* mark_config_cache_dirty: without an entry there is nothing to mark.
MarkDirty == is_dirty' = (is_dirty \/ data # NoEntry)

\* handle_file_change ignores a path that is gone.
HandleChange(f) ==
    /\ f \in pending
    /\ pending' = pending \ {f}
    /\ \/ /\ files[f] # 0
          /\ MarkDirty
          /\ early' = {q \in Queries : pc[q] \in {"resolve", "store"}}
       \/ /\ files[f] = 0
          /\ UNCHANGED <<is_dirty, early>>
    /\ UNCHANGED <<files, data, tasks, raced, unnoticed>>

Next ==
    \/ \E q \in Queries : Start(q) \/ Look(q) \/ ReadFile(q) \/ Store(q)
    \/ \E f \in Files :
          (\E v \in 0..MaxVersion[f] : Change(f, v)) \/ Debounce(f) \/ HandleChange(f)

Spec == Init /\ [][Next]_vars

-----------------------------------------------------------------------------
\* Properties

\* The entry shows the present version of f wherever f was read.
Shows(f) == \A i \in DOMAIN ReadOrder : ReadOrder[i] = f => data[i] = files[f]

Clean == data # NoEntry /\ ~is_dirty /\ pending = {}

(* When the watcher has handled every change, a clean entry shows the present
   ini files, unless it was stored by a query that was reading files when the
   last change was handled: it stores the old file as a clean entry after the
   mark (is_dirty is set and reset by two tasks). *)
OnlyRacingReadersStoreStale ==
    Clean /\ ~raced => \A f \in Files \ unnoticed : Shows(f)
=============================================================================
