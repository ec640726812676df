---------------------------- MODULE MCCompletion ----------------------------
(***************************************************************************)
(* The completion cache on its own and under the queries that use it, and  *)
(* the names of types that completion lists: a behaviour is one of         *)
(* CompletionCache, over two classes and two prefixes with one class       *)
(* spelled in two ways, one of CompletionFlow, or one of Matching.         *)
(***************************************************************************)
EXTENDS MCCompletionFlow, Matching

VARIABLE part

MCSpelledNames == MCClassNames \union {" Derived"}
MCTwoPrefixes == {"", "x"}
MCTrimmed == [s \in MCSpelledNames \union MCTwoPrefixes |->
                IF s = " Derived" THEN "Derived" ELSE s]

\* What the cache is driven with on its own.
Spellings == MCSpelledNames \ MCCacheKeys
Results == {<<0, 0>>, <<1, 1>>}

Alone ==
    \/ \E c \in Spellings, p \in KeyPrefixes : Hit(c, p) \/ \E v \in Results : Put(c, p, v)
    \/ \E c \in Spellings : InvalidateClass(c)
    \/ Clear

\* The names have grown to their bound.
Grown == Len(FlattenSeq(typeNames)) = MaxLetters /\ UNCHANGED typeNames

MCInit == Init /\ NamesInit /\ part \in {"cache", "flow", "names"}

MCNext ==
    /\ \/ /\ part = "cache" /\ Alone
          /\ UNCHANGED <<index, refresh, watch, persistent, tasks, history, typeNames>>
       \/ part = "flow" /\ Next /\ UNCHANGED typeNames
       \/ part = "names" /\ (NamesNext \/ Grown) /\ UNCHANGED vars
    /\ UNCHANGED part

MCSpec == MCInit /\ [][MCNext]_<<vars, typeNames, part>>
=============================================================================
