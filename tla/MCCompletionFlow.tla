-------------------------- MODULE MCCompletionFlow --------------------------
(* A class and one derived from it; completion queries on the derived class. *)
EXTENDS CompletionFlow, TLC

MCClasses == {"Base", "Derived"}
MCCacheKeys == {"completion:Derived"}
MCClassNames == MCClasses \union MCCacheKeys
MCPrefixes == {""}
MCTrim == [s \in MCClassNames \union MCPrefixes |-> s]
MCChain == [k \in MCCacheKeys |-> <<"Derived", "Base">>]
MCValues == [1..2 -> 0..MaxVersion]
MCSymmetry == Permutations(Queries)
=============================================================================
