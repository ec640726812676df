----------------------------- MODULE ModuleDeps -----------------------------
(***************************************************************************)
(* The deep dependencies of the modules of a project, which a refresh      *)
(* stores with each module (refresh.rs): a search along the dependencies   *)
(* that the .Build.cs files name, with one memo for all modules and a stack*)
(* that cuts cycles.                                                       *)
(*                                                                         *)
(* A module is a name and the names it depends on, public ones first; some *)
(* are names of no module. The memo outlives the stack that cut a search.  *)
(***************************************************************************)
EXTENDS Naturals, FiniteSets, Sequences, Functions

CONSTANTS ModuleNames,  \* of modules, and what they may depend on
          ModuleDefs,   \* the modules a project may have
          MaxModules

VARIABLE modules  \* as discovered

ASSUME ModulesAssumption ==
    /\ IsFiniteSet(ModuleNames)
    /\ ModuleDefs \subseteq [name : ModuleNames, deps : Seq(ModuleNames)]

\* Of several modules of a name the last is looked up.
LookedUp(n) ==
    LET at == {i \in DOMAIN modules : modules[i].name = n}
    IN  IF at = {} THEN << >> ELSE modules[CHOOSE i \in at : \A j \in at : j <= i].deps

\* What was found for some names, a call of resolve_deep, and what it yields: the memo
\* with what was found on the way, and what the name needs.
Memos == UNION {[ns -> SUBSET ModuleNames] : ns \in SUBSET ModuleNames}
DeepCalls == [name : ModuleNames, memo : Memos, stack : SUBSET ModuleNames]
Outcomes == [memo : Memos, deep : SUBSET ModuleNames]

\* Faulty variant: what a dependency needs is only added when it was not known before.
NestedOnce(s, dep, stack, nested) ==
    LET found == nested[[name |-> dep, memo |-> s.memo, stack |-> stack]]
        old == IF dep \in DOMAIN s.memo THEN {} ELSE found.deep
    IN  [memo |-> found.memo, deep |-> s.deep \union {dep} \union old]

\* The body of the loop over the dependencies of a name, which calls nested.
Nested(s, dep, stack, nested) ==
    LET found == nested[[name |-> dep, memo |-> s.memo, stack |-> stack]]
    IN  [memo |-> found.memo, deep |-> s.deep \union {dep} \union found.deep]

AllNested(deps, memo, stack, nested) ==
    LET all[i \in 0..Len(deps)] == IF i = 0 THEN [memo |-> memo, deep |-> {}]
                                   ELSE Nested(all[i - 1], deps[i], stack, nested)
    IN  all[Len(deps)]

\* What resolve_deep does with a call, when nested does it with those it makes.
ResolveCall(c, nested) ==
    IF c.name \in DOMAIN c.memo THEN [memo |-> c.memo, deep |-> c.memo[c.name]]
    ELSE IF c.name \in c.stack THEN [memo |-> c.memo, deep |-> {}]
    ELSE LET all == AllNested(LookedUp(c.name), c.memo, c.stack \union {c.name}, nested)
         IN  [all EXCEPT !.memo =
                 [n \in DOMAIN @ \union {c.name} |-> IF n = c.name THEN all.deep ELSE @[n]]]

\* No name is twice on a stack, so that calls nest no deeper than there are names, and
\* one more, which is cut.
MaxDepth == Cardinality(ModuleNames) + 1

resolve_deep ==
    LET deep[k \in 0..MaxDepth] == IF k = 0 THEN [c \in DeepCalls |-> [memo |-> c.memo, deep |-> {}]]
                                   ELSE [c \in DeepCalls |-> ResolveCall(c, deep[k - 1])]
    IN  deep[MaxDepth]

\* One module after the other.
ResolveModule(s, n) ==
    LET found == resolve_deep[[name |-> n, memo |-> s.memo, stack |-> {}]]
    IN  [memo |-> found.memo, deep |-> Append(s.deep, found.deep)]

\* Per module its deep dependencies, in the order of discovery.
resolve_modules ==
    LET done[i \in 0..Len(modules)] == IF i = 0 THEN [memo |-> [n \in {} |-> {}], deep |-> << >>]
                                       ELSE ResolveModule(done[i - 1], modules[i].name)
    IN  done[Len(modules)].deep

ModulesInit == modules = << >>

DiscoverModule ==
    /\ Len(modules) < MaxModules
    /\ \E m \in ModuleDefs : modules' = Append(modules, m)

ModulesSpec == ModulesInit /\ [][DiscoverModule]_modules

-----------------------------------------------------------------------------
\* Properties

\* What a module needs: the least set with its dependencies and those of what is in it.
Closed(ns) == \A n \in ns : Range(LookedUp(n)) \subseteq ns
DeepOf(n) ==
    {m \in ModuleNames : \A ns \in SUBSET ModuleNames :
                             Range(LookedUp(n)) \subseteq ns /\ Closed(ns) => m \in ns}

\* What is on a cycle, of what a module needs and itself.
Cyclic(n) == {m \in {n} \union DeepOf(n) : m \in DeepOf(m)}

\* "Resolve transitive module dependencies" is what the comment of resolve_modules
\* promises: every module is stored with all that it needs, and nothing else. (Itself,
\* on a cycle, left aside.)
TransitiveDependencies ==
    \A i \in DOMAIN modules :
        LET n == modules[i].name
        IN  resolve_modules[i] \ {n} = DeepOf(n) \ {n}

\* Every module has the transitive dependencies that resolve_modules announces, and
\* nothing else, however many modules share a dependency and in whatever order they
\* are discovered, except what a cycle hides: a module that needs one that needs
\* itself may lack some, but never the first module, and never one of its own.
DeepDependenciesComplete ==
    \A i \in DOMAIN modules :
        LET n == modules[i].name
            deep == resolve_modules[i]
        IN  /\ Range(LookedUp(n)) \subseteq deep /\ deep \subseteq DeepOf(n)
            /\ i = 1 \/ Cyclic(n) = {} => deep = DeepOf(n)
            /\ DeepOf(n) \ deep \subseteq UNION {DeepOf(m) : m \in Cyclic(n)}
=============================================================================
