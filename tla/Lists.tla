------------------------------- MODULE Lists -------------------------------
(***************************************************************************)
(* What the queries take from Rust's iterators, vectors and loops and from *)
(* SQL: the first results up to a limit, those that are in a set, rows in  *)
(* an order, what a loop ends with, and walks over rows that lead on to    *)
(* others.                                                                 *)
(***************************************************************************)
EXTENDS Naturals, FiniteSets, Sequences, SequencesExt

\* take and truncate.
Cut(s, n) == SubSeq(s, 1, IF Len(s) < n THEN Len(s) ELSE n)

\* filter and retain.
KeepIn(s, S) ==
    LET kept[i \in 0..Len(s)] ==
            IF i = 0 THEN << >>
            ELSE IF s[i] \in S THEN Append(kept[i - 1], s[i]) ELSE kept[i - 1]
    IN  kept[Len(s)]

\* Each item is pushed unless it was seen.
push_unique_result(results, item) == IF item \in Range(results) THEN results ELSE Append(results, item)
PushEach(results, items) ==
    LET pushed[i \in 0..Len(items)] ==
            IF i = 0 THEN results ELSE push_unique_result(pushed[i - 1], items[i])
    IN  pushed[Len(items)]

\* find: the first that is not none.
FirstBut(none, s) ==
    LET at == {i \in DOMAIN s : s[i] # none}
    IN  IF at = {} THEN none ELSE s[CHOOSE i \in at : \A j \in at : i <= j]

\* ORDER BY: the members of S, each behind those it has before it, and two of which
\* neither is before the other in some order.
Sorted(S, before) ==
    LET some == SetToSeq(S)
        At(x) == CHOOSE k \in DOMAIN some : some[k] = x
        Ahead(x) == {y \in S \ {x} : <<y, x>> \in before \/ (<<x, y>> \notin before /\ At(y) < At(x))}
    IN  [k \in 1..Cardinality(S) |-> CHOOSE x \in S : Cardinality(Ahead(x)) = k - 1]

\* while: a step after the other, until done.
Loop(start, done, step) ==
    LET run[s \in DOMAIN step] == IF s \in done THEN s ELSE run[step[s]]
    IN  run[start]

\* What is reached from some, over a function to what each leads to: a loop over what
\* was met.
Closure(some, next) ==
    LET More(met) == met \union UNION {next[x] : x \in met}
        sets == SUBSET DOMAIN next
    IN  Loop(some, {met \in sets : More(met) = met}, [met \in sets |-> More(met)])

\* A walk over rows: those in the queue, and those met.
Walks(ids) == [queue : Seq(ids), visited : SUBSET ids]
WalkFrom(queue) == [queue |-> queue, visited |-> {}]

\* One turn: the head of the queue is skipped, or met and what it leads to queued.
Visit(walk, next) ==
    LET i == Head(walk.queue)
    IN  IF i \in walk.visited THEN [walk EXCEPT !.queue = Tail(@)]
        ELSE [queue |-> Tail(walk.queue) \o next[i], visited |-> walk.visited \union {i}]

\* The first row of a walk that is wanted, 0 for none.
FirstVisited(queue, next, wanted) ==
    LET walks == Walks(DOMAIN next)
        end == Loop(WalkFrom(queue),
                    {w \in walks : w.queue = << >> \/ Head(w.queue) \in wanted},
                    [w \in walks |-> Visit(w, next)])
    IN  IF end.queue = << >> THEN 0 ELSE Head(end.queue)
=============================================================================
