--------------------------- MODULE QueriesProofs ---------------------------
(***************************************************************************)
(* What can be proved of the queries, in this order:                       *)
(*   - the scans of Locals agree for a buffer of any length and any rows;  *)
(*   - the greedy word match of Matching is the best one for any words;    *)
(*   - slices and batches of any sequence add up;                          *)
(*   - of Usages, for any texts: what is streamed is what is returned, and *)
(*     the usages of a member are found by counting braces;                *)
(*   - of Search, for any matches: pages add up;                           *)
(*   - of Matching, for any names and typed texts: deleting a character    *)
(*     loses no match, and the patterns find what matches;                 *)
(*   - of ModuleDeps, for any modules: each has what it needs stored.      *)
(*                                                                         *)
(* The queries are loops, modelled by recursive functions on 0..n. A lemma *)
(* ...IsLoop gives such a function by its steps (...Run), and what holds   *)
(* after i steps is proved by induction on i (NatInd).                     *)
(***************************************************************************)
EXTENDS Locals, Matching, Lists, Usages, Search, ModuleDeps, FiniteSetTheorems, WellFoundedInduction, TLAPS

\* A buffer that grows row by row.
LocalsSpec == BufferInit /\ [][AddRow]_buffer

-----------------------------------------------------------------------------
\* Rows are numbers: a set of them has a first and a last.

\* A set of numbers has a least one.
LEMMA NatMin ==
    ASSUME NEW S \in SUBSET Nat, S # {}
    PROVE  \E x \in S : \A y \in S : x <= y
<1>1. PICK x \in S : \A y \in S : ~(<<y, x>> \in OpToRel(<, Nat))
  BY WFMin, NatLessThanWellFounded
<1>2. ASSUME NEW y \in S PROVE ~(y < x)
  <2>1. ~(<<y, x>> \in {ss \in Nat \X Nat : ss[1] < ss[2]})
    BY <1>1 DEF OpToRel
  <2> QED BY <2>1
<1> QED BY <1>2

\* Least is the first of some rows.
LEMMA LeastRow ==
    ASSUME NEW S \in SUBSET Nat, S # {}
    PROVE  Least(S) \in S /\ \A y \in S : Least(S) <= y
<1>1. PICK x \in S : \A y \in S : x <= y
  BY NatMin
<1>2. Least(S) = CHOOSE k \in S : \A j \in S : k <= j
  BY DEF Least
<1> QED BY <1>1, <1>2

\* Largest is the last of some rows.
LEMMA LargestRow ==
    ASSUME NEW n \in Nat, NEW S \in SUBSET (1..n), S # {}
    PROVE  Largest(S) \in S /\ \A y \in S : y <= Largest(S)
<1> DEFINE T == {m \in Nat : n - m \in S}
<1>1. ASSUME NEW y \in S PROVE n - y \in T /\ y \in Nat
  <2>1. y \in 1..n
    OBVIOUS
  <2>2. n - y \in Nat /\ n - (n - y) = y
    BY <2>1
  <2> QED BY <2>1, <2>2
<1>2. T \in SUBSET Nat /\ T # {}
  BY <1>1
<1>3. PICK x \in T : \A m \in T : x <= m
  <2> HIDE DEF T
  <2> QED BY <1>2, NatMin
<1>4. ASSUME NEW y \in S PROVE y <= n - x
  <2>1. x \in Nat /\ y \in Nat /\ x <= n - y
    BY <1>1, <1>3
  <2> QED BY <2>1
<1>5. n - x \in S
  BY <1>3
<1>6. Largest(S) = CHOOSE k \in S : \A j \in S : j <= k
  BY DEF Largest
<1> QED BY <1>4, <1>5, <1>6

\* Taking the last row of a set that ends at d.
LEMMA LastIs ==
    ASSUME NEW n \in Nat, NEW S \in SUBSET (1..n), NEW d \in S, S \subseteq 1..d
    PROVE  Largest(S) = d
<1>1. S # {}
  OBVIOUS
<1>2. Largest(S) \in S /\ d <= Largest(S)
  BY <1>1, LargestRow
<1>3. Largest(S) \in 1..d /\ d \in 1..n
  BY <1>2
<1> QED BY <1>2, <1>3

-----------------------------------------------------------------------------
\* The function around a row has the row in its range.

\* A buffer is a sequence of rows; what opens and what declares are rows of it.
LEMMA RowsOfBuffer ==
    ASSUME buffer \in Seq(Rows)
    PROVE  /\ Len(buffer) \in Nat /\ DOMAIN buffer = 1..Len(buffer)
           /\ \A k \in DOMAIN buffer : buffer[k] \in Rows
           /\ \A kinds : Opening(kinds) \subseteq 1..Len(buffer)
           /\ Declarations \subseteq 1..Len(buffer)
BY DEF Opening, Declarations

\* The function found for a row is the last that is around it.
LEMMA EnclosingFunction ==
    ASSUME buffer \in Seq(Rows), NEW k
    PROVE  LET s == find_enclosing_function_for_row(k) IN
           /\ s \in 0..Len(buffer)
           /\ s # 0 => s \in Around(k)
           /\ \A t \in Around(k) : s # 0 /\ t <= s
<1>1. Around(k) \subseteq 1..Len(buffer) /\ Len(buffer) \in Nat
  BY RowsOfBuffer DEF Around, Within, FunctionLike
<1>2. CASE Around(k) = {}
  BY <1>1, <1>2 DEF find_enclosing_function_for_row
<1>3. CASE Around(k) # {}
  <2>1. find_enclosing_function_for_row(k) = Largest(Around(k))
    BY <1>3 DEF find_enclosing_function_for_row
  <2>2. Largest(Around(k)) \in Around(k) /\ \A t \in Around(k) : t <= Largest(Around(k))
    BY <1>1, <1>3, LargestRow
  <2> QED BY <1>1, <2>1, <2>2
<1> QED BY <1>2, <1>3

\* A function ends at some row.
LEMMA EndIsRow ==
    ASSUME buffer \in Seq(Rows), NEW s \in 1..Len(buffer)
    PROVE  EndOf(s) \in Nat
<1> DEFINE ends == {e \in s..Len(buffer) : Count(s, e, Opens) = Count(s, e, Closes)}
<1>1. ends \in SUBSET Nat /\ Len(buffer) \in Nat
  BY RowsOfBuffer
<1>2. CASE ends = {}
  BY <1>1, <1>2 DEF EndOf
<1>3. CASE ends # {}
  <2>1. EndOf(s) = Least(ends)
    BY <1>3 DEF EndOf, Least
  <2> HIDE DEF ends
  <2> QED BY <1>1, <1>3, <2>1, LeastRow
<1> QED BY <1>2, <1>3

-----------------------------------------------------------------------------
\* Whatever the rows: the statement of VariableTypesAgree.
LEMMA ScansAgree ==
    ASSUME buffer \in Seq(Rows)
    PROVE  VariableTypesAgree
<1> SUFFICES ASSUME NEW k \in DOMAIN buffer PROVE AgreeAt(k)
  BY DEF VariableTypesAgree
<1> DEFINE n == Len(buffer)
           d == Visible(k)
           s == find_enclosing_function_for_row(k)
           before == Preceding(Declarations, k)
           inner == {e \in Declarations : find_enclosing_function_for_row(e) = s /\ s # 0}
           own == inner \intersect before
           local == find_local_declaration(k)
           listed == collect_local_completion_items(k)
<1>0. /\ n \in Nat /\ k \in 1..n /\ before \in SUBSET (1..n) /\ inner \in SUBSET (1..n)
      /\ own \in SUBSET (1..n) /\ s \in 0..n /\ Declarations \subseteq 1..n
      /\ \A e \in before : e <= k
  BY RowsOfBuffer, EnclosingFunction DEF Preceding
<1>1. /\ inner = IF s = 0 THEN {} ELSE scan_for_var_decl(s)
      /\ own = IF s = 0 THEN {} ELSE Preceding(scan_for_var_decl(s), k)
  BY DEF scan_for_var_decl, Preceding
<1>2. local = IF own = {} THEN 0 ELSE Largest(own)
  BY <1>1 DEF find_local_declaration
<1>3. own # {} => local \in own /\ local # 0
  <2> HIDE DEF own, local
  <2>1. own \in SUBSET (1..n)
    BY <1>0
  <2>2. own # {} => Largest(own) \in own /\ Largest(own) \in 1..n
    BY <1>0, <2>1, LargestRow
  <2> QED BY <1>2, <2>2
\* What completion lists is the first of these.
<1> DEFINE Blocks(j) == Within(Opening({"block"}), j)
           shown == {e \in own : Blocks(e) \subseteq Blocks(k)}
<1>4. listed = IF shown = {} THEN 0 ELSE Least(shown)
  BY <1>1 DEF collect_local_completion_items
<1>5. shown # {} => listed \in shown /\ listed # 0
  <2>1. shown \in SUBSET Nat /\ 0 \notin shown
    BY <1>0
  <2> QED BY <1>4, <2>1, LeastRow
<1>6. d # 0 => d \in before /\ Within(Opening({"function", "lambda", "block"}), d)
                                \subseteq Within(Opening({"function", "lambda", "block"}), k)
  <2> DEFINE scopes == Opening({"function", "lambda", "block"})
             seen == {e \in before : Within(scopes, e) \subseteq Within(scopes, k)}
  <2>1. d = IF seen = {} THEN 0 ELSE Largest(seen)
    BY DEF Visible
  <2>2. seen \in SUBSET (1..n)
    BY <1>0
  <2>3. seen # {} => d \in seen
    BY <1>0, <2>1, <2>2, LargestRow
  <2> QED BY <2>1, <2>3
<1>7. ASSUME d # 0, d \in own, own \subseteq 1..d
      PROVE  infer_var_type(k) = buffer[d].decl /\ local = d
  <2>1. Largest(own) = d
    BY <1>0, <1>7, LastIs
  <2>2. s # 0 /\ inner # {} /\ Preceding(inner, k) = own /\ own # {}
    BY <1>7 DEF Preceding
  <2>3. infer_var_type(k) = TypeAt(own)
    BY <1>1, <2>2 DEF infer_var_type
  <2> QED BY <1>2, <2>1, <2>2, <2>3 DEF TypeAt
<1>c. Counted(k) \in SUBSET (1..n) /\ before \subseteq Counted(k)
  BY RowsOfBuffer DEF Counted, Mentions, Preceding
<1>8. ASSUME d # 0, before \subseteq 1..d
      PROVE  inner = {} => infer_var_type(k) = buffer[d].decl
  <2>1. d \in before /\ Largest(before) = d /\ d \in Declarations
    BY <1>0, <1>6, <1>8, LastIs DEF Preceding
  <2>2. TypeAt(before) = buffer[d].decl /\ buffer[d].decl # Untyped
    BY <2>1 DEF TypeAt, Declarations
  <2>3. inner = {} => infer_var_type(k) = TypeAt(before)
    BY <1>1, <2>1 DEF infer_var_type
  <2> QED BY <2>2, <2>3
\* Completion takes the last declaration that is counted.
<1>s. ASSUME d # 0, Counted(k) \subseteq 1..d
      PROVE  scan_declarations(k) = buffer[d].decl /\ buffer[d].decl # Untyped
  <2>1. d \in Counted(k) /\ buffer[d].decl # Untyped
    <3>1. d \in before
      BY <1>6, <1>s
    <3>2. \A e \in before : buffer[e].decl # Untyped
      BY DEF Preceding, Declarations
    <3> HIDE DEF d, before
    <3> QED BY <1>c, <3>1, <3>2
  <2>2. Largest(Counted(k)) = d
    <3> HIDE DEF d
    <3> QED BY <1>0, <1>c, <1>s, <2>1, LastIs
  <2> HIDE DEF d
  <2> QED BY <2>1, <2>2 DEF scan_declarations
<1>t. ASSUME d # 0, Counted(k) \subseteq 1..d, buffer[d].decl # AutoType
      PROVE  infer_variable_type(k) = buffer[d].decl
  <2> HIDE DEF d
  <2> QED BY <1>s, <1>t DEF infer_variable_type
<1>9. ASSUME d # 0, Counted(k) \subseteq 1..d, before = {d}, buffer[d].init # Untyped,
             buffer[d].decl = AutoType
      PROVE  infer_variable_type(k) = completion_decl_type(d)
  <2>1. d \in 1..n /\ d <= k
    BY <1>0, <1>9
  <2>2. scan_declarations(k) = AutoType
    BY <1>9, <1>s
  <2>3. {j \in 1..k : buffer[j].init # Untyped} = {d}
    <3>1. ASSUME NEW j \in 1..k, buffer[j].init # Untyped PROVE j = d
      <4>1. j \in DOMAIN buffer /\ buffer[j] \in Rows
        BY <1>0, RowsOfBuffer
      <4>2. j \in before
        BY <1>0, <3>1, <4>1, LocalsAssumption DEF Preceding, Declarations
      <4> QED BY <1>9, <4>2
    <3> QED BY <1>0, <1>9, <2>1, <3>1
  <2>4. Least({d}) = d
    <3>1. {d} \in SUBSET Nat /\ {d} # {}
      BY <2>1
    <3> HIDE DEF d
    <3> QED BY <3>1, LeastRow
  <2>5. infer_from_declaration_initializer(k) = buffer[d].init
    BY <2>3, <2>4 DEF infer_from_declaration_initializer, FirstOf
  <2>6. infer_variable_type(k) = buffer[d].init
    <3> HIDE DEF d
    <3> QED BY <1>9, <2>2, <2>5 DEF infer_variable_type
  <2>7. completion_decl_type(d) = buffer[d].init
    <3> HIDE DEF d
    <3> QED BY <1>9 DEF completion_decl_type
  <2> QED BY <2>6, <2>7
<1>10. ASSUME d # 0, d \in own PROVE listed # 0 /\ (own = {d} => listed = d)
  <2>1. Blocks(d) \subseteq Blocks(k)
    BY <1>6, <1>10 DEF Within, Opening
  <2>2. d \in shown
    BY <1>10, <2>1
  <2> QED BY <1>5, <2>2
<1>11. listed # 0 => local # 0
  BY <1>3, <1>4
<1>12. ASSUME local # 0 PROVE {local, k} \subseteq resolve_local_scope(k)
  <2>1. local \in own /\ s # 0
    BY <1>2, <1>3, <1>12
  <2>2. s \in Around(local) /\ s \in Around(k)
    BY <2>1, EnclosingFunction
  <2>3. resolve_local_scope(k) = s..EndOf(s)
    BY <2>1, <2>2 DEF resolve_local_scope, has_local_declaration
  <2>4. \A e : s \in Around(e) => s <= e /\ e <= EndOf(s)
    BY DEF Around, Within
  <2>5. EndOf(s) \in Int
    BY EndIsRow, <1>0, <2>1
  <2> QED BY <1>0, <2>1, <2>2, <2>3, <2>4, <2>5
<1>13. ASSUME resolve_local_scope(k) # {}, local = 0
       PROVE  \E e \in before : s < find_enclosing_function_for_row(e)
  <2>1. s # 0 /\ has_local_declaration(s, k)
    BY <1>13 DEF resolve_local_scope
  <2>2. PICK e \in before : s \in Around(e)
    BY <2>1 DEF has_local_declaration
  <2>3. /\ find_enclosing_function_for_row(e) \in 0..n
        /\ s <= find_enclosing_function_for_row(e)
    BY <2>2, EnclosingFunction
  <2>4. e \notin own
    BY <1>3, <1>13
  <2>5. find_enclosing_function_for_row(e) # s
    BY <2>1, <2>2, <2>4 DEF Preceding
  <2> QED BY <1>0, <2>3, <2>5
<1> QED
  BY <1>7, <1>8, <1>t, <1>9, <1>10, <1>11, <1>12, <1>13 DEF AgreeAt

(* Completion, goto, hover and references take a name at a row of the buffer for the
   same variable, in the cases VariableTypesAgree tells apart, for any buffer
   (infer_var_type, infer_variable_type, find_local_declaration,
   collect_local_completion_items, resolve_local_scope). *)
THEOREM LocalScansAgree == LocalsSpec => []VariableTypesAgree
<1>1. BufferInit => buffer \in Seq(Rows)
  BY DEF BufferInit
<1>2. buffer \in Seq(Rows) /\ [AddRow]_buffer => (buffer \in Seq(Rows))'
  BY DEF AddRow
<1>3. buffer \in Seq(Rows) => VariableTypesAgree
  BY ScansAgree
<1> QED BY <1>1, <1>2, <1>3, PTL DEF LocalsSpec

-----------------------------------------------------------------------------
\* The match of words typed on the words of a name.

\* The loop over the words typed, up to the n-th.
MatchLoop(words, typed, start, m, n) ==
    m = [k \in 1..n |-> IF k = 1 THEN [at |-> start, gaps |-> 0]
                        ELSE Advance(words, m[k - 1], typed[k])]

\* The loop that lays the words typed has results for any number of words.
LEMMA MatchLoops ==
    ASSUME NEW words, NEW typed, NEW start, NEW n \in Nat
    PROVE  \E m : MatchLoop(words, typed, start, m, n)
<1> DEFINE bad == {k \in Nat : ~\E m : MatchLoop(words, typed, start, m, k)}
<1>1. bad = {}
  <2> SUFFICES ASSUME bad # {} PROVE FALSE
    OBVIOUS
  <2>1. PICK x \in bad : \A y \in bad : x <= y
    <3>1. bad \in SUBSET Nat
      OBVIOUS
    <3> HIDE DEF bad
    <3> QED BY <3>1, NatMin
  <2>2. CASE x = 0
    <3>1. 1..0 = {}
      OBVIOUS
    <3>2. MatchLoop(words, typed, start, [k \in {} |-> 0], 0)
      BY <3>1 DEF MatchLoop
    <3> QED BY <2>2, <3>2
  <2>3. CASE x # 0
    <3>1. x \in Nat /\ x - 1 \in Nat /\ ~(x <= x - 1)
      BY <2>3
    <3>2. PICK m : MatchLoop(words, typed, start, m, x - 1)
      BY <2>1, <3>1
    <3> DEFINE last == IF x = 1 THEN [at |-> start, gaps |-> 0] ELSE Advance(words, m[x - 1], typed[x])
               h == [k \in 1..x |-> IF k = x THEN last ELSE m[k]]
    <3>3. \A k \in 1..(x - 1) : m[k] = IF k = 1 THEN [at |-> start, gaps |-> 0]
                                       ELSE Advance(words, m[k - 1], typed[k])
      BY <3>1, <3>2 DEF MatchLoop
    <3>4. ASSUME NEW k \in 1..x
          PROVE  h[k] = IF k = 1 THEN [at |-> start, gaps |-> 0]
                        ELSE Advance(words, h[k - 1], typed[k])
      <4>1. CASE k = x
        <5>1. h[k] = last
          BY <3>1, <4>1
        <5>2. x # 1 => h[k - 1] = m[x - 1]
          BY <3>1, <4>1
        <5> QED BY <4>1, <5>1, <5>2
      <4>2. CASE k # x
        <5>1. k \in 1..(x - 1) /\ h[k] = m[k]
          BY <3>1, <4>2
        <5>2. k # 1 => h[k - 1] = m[k - 1]
          BY <3>1, <4>2
        <5> QED BY <3>3, <5>1, <5>2
      <4> QED BY <4>1, <4>2
    <3>5. MatchLoop(words, typed, start, h, x)
      <4>1. h = [k \in 1..x |-> h[k]]
        OBVIOUS
      <4> HIDE DEF h
      <4> QED BY <3>4, <4>1 DEF MatchLoop
    <3> QED BY <3>5
  <2> QED BY <2>2, <2>3
<1> QED BY <1>1

\* MatchFrom is the last result of that loop.
LEMMA MatchIsLoop ==
    ASSUME NEW V, NEW words, NEW typed \in Seq(V), NEW start
    PROVE  \E m : /\ MatchLoop(words, typed, start, m, Len(typed))
                  /\ MatchFrom(words, typed, start) = m[Len(typed)]
<1> DEFINE r == CHOOSE matched : matched =
                    [k \in 1..Len(typed) |-> IF k = 1 THEN [at |-> start, gaps |-> 0]
                                             ELSE Advance(words, matched[k - 1], typed[k])]
<1>1. \E matched : matched =
                    [k \in 1..Len(typed) |-> IF k = 1 THEN [at |-> start, gaps |-> 0]
                                             ELSE Advance(words, matched[k - 1], typed[k])]
  <2>1. Len(typed) \in Nat
    OBVIOUS
  <2>2. PICK m : MatchLoop(words, typed, start, m, Len(typed))
    BY <2>1, MatchLoops
  <2> QED BY <2>2, Zenon DEF MatchLoop
<1>2. MatchLoop(words, typed, start, r, Len(typed))
  BY <1>1 DEF MatchLoop
<1>3. MatchFrom(words, typed, start) = r[Len(typed)]
  BY DEF MatchFrom
<1> QED BY <1>2, <1>3

\* The next word is behind the last and the first that fits.
LEMMA NextIsFirst ==
    ASSUME NEW V, NEW words \in Seq(V), NEW after \in Nat, NEW p
    PROVE  LET next == NextMatch(words, after, p)
               fits == {i \in DOMAIN words : i > after /\ IsPrefix(p, words[i])}
           IN  /\ next = 0 => fits = {}
               /\ next # 0 => next \in fits
               /\ \A i \in fits : next # 0 /\ next <= i
               /\ next \in Nat
<1> DEFINE next == NextMatch(words, after, p)
           fits == {i \in DOMAIN words : i > after /\ IsPrefix(p, words[i])}
<1>1. DOMAIN words \subseteq Nat \ {0}
  OBVIOUS
<1>2. fits \in SUBSET Nat /\ 0 \notin fits
  BY <1>1
<1>3. next = IF fits = {} THEN 0 ELSE CHOOSE i \in fits : \A j \in fits : i <= j
  BY DEF NextMatch
<1>4. fits # {} => next \in fits /\ \A i \in fits : next <= i
  <2> HIDE DEF fits, next
  <2> QED BY <1>2, <1>3, NatMin
<1> HIDE DEF fits, next
<1>5. /\ next = 0 => fits = {}
      /\ next # 0 => next \in fits
      /\ \A i \in fits : next # 0 /\ next <= i
      /\ next \in Nat
  BY <1>2, <1>3, <1>4
<1> QED BY <1>5 DEF fits, next

\* Ways to lay the first k words typed on words of the name, from start on.
LayoutsFrom(words, typed, start, k) ==
    {at \in [1..k -> DOMAIN words] :
        /\ at[1] = start
        /\ \A i \in 1..k : IsPrefix(typed[i], words[at[i]])
        /\ \A i, j \in 1..k : i < j => at[i] < at[j]}

\* What is found for the first k words typed is a way to lay them.
FoundLayout(words, typed, start, found, k) ==
    /\ found.at \in Nat
    /\ found.at # 0 => /\ found.gaps \in Nat
                       /\ \E at \in LayoutsFrom(words, typed, start, k) :
                             at[k] = found.at /\ found.gaps = at[k] - start - (k - 1)

(* What the loop finds is a way to lay the words. *)
LEMMA FoundIsLayout ==
    ASSUME NEW V, NEW words \in Seq(V), NEW typed, NEW n \in Nat \ {0}, NEW start \in DOMAIN words,
           IsPrefix(typed[1], words[start]), NEW m, MatchLoop(words, typed, start, m, n)
    PROVE  \A k \in 1..n : FoundLayout(words, typed, start, m[k], k)
<1> USE DEF FoundLayout
<1> DEFINE Good(k) ==
              /\ m[k].at \in Nat
              /\ m[k].at # 0 => /\ m[k].gaps \in Nat
                                /\ \E at \in LayoutsFrom(words, typed, start, k) :
                                      at[k] = m[k].at /\ m[k].gaps = at[k] - start - (k - 1)
           bad == {k \in 1..n : ~Good(k)}
<1>0. /\ m[1] = [at |-> start, gaps |-> 0]
      /\ \A k \in 2..n : m[k] = Advance(words, m[k - 1], typed[k])
  BY DEF MatchLoop
<1>1. DOMAIN words \subseteq Nat \ {0}
  OBVIOUS
<1>2. Good(1)
  <2> DEFINE at == [i \in 1..1 |-> start]
  <2>1. at \in LayoutsFrom(words, typed, start, 1)
    BY DEF LayoutsFrom
  <2>2. m[1].at = start /\ m[1].gaps = 0 /\ at[1] = start
    BY <1>0
  <2>3. m[1].gaps = at[1] - start - (1 - 1)
    BY <1>1, <2>2
  <2> QED BY <1>1, <2>1, <2>2, <2>3
<1>3. ASSUME NEW k \in 2..n, Good(k - 1) PROVE Good(k)
  <2>0. k \in Nat /\ k - 1 \in Nat /\ k - 1 # 0 /\ k # 1
    OBVIOUS
  <2> DEFINE last == m[k - 1]
             next == NextMatch(words, last.at, typed[k])
  <2>1. m[k] = IF last.at = 0 THEN last
               ELSE [at |-> next, gaps |-> IF next = 0 THEN 0 ELSE last.gaps + next - last.at - 1]
    BY <1>0 DEF Advance
  <2>2. CASE last.at = 0
    BY <1>3, <2>1, <2>2
  <2>3. CASE last.at # 0
    <3>1. m[k].at = next /\ (next # 0 => m[k].gaps = last.gaps + next - last.at - 1)
      BY <2>1, <2>3
    <3>2. next \in Nat /\ (next # 0 => next \in DOMAIN words /\ next > last.at /\ IsPrefix(typed[k], words[next]))
      BY <1>3, NextIsFirst
    <3>3. CASE next # 0
      <4>1. PICK at \in LayoutsFrom(words, typed, start, k - 1) :
                at[k - 1] = last.at /\ last.gaps = at[k - 1] - start - ((k - 1) - 1)
        BY <1>3, <2>3
      <4> DEFINE to == [i \in 1..k |-> IF i = k THEN next ELSE at[i]]
      <4>2. /\ at \in [1..(k - 1) -> DOMAIN words] /\ at[1] = start
            /\ \A i \in 1..(k - 1) : IsPrefix(typed[i], words[at[i]])
            /\ \A i, j \in 1..(k - 1) : i < j => at[i] < at[j]
        BY <4>1 DEF LayoutsFrom
      <4>3. \A i \in 1..k : i = k \/ i \in 1..(k - 1)
        BY <2>0
      <4>4. to[k] = next /\ \A i \in 1..(k - 1) : to[i] = at[i] /\ i < k /\ i # k
        BY <2>0
      <4>5. to \in [1..k -> DOMAIN words] /\ to[1] = start
        BY <2>0, <3>2, <3>3, <4>2, <4>3
      <4>6. \A i \in 1..k : IsPrefix(typed[i], words[to[i]])
        BY <3>2, <3>3, <4>2, <4>3, <4>4
      <4>7. \A i \in 1..(k - 1) : at[i] <= last.at /\ at[i] \in Nat
        <5> TAKE i \in 1..(k - 1)
        <5>1. k - 1 \in 1..(k - 1) /\ (i = k - 1 \/ i < k - 1)
          BY <2>0
        <5>2. at[i] \in Nat /\ at[k - 1] \in Nat
          BY <1>1, <4>2, <5>1
        <5> QED BY <4>1, <4>2, <5>1, <5>2
      <4>8. \A i, j \in 1..k : i < j => to[i] < to[j]
        <5> TAKE i, j \in 1..k
        <5> HAVE i < j
        <5>1. i \in 1..(k - 1)
          BY <2>0
        <5>2. CASE j = k
          BY <1>3, <3>2, <3>3, <4>4, <4>7, <5>1, <5>2
        <5>3. CASE j # k
          BY <4>2, <4>3, <4>4, <5>1, <5>3
        <5> QED BY <5>2, <5>3
      <4>9. to \in LayoutsFrom(words, typed, start, k)
        <5> HIDE DEF to
        <5> QED BY <4>5, <4>6, <4>8 DEF LayoutsFrom
      <4>10. m[k].gaps \in Nat /\ m[k].gaps = to[k] - start - (k - 1)
        <5>1. last.gaps \in Nat /\ last.at \in Nat /\ start \in Nat
          BY <1>1, <1>3, <2>3
        <5>2. last.gaps = last.at - start - ((k - 1) - 1)
          BY <4>1
        <5>3. next \in Nat /\ next > last.at /\ to[k] = next
          BY <3>2, <3>3, <4>4
        <5>4. m[k].gaps = last.gaps + next - last.at - 1
          BY <3>1, <3>3
        <5>5. k \in Nat
          BY <2>0
        <5>6. /\ last.gaps + next - last.at - 1 \in Nat
              /\ last.gaps + next - last.at - 1 = next - start - (k - 1)
          <6> DEFINE g == last.gaps
                     l == last.at
          <6>1. g \in Nat /\ l \in Nat /\ start \in Nat /\ next \in Nat /\ next > l
                /\ g = l - start - ((k - 1) - 1)
            BY <5>1, <5>2, <5>3
          <6> HIDE DEF g, l, next
          <6>2. g + next - l - 1 = next - start - (k - 1)
            BY <5>5, <6>1
          <6>3. g + next - l - 1 \in Nat
            BY <6>1
          <6> QED BY <6>2, <6>3 DEF g, l
        <5> HIDE DEF last, next, to
        <5> QED BY <5>3, <5>4, <5>6
      <4> QED BY <3>1, <3>2, <4>4, <4>9, <4>10
    <3>4. CASE next = 0
      BY <3>1, <3>4
    <3> QED BY <3>3, <3>4
  <2> QED BY <2>2, <2>3
<1>4. bad = {}
  <2> SUFFICES ASSUME bad # {} PROVE FALSE
    OBVIOUS
  <2>1. bad \in SUBSET Nat
    OBVIOUS
  <2>2. PICK x \in bad : \A y \in bad : x <= y
    <3> HIDE DEF bad
    <3> QED BY <2>1, NatMin
  <2>3. x # 1
    BY <1>2, <2>2
  <2>4. x \in 2..n /\ x - 1 \in 1..n /\ ~(x <= x - 1)
    BY <2>2, <2>3
  <2>5. Good(x - 1)
    <3>1. x - 1 \notin bad
      BY <2>2, <2>4
    <3> HIDE DEF Good
    <3> QED BY <2>4, <3>1
  <2>6. Good(x)
    <3> HIDE DEF Good
    <3> QED BY <1>3, <2>4, <2>5
  <2> HIDE DEF Good
  <2> QED BY <2>2, <2>6
<1> QED
  <2> HIDE DEF Good
  <2>1. \A k \in 1..n : Good(k)
    BY <1>4
  <2> QED BY <2>1 DEF Good

(* Whatever way there is, the loop finds one, and one that ends no later. *)
LEMMA FoundIsFirst ==
    ASSUME NEW V, NEW words \in Seq(V), NEW typed, NEW n \in Nat \ {0}, NEW start \in DOMAIN words,
           IsPrefix(typed[1], words[start]), NEW m, MatchLoop(words, typed, start, m, n)
    PROVE  \A k \in 1..n : \A at \in LayoutsFrom(words, typed, start, k) :
              m[k].at # 0 /\ m[k].at <= at[k]
<1> DEFINE Good(k) == \A at \in LayoutsFrom(words, typed, start, k) : m[k].at # 0 /\ m[k].at <= at[k]
           bad == {k \in 1..n : ~Good(k)}
<1>0. /\ m[1] = [at |-> start, gaps |-> 0]
      /\ \A k \in 2..n : m[k] = Advance(words, m[k - 1], typed[k])
  BY DEF MatchLoop
<1>1. DOMAIN words \subseteq Nat \ {0}
  OBVIOUS
<1>2. Good(1)
  <2> TAKE at \in LayoutsFrom(words, typed, start, 1)
  <2>1. at[1] = start /\ m[1].at = start /\ start \in Nat \ {0}
    BY <1>0, <1>1 DEF LayoutsFrom
  <2> QED BY <2>1
<1>3. ASSUME NEW k \in 2..n, Good(k - 1) PROVE Good(k)
  <2>0. k \in Nat /\ k - 1 \in 1..n /\ k \in 1..k /\ k - 1 \in 1..k /\ k - 1 < k /\ 1 \in 1..(k - 1)
    OBVIOUS
  <2> TAKE at \in LayoutsFrom(words, typed, start, k)
  <2>1. /\ at \in [1..k -> DOMAIN words] /\ at[1] = start
        /\ \A i \in 1..k : IsPrefix(typed[i], words[at[i]])
        /\ \A i, j \in 1..k : i < j => at[i] < at[j]
    BY DEF LayoutsFrom
  <2> DEFINE before == [i \in 1..(k - 1) |-> at[i]]
             last == m[k - 1]
             next == NextMatch(words, last.at, typed[k])
  <2>2. \A i \in 1..(k - 1) : i \in 1..k /\ before[i] = at[i]
    BY <2>0
  <2>3. before \in LayoutsFrom(words, typed, start, k - 1)
    <3>1. before \in [1..(k - 1) -> DOMAIN words]
      BY <2>1, <2>2
    <3> HIDE DEF before
    <3> QED BY <2>0, <2>1, <2>2, <3>1 DEF LayoutsFrom
  <2>4. last.at # 0 /\ last.at <= at[k - 1] /\ last.at \in Nat
    <3>1. k - 1 \in 1..(k - 1)
      BY <2>0
    <3>2. last.at # 0 /\ last.at <= at[k - 1]
      BY <1>3, <2>2, <2>3, <3>1
    <3>3. last.at \in Nat
      <4>1. FoundLayout(words, typed, start, last, k - 1)
        BY <2>0, FoundIsLayout
      <4> QED BY <4>1 DEF FoundLayout
    <3> QED BY <3>2, <3>3
  <2>5. at[k] \in DOMAIN words /\ at[k] > last.at /\ IsPrefix(typed[k], words[at[k]])
    <3>1. at[k - 1] < at[k] /\ at[k] \in DOMAIN words /\ at[k - 1] \in DOMAIN words
      BY <2>0, <2>1
    <3>2. at[k] \in Nat /\ at[k - 1] \in Nat
      BY <1>1, <3>1
    <3>3. IsPrefix(typed[k], words[at[k]])
      BY <2>0, <2>1
    <3> QED BY <2>4, <3>1, <3>2, <3>3
  <2>6. next # 0 /\ next <= at[k]
    <3>1. at[k] \in {i \in DOMAIN words : i > last.at /\ IsPrefix(typed[k], words[i])}
      BY <2>5
    <3>2. \A i \in {i \in DOMAIN words : i > last.at /\ IsPrefix(typed[k], words[i])} :
             next # 0 /\ next <= i
      BY <2>4, NextIsFirst
    <3> QED BY <3>1, <3>2
  <2>7. m[k].at = next
    <3>1. m[k] = Advance(words, last, typed[k])
      BY <1>0
    <3>2. Advance(words, last, typed[k]) =
            IF last.at = 0 THEN last
            ELSE [at |-> next, gaps |-> IF next = 0 THEN 0 ELSE last.gaps + next - last.at - 1]
      BY DEF Advance
    <3> HIDE DEF last, next
    <3> QED BY <2>4, <3>1, <3>2
  <2> QED BY <2>6, <2>7
<1>4. bad = {}
  <2> SUFFICES ASSUME bad # {} PROVE FALSE
    OBVIOUS
  <2>1. bad \in SUBSET Nat
    OBVIOUS
  <2>2. PICK x \in bad : \A y \in bad : x <= y
    <3> HIDE DEF bad
    <3> QED BY <2>1, NatMin
  <2>3. x # 1
    BY <1>2, <2>2
  <2>4. x \in 2..n /\ x - 1 \in 1..n /\ ~(x <= x - 1)
    BY <2>2, <2>3
  <2>5. Good(x - 1)
    <3>1. x - 1 \notin bad
      BY <2>2, <2>4
    <3> HIDE DEF Good
    <3> QED BY <2>4, <3>1
  <2>6. Good(x)
    <3> HIDE DEF Good
    <3> QED BY <1>3, <2>4, <2>5
  <2> HIDE DEF Good
  <2> QED BY <2>2, <2>6
<1> QED
  <2> HIDE DEF Good
  <2>1. \A k \in 1..n : Good(k)
    BY <1>4
  <2> QED BY <2>1 DEF Good

\* The least of two sets that bound each other.
LEMMA SameLeast ==
    ASSUME NEW G \in SUBSET Nat, NEW L \in SUBSET Int, G \subseteq L,
           \A l \in L : \E g \in G : g <= l
    PROVE  LeastOr(G) = LeastOr(L)
<1>1. CASE G = {}
  BY <1>1 DEF LeastOr
<1>2. CASE G # {}
  <2>1. PICK g \in G : \A h \in G : g <= h
    BY <1>2, NatMin
  <2>2. g \in L /\ \A l \in L : g <= l
    <3> SUFFICES ASSUME NEW l \in L PROVE g <= l
      OBVIOUS
    <3>1. PICK h \in G : h <= l
      OBVIOUS
    <3>2. g <= h /\ g \in Int /\ h \in Int /\ l \in Int
      BY <2>1
    <3> QED BY <3>1, <3>2
  <2>3. \A r \in G : (\A q \in G : r <= q) => r = g
    BY <2>1
  <2>4. \A r \in L : (\A q \in L : r <= q) => r = g
    BY <2>2
  <2>5. LeastOr(G) = CHOOSE r \in G : \A q \in G : r <= q
    BY <1>2 DEF LeastOr
  <2>6. LeastOr(L) = CHOOSE r \in L : \A q \in L : r <= q
    BY <2>2 DEF LeastOr
  <2> QED BY <2>1, <2>2, <2>3, <2>4, <2>5, <2>6
<1> QED BY <1>1, <1>2

(* Taking for each word typed the next word of the name that begins with it gives the best
   rank of all ways to lay the words typed on those of the name, for any words and any
   number of them (ordered_word_match_rank). *)
THEOREM GreedyIsBest ==
    ASSUME NEW V, NEW words \in Seq(V), NEW prefix_words \in Seq(V), Len(prefix_words) >= 2
    PROVE  ordered_word_match_rank(words, prefix_words)
             = LeastOr({Rank(at, Len(prefix_words)) : at \in Layouts(words, prefix_words)})
<1> DEFINE n == Len(prefix_words)
           Laid(s) == MatchFrom(words, prefix_words, s)
           starts == {s \in DOMAIN words : IsPrefix(prefix_words[1], words[s]) /\ Laid(s).at # 0}
           G == {(s - 1) * 10 + Laid(s).gaps : s \in starts}
           L == {Rank(at, n) : at \in Layouts(words, prefix_words)}
<1>0. /\ n \in Nat \ {0} /\ n \in 1..n /\ 1 \in 1..n /\ ~(n < 2) /\ DOMAIN prefix_words = 1..n
      /\ DOMAIN words \subseteq Nat \ {0}
  OBVIOUS
<1>1. ordered_word_match_rank(words, prefix_words) = LeastOr(G)
  BY <1>0 DEF ordered_word_match_rank
<1>2. ASSUME NEW s \in DOMAIN words, IsPrefix(prefix_words[1], words[s])
      PROVE  /\ Laid(s).at \in Nat
             /\ Laid(s).at # 0 => /\ Laid(s).gaps \in Nat
                                /\ \E at \in LayoutsFrom(words, prefix_words, s, n) :
                                      at[n] = Laid(s).at /\ Laid(s).gaps = at[n] - s - (n - 1)
             /\ \A at \in LayoutsFrom(words, prefix_words, s, n) : Laid(s).at # 0 /\ Laid(s).at <= at[n]
  <2>1. PICK m : MatchLoop(words, prefix_words, s, m, n) /\ Laid(s) = m[n]
    BY MatchIsLoop
  <2> HIDE DEF n, Laid
  <2>2. n \in Nat \ {0} /\ n \in 1..n
    BY <1>0
  <2>3. \A k \in 1..n : FoundLayout(words, prefix_words, s, m[k], k)
    BY <1>2, <2>1, <2>2, FoundIsLayout
  <2>4. \A k \in 1..n : \A at \in LayoutsFrom(words, prefix_words, s, k) : m[k].at # 0 /\ m[k].at <= at[k]
    BY <1>2, <2>1, <2>2, FoundIsFirst
  <2>5. FoundLayout(words, prefix_words, s, Laid(s), n)
    BY <2>1, <2>2, <2>3
  <2> QED BY <2>1, <2>2, <2>4, <2>5 DEF FoundLayout
<1>3. G \in SUBSET Nat
  <2> SUFFICES ASSUME NEW s \in starts PROVE (s - 1) * 10 + Laid(s).gaps \in Nat
    OBVIOUS
  <2>1. s \in Nat \ {0} /\ Laid(s).gaps \in Nat
    BY <1>0, <1>2
  <2> HIDE DEF Laid
  <2> QED BY <2>1
<1>4. \A at \in Layouts(words, prefix_words) :
        /\ at[1] \in DOMAIN words /\ at[n] \in DOMAIN words /\ IsPrefix(prefix_words[1], words[at[1]])
        /\ at \in LayoutsFrom(words, prefix_words, at[1], n)
  BY <1>0 DEF Layouts, LayoutsFrom
<1>5. L \in SUBSET Int
  <2> SUFFICES ASSUME NEW at \in Layouts(words, prefix_words) PROVE Rank(at, n) \in Int
    OBVIOUS
  <2>1. at[1] \in Nat /\ at[n] \in Nat
    BY <1>0, <1>4
  <2> QED BY <1>0, <2>1 DEF Rank
<1>6. G \subseteq L
  <2> SUFFICES ASSUME NEW s \in starts PROVE (s - 1) * 10 + Laid(s).gaps \in L
    OBVIOUS
  <2>1. PICK at \in LayoutsFrom(words, prefix_words, s, n) : Laid(s).gaps = at[n] - s - (n - 1)
    BY <1>2
  <2>2. at \in Layouts(words, prefix_words) /\ at[1] = s /\ at[n] \in DOMAIN words
    BY <1>0, <2>1 DEF Layouts, LayoutsFrom
  <2>3. s \in Nat /\ at[n] \in Nat
    BY <1>0, <2>2
  <2>4. (s - 1) * 10 + Laid(s).gaps = Rank(at, n)
    <3> HIDE DEF Laid
    <3> QED BY <1>0, <2>1, <2>2, <2>3 DEF Rank
  <2> QED BY <2>2, <2>4
<1>7. \A l \in L : \E g \in G : g <= l
  <2> SUFFICES ASSUME NEW at \in Layouts(words, prefix_words) PROVE \E g \in G : g <= Rank(at, n)
    OBVIOUS
  <2> DEFINE s == at[1]
  <2>1. Laid(s).at # 0 /\ Laid(s).at <= at[n] /\ s \in starts
    BY <1>2, <1>4
  <2>2. PICK b \in LayoutsFrom(words, prefix_words, s, n) :
          b[n] = Laid(s).at /\ Laid(s).gaps = b[n] - s - (n - 1)
    BY <1>2, <2>1
  <2>3. s \in Nat /\ at[n] \in Nat /\ Laid(s).at \in Nat
    BY <1>0, <1>2, <1>4
  <2>4. (s - 1) * 10 + Laid(s).gaps <= Rank(at, n)
    <3> DEFINE x == Laid(s).at
               y == Laid(s).gaps
    <3>1. x \in Nat /\ x <= at[n] /\ y = x - s - (n - 1) /\ Rank(at, n) = (s - 1) * 10 + at[n] - s - (n - 1)
      BY <2>1, <2>2, <2>3 DEF Rank
    <3> HIDE DEF Laid, s, x, n
    <3>2. (s - 1) * 10 + y <= Rank(at, n)
      BY <1>0, <2>3, <3>1
    <3> QED BY <3>2
  <2> QED BY <2>1, <2>4
<1> HIDE DEF G, L
<1>8. LeastOr(G) = LeastOr(L)
  BY <1>3, <1>5, <1>6, <1>7, SameLeast
<1> QED BY <1>1, <1>8 DEF L

-----------------------------------------------------------------------------
\* Slices of a sequence: the batches of references, the pages of a search.

\* The number of batches: rounded up.
LEMMA Division ==
    ASSUME NEW l \in Nat, NEW k \in Nat \ {0}
    PROVE  LET n == (l + k - 1) \div k IN n \in Nat /\ n * k >= l /\ n * k < l + k
  OBVIOUS

\* Where a slice begins and ends.
LEMMA Multiples ==
    ASSUME NEW n \in Nat, NEW b \in 1..n, NEW k \in Nat
    PROVE  (b - 1) * k \in Nat /\ (b - 1) * k + k = b * k /\ b * k <= n * k
  OBVIOUS

\* The first n of a sequence ...
LEMMA CutIs ==
    ASSUME NEW V, NEW s \in Seq(V), NEW n \in Nat
    PROVE  /\ Cut(s, n) \in Seq(V)
           /\ Len(Cut(s, n)) = IF Len(s) < n THEN Len(s) ELSE n
           /\ \A i \in 1..Len(Cut(s, n)) : Cut(s, n)[i] = s[i]
<1> DEFINE m == IF Len(s) < n THEN Len(s) ELSE n
<1>1. m \in Nat /\ m <= Len(s) /\ \A i \in 1..m : s[i] \in V
  OBVIOUS
<1>2. Cut(s, n) = SubSeq(s, 1, m)
  BY DEF Cut
<1> HIDE DEF m
<1> QED BY <1>1, <1>2 DEF m

\* ... and what is behind the first a.
LEMMA AfterIs ==
    ASSUME NEW V, NEW s \in Seq(V), NEW a \in Nat
    PROVE  LET t == SubSeq(s, a + 1, Len(s))
           IN  /\ t \in Seq(V)
               /\ Len(t) = IF a < Len(s) THEN Len(s) - a ELSE 0
               /\ \A i \in 1..Len(t) : t[i] = s[a + i]
  OBVIOUS

\* The first a and the next k are the first a + k.
LEMMA CutGrows ==
    ASSUME NEW V, NEW s \in Seq(V), NEW a \in Nat, NEW k \in Nat
    PROVE  Cut(s, a) \o Cut(SubSeq(s, a + 1, Len(s)), k) = Cut(s, a + k)
<1> DEFINE t == SubSeq(s, a + 1, Len(s))
           l == Cut(s, a)
           r == Cut(t, k)
           w == Cut(s, a + k)
<1>1. t \in Seq(V) /\ \A i \in 1..Len(t) : t[i] = s[a + i]
  BY AfterIs
<1>2. Len(s) \in Nat /\ Len(t) \in Nat /\ Len(t) = IF a < Len(s) THEN Len(s) - a ELSE 0
  BY AfterIs
<1> HIDE DEF t
<1>3. l \in Seq(V) /\ \A i \in 1..Len(l) : l[i] = s[i]
  BY CutIs
<1>4. r \in Seq(V) /\ \A i \in 1..Len(r) : r[i] = t[i]
  BY <1>1, CutIs
<1>5. w \in Seq(V) /\ \A i \in 1..Len(w) : w[i] = s[i]
  BY CutIs
<1>6. /\ Len(l) = IF Len(s) < a THEN Len(s) ELSE a
      /\ Len(r) = IF Len(t) < k THEN Len(t) ELSE k
      /\ Len(w) = IF Len(s) < a + k THEN Len(s) ELSE a + k
  BY <1>1, CutIs
<1> HIDE DEF l, r, w
<1>7. /\ Len(l) \in Nat /\ Len(r) \in Nat /\ Len(w) = Len(l) + Len(r)
      /\ Len(r) # 0 => Len(l) = a
      /\ Len(r) <= Len(t)
  <2>1. CASE a < Len(s)
    <3>1. Len(l) = a /\ Len(t) = Len(s) - a
      BY <1>2, <1>6, <2>1
    <3>2. CASE Len(t) < k
      BY <1>2, <1>6, <2>1, <3>1, <3>2
    <3>3. CASE ~(Len(t) < k)
      BY <1>2, <1>6, <2>1, <3>1, <3>3
    <3> QED BY <3>2, <3>3
  <2>2. CASE ~(a < Len(s))
    <3>1. Len(l) = Len(s) /\ Len(t) = 0 /\ Len(w) = Len(s)
      BY <1>2, <1>6, <2>2
    <3>2. Len(r) = 0
      BY <1>6, <3>1
    <3> QED BY <1>2, <3>1, <3>2
  <2> QED BY <2>1, <2>2
<1> DEFINE c == l \o r
<1>8. /\ c \in Seq(V) /\ Len(c) = Len(w)
      /\ \A i \in 1..Len(l) : c[i] = l[i]
      /\ \A i \in 1..Len(r) : c[Len(l) + i] = r[i]
  BY <1>3, <1>4, <1>7
<1> HIDE DEF c
<1>9. ASSUME NEW i \in 1..Len(w) PROVE c[i] = w[i]
  <2>1. CASE i <= Len(l)
    BY <1>3, <1>5, <1>7, <1>8, <2>1
  <2>2. CASE i > Len(l)
    <3>1. i - Len(l) \in 1..Len(r) /\ Len(l) + (i - Len(l)) = i /\ Len(l) = a /\ i - a \in 1..Len(t)
      BY <1>2, <1>7, <2>2
    <3>2. c[i] = r[i - a]
      BY <1>8, <3>1
    <3>3. r[i - a] = t[i - a]
      BY <1>4, <3>1
    <3>4. a + (i - a) = i /\ t[i - a] = s[a + (i - a)]
      BY <1>1, <3>1
    <3> QED BY <1>5, <3>2, <3>3, <3>4
  <2> QED BY <1>7, <2>1, <2>2
<1>10. c = w
  BY <1>5, <1>8, <1>9
<1> QED BY <1>10 DEF c, l, r, w, t

(* FlattenSeq is what any function is that adds up the sequences one by one. *)
LEMMA FlattenIs ==
    ASSUME NEW q, NEW n \in Nat \ {0}, Len(q) = n, NEW f,
           \A i \in 1..n : f[i] = IF i = 1 THEN q[i] ELSE f[i - 1] \o q[i]
    PROVE  FlattenSeq(q) = f[n]
<1> DEFINE r == CHOOSE flatten : flatten = [i \in 1..Len(q) |-> IF i = 1 THEN q[i]
                                                                  ELSE flatten[i - 1] \o q[i]]
           bad == {i \in 1..n : r[i] # f[i]}
<1>1. FlattenSeq(q) = r[n]
  BY DEF FlattenSeq
<1>2. r = [i \in 1..Len(q) |-> IF i = 1 THEN q[i] ELSE r[i - 1] \o q[i]]
  <2>1. \E g : g = [i \in 1..Len(q) |-> IF i = 1 THEN q[i] ELSE g[i - 1] \o q[i]]
    <3> DEFINE g == [i \in 1..n |-> f[i]]
    <3>1. \A i \in 1..n : g[i] = f[i] /\ (i # 1 => i - 1 \in 1..n /\ g[i - 1] = f[i - 1])
      OBVIOUS
    <3>2. g = [i \in 1..n |-> g[i]]
      OBVIOUS
    <3> HIDE DEF g, r, bad
    <3>3. \A i \in 1..n : g[i] = IF i = 1 THEN q[i] ELSE g[i - 1] \o q[i]
      <4> TAKE i \in 1..n
      <4>1. g[i] = f[i] /\ f[i] = IF i = 1 THEN q[i] ELSE f[i - 1] \o q[i]
        BY <3>1
      <4>2. i # 1 => g[i - 1] = f[i - 1]
        BY <3>1
      <4> QED BY <4>1, <4>2
    <3>4. g = [i \in 1..n |-> IF i = 1 THEN q[i] ELSE g[i - 1] \o q[i]]
      BY <3>2, <3>3
    <3> QED BY <3>4
  <2> QED BY <2>1
<1> HIDE DEF r
<1>3. \A i \in 1..n : r[i] = IF i = 1 THEN q[i] ELSE r[i - 1] \o q[i]
  BY <1>2
<1>5. bad = {}
  <2> SUFFICES ASSUME bad # {} PROVE FALSE
    OBVIOUS
  <2>1. bad \in SUBSET Nat
    OBVIOUS
  <2>2. PICK x \in bad : \A y \in bad : x <= y
    <3> HIDE DEF bad
    <3> QED BY <2>1, NatMin
  <2>3. x # 1
    BY <1>3, <2>2
  <2>4. x - 1 \in 1..n /\ ~(x <= x - 1)
    BY <2>2, <2>3
  <2>5. r[x - 1] = f[x - 1]
    BY <2>2, <2>4
  <2>6. r[x] = r[x - 1] \o q[x] /\ f[x] = f[x - 1] \o q[x] /\ r[x] # f[x]
    <3>1. x \in 1..n /\ r[x] # f[x]
      BY <2>2
    <3> HIDE DEF bad
    <3> QED BY <1>3, <2>3, <3>1
  <2> QED BY <2>5, <2>6
<1>6. n \in 1..n
  OBVIOUS
<1> QED BY <1>1, <1>5, <1>6

(* Slices of one size put one after the other are what they were cut from. *)
LEMMA SlicesAddUp ==
    ASSUME NEW V, NEW s \in Seq(V), NEW k \in Nat, NEW n \in Nat \ {0}
    PROVE  FlattenSeq([b \in 1..n |-> Cut(SubSeq(s, (b - 1) * k + 1, Len(s)), k)]) = Cut(s, n * k)
<1> DEFINE q == [b \in 1..n |-> Cut(SubSeq(s, (b - 1) * k + 1, Len(s)), k)]
           f == [i \in 1..n |-> Cut(s, i * k)]
<1>1. n \in 1..n /\ Len(q) = n
  OBVIOUS
<1>2. ASSUME NEW i \in 1..n
      PROVE  f[i] = IF i = 1 THEN q[i] ELSE f[i - 1] \o q[i]
  <2>1. (i - 1) * k \in Nat /\ (i - 1) * k + k = i * k
    BY Multiples
  <2>2. Cut(s, (i - 1) * k) \o q[i] = f[i]
    <3> DEFINE a == (i - 1) * k
    <3>1. q[i] = Cut(SubSeq(s, a + 1, Len(s)), k) /\ f[i] = Cut(s, a + k)
      BY <2>1
    <3>2. a \in Nat
      BY <2>1
    <3> HIDE DEF a, q, f
    <3>3. Cut(s, a) \o Cut(SubSeq(s, a + 1, Len(s)), k) = Cut(s, a + k)
      BY <3>2, CutGrows
    <3> QED BY <3>1, <3>3 DEF a
  <2>3. CASE i = 1
    <3>1. (i - 1) * k = 0 /\ Cut(s, 0) = << >>
      BY <2>3 DEF Cut
    <3>2. q[i] \in Seq(V)
      BY <2>1, AfterIs, CutIs
    <3> QED BY <2>2, <2>3, <3>1, <3>2
  <2>4. CASE i # 1
    <3>1. i - 1 \in 1..n
      BY <2>4
    <3> QED BY <2>2, <2>4, <3>1
  <2> QED BY <2>3, <2>4
<1>3. FlattenSeq(q) = f[n]
  <2> HIDE DEF q, f
  <2> QED BY <1>1, <1>2, FlattenIs
<1> QED BY <1>1, <1>3

(* The batches of a streaming request put together are what was found, and none of them
   is empty or too large, for any results and any size of a batch
   (find_symbol_usages_async). *)
THEOREM BatchesAddUp ==
    ASSUME NEW V, NEW items \in Seq(V)
    PROVE  /\ FlattenSeq(Batches(items)) = items
           /\ \A b \in DOMAIN Batches(items) : Len(Batches(items)[b]) \in 1..STREAM_BATCH
<1> DEFINE k == STREAM_BATCH
           n == (Len(items) + k - 1) \div k
<1>1. k \in Nat \ {0} /\ Len(items) \in Nat
  BY UsagesAssumption
<1>2. n \in Nat /\ n * k >= Len(items) /\ n * k < Len(items) + k
  <2> HIDE DEF k
  <2> QED BY <1>1, Division
<1>3. Batches(items) = [b \in 1..n |-> Cut(SubSeq(items, (b - 1) * k + 1, Len(items)), k)]
  BY DEF Batches
<1> HIDE DEF k, n
<1>4. FlattenSeq(Batches(items)) = items
  <2>1. CASE n = 0
    <3>1. n * k = 0 /\ Len(items) = 0
      BY <1>1, <1>2, <2>1
    <3>2. items = << >> /\ Batches(items) = << >>
      BY <1>3, <2>1, <3>1
    <3> QED BY <3>2 DEF FlattenSeq
  <2>2. CASE n # 0
    <3>1. FlattenSeq(Batches(items)) = Cut(items, n * k)
      BY <1>1, <1>2, <1>3, <2>2, SlicesAddUp
    <3>2. n * k \in Nat
      BY <1>1, <1>2
    <3>3. Cut(items, n * k) = SubSeq(items, 1, Len(items))
      BY <1>1, <1>2, <3>2 DEF Cut
    <3> QED BY <3>1, <3>3
  <2> QED BY <2>1, <2>2
<1>5. ASSUME NEW b \in 1..n PROVE Len(Batches(items)[b]) \in 1..k
  <2> DEFINE a == (b - 1) * k
             t == SubSeq(items, a + 1, Len(items))
  <2>1. a \in Nat /\ a + k = b * k /\ b * k <= n * k
    BY <1>1, <1>2, Multiples
  <2> HIDE DEF a
  <2>2. a < Len(items)
    BY <1>1, <1>2, <2>1
  <2>3. t \in Seq(V) /\ Len(t) = Len(items) - a
    BY <2>1, <2>2, AfterIs
  <2> HIDE DEF t
  <2>4. Len(Cut(t, k)) = IF Len(t) < k THEN Len(t) ELSE k
    BY <1>1, <2>3, CutIs
  <2>5. Len(t) \in Nat \ {0}
    BY <1>1, <2>1, <2>2, <2>3
  <2>6. Batches(items)[b] = Cut(t, k)
    BY <1>3 DEF a, t
  <2> QED BY <1>1, <2>4, <2>5, <2>6
<1> QED BY <1>3, <1>4, <1>5 DEF k

\* What holds of 0 and is carried on holds up to n.
LEMMA NatInd ==
    ASSUME NEW n \in Nat, NEW S, 0 \in S, \A i \in 1..n : i - 1 \in S => i \in S
    PROVE  \A i \in 0..n : i \in S
<1> DEFINE bad == {i \in 0..n : i \notin S}
<1>1. bad \in SUBSET Nat
  OBVIOUS
<1>2. SUFFICES ASSUME bad # {} PROVE FALSE
  OBVIOUS
<1>3. PICK x \in bad : \A y \in bad : x <= y
  <2> HIDE DEF bad
  <2> QED BY <1>1, <1>2, NatMin
<1>4. x \in 1..n /\ x - 1 \in 0..n /\ ~(x <= x - 1)
  BY <1>3
<1>5. x - 1 \in S
  BY <1>3, <1>4
<1> QED BY <1>3, <1>4, <1>5

(* A loop of n steps: its results so far. *)
Steps(A, n) == [A \X (1..n) -> A]
IsRun(A, base, n, step, acc) ==
    /\ acc \in [0..n -> A] /\ acc[0] = base
    /\ \A i \in 1..n : acc[i] = step[<<acc[i - 1], i>>]

\* Such a loop has results.
LEMMA LoopExists ==
    ASSUME NEW A, NEW base \in A, NEW n \in Nat, NEW step \in Steps(A, n)
    PROVE  \E acc : IsRun(A, base, n, step, acc)
<1> USE DEF Steps, IsRun
<1> DEFINE Run(acc, m) == /\ acc \in [0..m -> A] /\ acc[0] = base
                          /\ \A i \in 1..m : acc[i] = step[<<acc[i - 1], i>>]
           S == {m \in 0..n : \E acc : Run(acc, m)}
<1>1. 0 \in S
  <2> DEFINE acc == [i \in 0..0 |-> base]
  <2>1. Run(acc, 0)
    OBVIOUS
  <2> HIDE DEF Run
  <2> QED BY <2>1
<1>2. ASSUME NEW m \in 1..n, m - 1 \in S PROVE m \in S
  <2>1. PICK acc : Run(acc, m - 1)
    BY <1>2
  <2>2. m \in Nat /\ m - 1 \in 0..(m - 1) /\ m \notin 0..(m - 1) /\ 0..m = (0..(m - 1)) \union {m} /\ m - 1 \in Nat
        /\ 1..m = (1..(m - 1)) \union {m}
    OBVIOUS
  <2> DEFINE last == step[<<acc[m - 1], m>>]
             more == [i \in 0..m |-> IF i = m THEN last ELSE acc[i]]
  <2>3. acc[m - 1] \in A /\ last \in A
    BY <2>1, <2>2
  <2>4. more[m] = last /\ \A i \in 0..(m - 1) : more[i] = acc[i]
    BY <2>2
  <2>5. more \in [0..m -> A]
    BY <2>1, <2>2, <2>3
  <2>6. \A i \in 1..m : i - 1 \in 0..(m - 1)
    OBVIOUS
  <2> HIDE DEF more, last
  <2>7. more[0] = base
    BY <2>1, <2>2, <2>4
  <2>8. ASSUME NEW i \in 1..m PROVE more[i] = step[<<more[i - 1], i>>]
    <3>1. CASE i = m
      BY <2>2, <2>4, <3>1 DEF last
    <3>2. CASE i # m
      <4>1. i \in 1..(m - 1) /\ i \in 0..(m - 1)
        BY <2>2, <3>2
      <4> QED BY <2>1, <2>4, <2>6, <4>1
    <3> QED BY <3>1, <3>2
  <2> QED BY <2>5, <2>7, <2>8
<1>3. n \in S
  <2> HIDE DEF S
  <2>1. \A i \in 0..n : i \in S
    BY <1>1, <1>2, NatInd
  <2> QED BY <2>1
<1> QED BY <1>3
\* Two loops that begin alike and whose steps agree end alike.
LEMMA SameRuns ==
    ASSUME NEW n \in Nat, NEW f, NEW g, f[0] = g[0], \A i \in 1..n : f[i - 1] = g[i - 1] => f[i] = g[i]
    PROVE  f[n] = g[n]
<1> DEFINE same == {i \in 0..n : f[i] = g[i]}
<1>1. 0 \in same /\ \A i \in 1..n : i - 1 \in same => i \in same
  OBVIOUS
<1> HIDE DEF same
<1>2. \A i \in 0..n : i \in same
  BY <1>1, NatInd
<1> QED BY <1>2 DEF same

-----------------------------------------------------------------------------
\* Sequences without an item twice.

\* What is in a sequence, and when nothing is in it twice.
LEMMA RangeIs ==
    ASSUME NEW V, NEW s \in Seq(V)
    PROVE  /\ Range(s) = {s[i] : i \in 1..Len(s)} /\ Range(s) \subseteq V
           /\ IsInjective(s) <=> \A i, j \in 1..Len(s) : s[i] = s[j] => i = j
BY DEF Range, IsInjective

\* What a sequence has when an item is appended.
LEMMA AppendIs ==
    ASSUME NEW V, NEW s \in Seq(V), NEW x \in V
    PROVE  /\ Append(s, x) \in Seq(V) /\ Len(Append(s, x)) = Len(s) + 1
           /\ Range(Append(s, x)) = Range(s) \union {x}
           /\ IsInjective(s) /\ x \notin Range(s) => IsInjective(Append(s, x))
<1> DEFINE t == Append(s, x)
<1>1. /\ t \in Seq(V) /\ Len(t) = Len(s) + 1 /\ Len(s) \in Nat
      /\ t[Len(s) + 1] = x /\ \A i \in 1..Len(s) : t[i] = s[i]
  OBVIOUS
<1>2. 1..(Len(s) + 1) = (1..Len(s)) \union {Len(s) + 1}
  BY <1>1
<1> HIDE DEF t
<1>3. Range(t) = Range(s) \union {x}
  <2>1. Range(t) = {t[i] : i \in (1..Len(s)) \union {Len(s) + 1}}
    BY <1>1, <1>2, RangeIs
  <2>2. Range(s) = {s[i] : i \in 1..Len(s)}
    BY RangeIs
  <2> QED BY <1>1, <2>1, <2>2
<1>4. ASSUME IsInjective(s), x \notin Range(s) PROVE IsInjective(t)
  <2>1. \A i \in 1..Len(s) : s[i] # x
    BY <1>4, RangeIs
  <2>2. \A i, j \in 1..Len(s) : s[i] = s[j] => i = j
    BY <1>4, RangeIs
  <2>3. \A i, j \in 1..Len(t) : t[i] = t[j] => i = j
    BY <1>1, <1>2, <2>1, <2>2
  <2> QED BY <1>1, <2>3, RangeIs
<1> QED BY <1>1, <1>3, <1>4 DEF t

KeepRun(V, s, S, kept) ==
    /\ kept \in [0..Len(s) -> Seq(V)] /\ kept[0] = << >> /\ KeepIn(s, S) = kept[Len(s)]
    /\ \A i \in 1..Len(s) :
          kept[i] = IF s[i] \in S THEN Append(kept[i - 1], s[i]) ELSE kept[i - 1]

\* KeepIn is the last result of its loop.
LEMMA KeepIsLoop ==
    ASSUME NEW V, NEW s \in Seq(V), NEW S
    PROVE  \E kept : KeepRun(V, s, S, kept)
<1> DEFINE n == Len(s)
           step == [x \in Seq(V) \X (1..n) |-> IF s[x[2]] \in S THEN Append(x[1], s[x[2]]) ELSE x[1]]
           r == CHOOSE kept : kept = [i \in 0..n |->
                    IF i = 0 THEN << >>
                    ELSE IF s[i] \in S THEN Append(kept[i - 1], s[i]) ELSE kept[i - 1]]
<1>1. n \in Nat /\ << >> \in Seq(V) /\ step \in [Seq(V) \X (1..n) -> Seq(V)]
  OBVIOUS
<1>2. KeepIn(s, S) = r[n]
  BY DEF KeepIn
<1>3. PICK acc \in [0..n -> Seq(V)] : acc[0] = << >> /\ \A i \in 1..n : acc[i] = step[<<acc[i - 1], i>>]
  <2> DEFINE A == Seq(V)
             base == << >>
  <2>1. n \in Nat /\ base \in A /\ step \in Steps(A, n)
    BY <1>1 DEF Steps
  <2> HIDE DEF step, n, A, base
  <2>2. \E acc : IsRun(A, base, n, step, acc)
    BY <2>1, LoopExists
  <2> QED BY <2>2 DEF A, base, IsRun
<1>4. \A i \in 1..n : acc[i - 1] \in Seq(V)
  BY <1>1
<1>5. \A i \in 1..n : acc[i] = IF s[i] \in S THEN Append(acc[i - 1], s[i]) ELSE acc[i - 1]
  BY <1>3, <1>4
<1>6. acc = [i \in 0..n |->
                IF i = 0 THEN << >>
                ELSE IF s[i] \in S THEN Append(acc[i - 1], s[i]) ELSE acc[i - 1]]
  <2> \A i \in 0..n : i # 0 => i \in 1..n
    OBVIOUS
  <2> HIDE DEF step, n
  <2> QED BY <1>3, <1>5
<1>7. r = [i \in 0..n |->
                IF i = 0 THEN << >>
                ELSE IF s[i] \in S THEN Append(r[i - 1], s[i]) ELSE r[i - 1]]
  <2> HIDE DEF n
  <2> QED BY <1>6
<1> HIDE DEF r, step
<1>8. /\ r[0] = << >>
      /\ \A i \in 1..n : r[i] = IF s[i] \in S THEN Append(r[i - 1], s[i]) ELSE r[i - 1]
  <2>1. 0 \in 0..n /\ \A i \in 1..n : i \in 0..n /\ i # 0
    BY <1>1
  <2> HIDE DEF n
  <2> QED BY <1>7, <2>1
<1>9. r[n] = acc[n]
  <2> HIDE DEF n
  <2>1. \A i \in 1..n : r[i - 1] = acc[i - 1] => r[i] = acc[i]
    BY <1>5, <1>8
  <2>2. r[0] = acc[0] /\ n \in Nat
    BY <1>1, <1>3, <1>8
  <2> QED BY <2>1, <2>2, SameRuns
<1>10. KeepRun(V, s, S, acc)
  BY <1>2, <1>3, <1>5, <1>9 DEF KeepRun
<1> QED BY <1>10

\* The empty sequence is one of any items.
LEMMA EmptyIs ==
    /\ \A V : << >> \in Seq(V)
    /\ Len(<< >>) = 0 /\ Range(<< >>) = {} /\ IsInjective(<< >>)
BY DEF Range, IsInjective

\* KeepIn keeps what is in the set, and nothing twice that was there once.
LEMMA KeepIs ==
    ASSUME NEW V, NEW s \in Seq(V), NEW S
    PROVE  /\ KeepIn(s, S) \in Seq(V) /\ Range(KeepIn(s, S)) = Range(s) \intersect S
           /\ IsInjective(s) => IsInjective(KeepIn(s, S))
<1> DEFINE n == Len(s)
<1>1. n \in Nat /\ n \in 0..n /\ DOMAIN s = 1..n
  OBVIOUS
<1>2. PICK kept : KeepRun(V, s, S, kept)
  BY KeepIsLoop
<1> USE DEF KeepRun
<1> DEFINE Good(i) == /\ Range(kept[i]) = {s[j] : j \in 1..i} \intersect S
                      /\ IsInjective(s) => IsInjective(kept[i])
           good == {i \in 0..n : Good(i)}
<1>3. 0 \in good
  <2>1. 0 \in 0..n /\ 1..0 = {} /\ kept[0] = << >>
    BY <1>1, <1>2
  <2> QED BY <2>1, EmptyIs
<1>4. ASSUME NEW i \in 1..n, i - 1 \in good PROVE i \in good
  <2>1. /\ i - 1 \in 0..n /\ i \in 0..n /\ 1..i = (1..(i - 1)) \union {i} /\ s[i] \in V
        /\ kept[i - 1] \in Seq(V) /\ i \notin 1..(i - 1) /\ 1..i \subseteq 1..n
    <3>1. i - 1 \in 0..n /\ i \in 0..n /\ i \in 1..n /\ i \notin 1..(i - 1)
      BY <1>1
    <3>2. 1..i = (1..(i - 1)) \union {i} /\ 1..i \subseteq 1..n
      BY <1>1
    <3>3. s[i] \in V
      BY <1>1
    <3>4. kept[i - 1] \in Seq(V)
      BY <1>2, <3>1
    <3> QED BY <3>1, <3>2, <3>3, <3>4
  <2>2. {s[j] : j \in 1..i} = {s[j] : j \in 1..(i - 1)} \union {s[i]}
    BY <2>1
  <2>3. CASE s[i] \in S
    <3>1. kept[i] = Append(kept[i - 1], s[i])
      BY <1>2, <2>3
    <3>2. Range(kept[i]) = Range(kept[i - 1]) \union {s[i]}
      BY <2>1, <3>1, AppendIs
    <3>3. IsInjective(s) => s[i] \notin {s[j] : j \in 1..(i - 1)}
      BY <2>1, RangeIs
    <3>4. IsInjective(s) => IsInjective(kept[i])
      BY <1>4, <2>1, <3>1, <3>3, AppendIs
    <3> QED BY <1>4, <2>1, <2>2, <2>3, <3>2, <3>4
  <2>4. CASE s[i] \notin S
    <3>1. kept[i] = kept[i - 1]
      BY <1>2, <2>4
    <3> QED BY <1>4, <2>1, <2>2, <2>4, <3>1
  <2> QED BY <2>3, <2>4
<1>5. Good(n)
  <2> HIDE DEF Good
  <2>1. \A i \in 0..n : i \in good
    <3> HIDE DEF good, n
    <3> QED BY <1>1, <1>3, <1>4, NatInd
  <2> QED BY <1>1, <2>1
<1>6. Range(s) = {s[j] : j \in 1..n}
  BY RangeIs
<1> QED BY <1>1, <1>2, <1>5, <1>6

-----------------------------------------------------------------------------
\* Sequences put together.

\* What two sequences have, put together.
LEMMA ConcatIs ==
    ASSUME NEW V, NEW s \in Seq(V), NEW t \in Seq(V)
    PROVE  /\ s \o t \in Seq(V) /\ Len(s \o t) = Len(s) + Len(t)
           /\ Range(s \o t) = Range(s) \union Range(t)
           /\ IsInjective(s) /\ IsInjective(t) /\ Range(s) \intersect Range(t) = {} => IsInjective(s \o t)
<1> DEFINE c == s \o t
<1>1. /\ c \in Seq(V) /\ Len(c) = Len(s) + Len(t) /\ Len(s) \in Nat /\ Len(t) \in Nat
      /\ \A i \in 1..Len(s) : c[i] = s[i]
      /\ \A i \in 1..Len(t) : c[Len(s) + i] = t[i]
  OBVIOUS
<1> HIDE DEF c
<1>2. \A i \in 1..Len(c) : i \in 1..Len(s) \/ (i - Len(s) \in 1..Len(t) /\ Len(s) + (i - Len(s)) = i)
  <2> DEFINE l == Len(s)
             k == Len(t)
  <2>1. l \in Nat /\ k \in Nat /\ Len(c) = l + k
    BY <1>1
  <2> HIDE DEF l, k
  <2>2. \A i \in 1..(l + k) : i \in 1..l \/ (i - l \in 1..k /\ l + (i - l) = i)
    BY <2>1
  <2> QED BY <2>1, <2>2 DEF l, k
<1>3. /\ \A i \in 1..Len(s) : i \in 1..Len(c)
      /\ \A i \in 1..Len(t) : Len(s) + i \in 1..Len(c)
  BY <1>1
<1>4. /\ Range(c) = {c[i] : i \in 1..Len(c)} /\ Range(s) = {s[i] : i \in 1..Len(s)}
      /\ Range(t) = {t[i] : i \in 1..Len(t)}
  <2>1. c \in Seq(V)
    BY <1>1
  <2>2. Range(c) = {c[i] : i \in 1..Len(c)}
    BY <2>1, RangeIs
  <2> QED BY <2>2, RangeIs
<1>5. Range(c) = Range(s) \union Range(t)
  <2>1. ASSUME NEW x \in Range(c) PROVE x \in Range(s) \union Range(t)
    <3>1. PICK i \in 1..Len(c) : x = c[i]
      BY <1>4
    <3>2. CASE i \in 1..Len(s)
      BY <1>1, <1>4, <3>1, <3>2
    <3>3. CASE i - Len(s) \in 1..Len(t) /\ Len(s) + (i - Len(s)) = i
      <4>1. c[Len(s) + (i - Len(s))] = t[i - Len(s)]
        BY <1>1, <3>3
      <4> QED BY <1>4, <3>1, <3>3, <4>1
    <3> QED BY <1>2, <3>2, <3>3
  <2>2. Range(s) \subseteq Range(c)
    BY <1>1, <1>3, <1>4
  <2>3. Range(t) \subseteq Range(c)
    <3> SUFFICES ASSUME NEW i \in 1..Len(t) PROVE t[i] \in Range(c)
      BY <1>4
    <3>1. c[Len(s) + i] = t[i] /\ Len(s) + i \in 1..Len(c)
      BY <1>1, <1>3
    <3> QED BY <1>4, <3>1
  <2> QED BY <2>1, <2>2, <2>3
<1>6. ASSUME IsInjective(s), IsInjective(t), Range(s) \intersect Range(t) = {}
      PROVE  IsInjective(c)
  <2>1. ASSUME NEW i \in 1..Len(c), NEW j \in 1..Len(c), c[i] = c[j], i \in 1..Len(s) PROVE i = j
    <3>1. c[i] = s[i] /\ c[i] \in Range(s)
      BY <1>1, <1>4, <2>1
    <3>2. CASE j \in 1..Len(s)
      <4>1. s[i] = s[j]
        BY <1>1, <2>1, <3>1, <3>2
      <4> QED BY <1>6, <2>1, <3>2, <4>1, RangeIs
    <3>3. CASE j - Len(s) \in 1..Len(t) /\ Len(s) + (j - Len(s)) = j
      <4>1. c[Len(s) + (j - Len(s))] = t[j - Len(s)]
        BY <1>1, <3>3
      <4>2. c[j] \in Range(t)
        BY <1>4, <3>3, <4>1
      <4> QED BY <1>6, <2>1, <3>1, <4>2
    <3> QED BY <1>2, <3>2, <3>3
  <2>2. ASSUME NEW i \in 1..Len(c), NEW j \in 1..Len(c), c[i] = c[j],
               i - Len(s) \in 1..Len(t) /\ Len(s) + (i - Len(s)) = i,
               j - Len(s) \in 1..Len(t) /\ Len(s) + (j - Len(s)) = j
        PROVE  i = j
    <3>1. c[Len(s) + (i - Len(s))] = t[i - Len(s)] /\ c[Len(s) + (j - Len(s))] = t[j - Len(s)]
      BY <1>1, <2>2
    <3>2. t[i - Len(s)] = t[j - Len(s)]
      BY <2>2, <3>1
    <3>3. i - Len(s) = j - Len(s)
      BY <1>6, <2>2, <3>2, RangeIs
    <3> QED BY <1>1, <3>3
  <2>3. ASSUME NEW i \in 1..Len(c), NEW j \in 1..Len(c), c[i] = c[j] PROVE i = j
    <3>1. CASE i \in 1..Len(s)
      BY <2>1, <2>3, <3>1
    <3>2. CASE j \in 1..Len(s)
      BY <2>1, <2>3, <3>2
    <3> QED BY <1>2, <2>2, <2>3, <3>1, <3>2
  <2> QED BY <1>1, <2>3, RangeIs
<1> QED BY <1>1, <1>5, <1>6 DEF c

FlatRun(V, q, f) ==
    /\ f \in [0..Len(q) -> Seq(V)] /\ f[0] = << >> /\ FlattenSeq(q) = f[Len(q)]
    /\ \A i \in 1..Len(q) : f[i] = f[i - 1] \o q[i]

\* FlattenSeq is the last result of a loop that adds sequence after sequence.
LEMMA FlattenIsLoop ==
    ASSUME NEW V, NEW q \in Seq(Seq(V))
    PROVE  \E f : FlatRun(V, q, f)
<1> DEFINE n == Len(q)
           A == Seq(V)
           base == << >>
           step == [x \in A \X (1..n) |-> x[1] \o q[x[2]]]
<1>1. n \in Nat /\ base \in A /\ step \in Steps(A, n)
  BY DEF Steps
<1>2. PICK f : IsRun(A, base, n, step, f)
  <2> HIDE DEF step, n, A, base
  <2> QED BY <1>1, LoopExists
<1>3. f \in [0..n -> A] /\ f[0] = << >> /\ \A i \in 1..n : f[i] = f[i - 1] \o q[i]
  <2>1. f \in [0..n -> A] /\ f[0] = << >> /\ \A i \in 1..n : f[i] = step[<<f[i - 1], i>>]
    BY <1>2 DEF IsRun
  <2>2. ASSUME NEW i \in 1..n PROVE f[i] = f[i - 1] \o q[i]
    <3>1. i - 1 \in 0..n
      BY <1>1
    <3>2. <<f[i - 1], i>> \in A \X (1..n)
      <4> HIDE DEF A, n
      <4> QED BY <2>1, <3>1
    <3>3. step[<<f[i - 1], i>>] = f[i - 1] \o q[i]
      BY <3>2
    <3> QED BY <2>1, <3>3
  <2> QED BY <2>1, <2>2
<1>4. FlattenSeq(q) = f[n]
  <2>1. CASE n = 0
    <3>1. q = << >> /\ Len(q) = 0
      BY <2>1
    <3>2. FlattenSeq(q) = q
      BY <3>1 DEF FlattenSeq
    <3> HIDE DEF n
    <3> QED BY <1>3, <2>1, <3>1, <3>2
  <2>2. CASE n # 0
    <3>1. 1 \in 1..n /\ f[1] = << >> \o q[1] /\ q[1] \in Seq(V)
      <4>1. 1 \in 1..n /\ 1 - 1 = 0
        BY <1>1, <2>2
      <4>2. q[1] \in Seq(V)
        BY <4>1
      <4>3. f[1] = f[1 - 1] \o q[1]
        BY <1>3, <4>1
      <4> HIDE DEF n
      <4> QED BY <1>3, <4>1, <4>2, <4>3
    <3>2. f[1] = q[1]
      BY <3>1
    <3>3. \A i \in 1..n : f[i] = IF i = 1 THEN q[i] ELSE f[i - 1] \o q[i]
      BY <1>3, <3>2
    <3>4. n \in Nat \ {0} /\ Len(q) = n
      BY <1>1, <2>2
    <3> HIDE DEF n
    <3> QED BY <3>3, <3>4, FlattenIs
  <2> QED BY <2>1, <2>2
<1>5. FlatRun(V, q, f)
  BY <1>3, <1>4 DEF FlatRun
<1> QED BY <1>5

\* Sequences of which no two share an item, and none has one twice.
Apart(q) ==
    /\ \A i \in 1..Len(q) : IsInjective(q[i])
    /\ \A i, j \in 1..Len(q) : i # j => Range(q[i]) \intersect Range(q[j]) = {}

RangesTo(q, n) == UNION {Range(q[j]) : j \in 1..n}

\* Sequences without a common item, none with an item twice, have none twice together.
LEMMA FlattenOnce ==
    ASSUME NEW V, NEW q \in Seq(Seq(V)), NEW f, FlatRun(V, q, f), Apart(q)
    PROVE  \A i \in 0..Len(q) : IsInjective(f[i]) /\ Range(f[i]) = RangesTo(q, i)
<1> DEFINE n == Len(q)
           Good(i) == IsInjective(f[i]) /\ Range(f[i]) = UNION {Range(q[j]) : j \in 1..i}
           good == {i \in 0..n : Good(i)}
<1>1. n \in Nat
  OBVIOUS
<1>2. 0 \in good
  <2>1. 0 \in 0..n /\ 1..0 = {} /\ f[0] = << >>
    BY DEF FlatRun
  <2> QED BY <2>1, EmptyIs
<1> USE DEF Apart
<1>3. ASSUME NEW i \in 1..n, i - 1 \in good PROVE i \in good
  <2>1. i - 1 \in 0..n /\ i \in 0..n /\ i \in 1..n
    BY <1>1
  <2>2. 1..i = (1..(i - 1)) \union {i} /\ i \notin 1..(i - 1) /\ 1..(i - 1) \subseteq 1..n
    <3> HIDE DEF n, good
    <3>1. i \in Nat /\ i <= n
      BY <1>1
    <3> QED BY <1>1, <3>1
  <2>3. f[i] = f[i - 1] \o q[i] /\ f[i - 1] \in Seq(V) /\ q[i] \in Seq(V)
    <3>1. q[i] \in Seq(V)
      BY <1>1
    <3> HIDE DEF good, Good
    <3> QED BY <2>1, <3>1 DEF FlatRun
  <2>4. Range(f[i]) = Range(f[i - 1]) \union Range(q[i])
    BY <2>3, ConcatIs
  <2>5. Range(f[i - 1]) \intersect Range(q[i]) = {}
    <3>1. Range(f[i - 1]) = UNION {Range(q[j]) : j \in 1..(i - 1)}
      BY <1>3
    <3>2. \A j \in 1..(i - 1) : j \in 1..n /\ j # i
      BY <2>2
    <3>3. \A j \in 1..(i - 1) : Range(q[j]) \intersect Range(q[i]) = {}
      BY <2>1, <3>2
    <3> HIDE DEF n, good, Good
    <3> QED BY <3>1, <3>3
  <2>6. IsInjective(f[i])
    BY <1>3, <2>1, <2>3, <2>5, ConcatIs
  <2> QED BY <1>3, <2>1, <2>2, <2>4, <2>6
<1> HIDE DEF n, Good
<1>4. \A i \in 0..n : i \in good
  <2> HIDE DEF good
  <2> QED BY <1>1, <1>2, <1>3, NatInd
<1> QED BY <1>4 DEF Good, n, RangesTo

-----------------------------------------------------------------------------
\* The first items of a sequence.

\* Sequences of one length with the same items are the same.
LEMMA SameSeq ==
    ASSUME NEW V, NEW s \in Seq(V), NEW t \in Seq(V), Len(s) = Len(t), \A i \in 1..Len(s) : s[i] = t[i]
    PROVE  s = t
  OBVIOUS

\* What the first n items are of a sequence with at most n, and what they keep of it.
LEMMA CutOf ==
    ASSUME NEW V, NEW s \in Seq(V), NEW n \in Nat
    PROVE  /\ Cut(s, 0) = << >> /\ Range(Cut(s, n)) \subseteq Range(s)
           /\ Len(s) <= n => Cut(s, n) = s
           /\ IsInjective(s) => IsInjective(Cut(s, n))
<1> DEFINE c == Cut(s, n)
<1>1. /\ c \in Seq(V) /\ Len(c) = IF Len(s) < n THEN Len(s) ELSE n
      /\ \A i \in 1..Len(c) : c[i] = s[i]
  BY CutIs
<1>2. Len(s) \in Nat /\ Cut(s, 0) = << >>
  BY DEF Cut
<1> HIDE DEF c
<1>3. \A i \in 1..Len(c) : i \in 1..Len(s)
  BY <1>1, <1>2
<1>4. Range(c) \subseteq Range(s)
  <2>1. Range(c) = {c[i] : i \in 1..Len(c)}
    BY <1>1, RangeIs
  <2>2. Range(s) = {s[i] : i \in 1..Len(s)}
    BY RangeIs
  <2> QED BY <1>1, <1>3, <2>1, <2>2
<1>5. Len(s) <= n => c = s
  <2> HAVE Len(s) <= n
  <2>1. Len(c) = Len(s)
    BY <1>1, <1>2
  <2> QED BY <1>1, <2>1, SameSeq
<1>6. ASSUME IsInjective(s) PROVE IsInjective(c)
  <2>1. \A i, j \in 1..Len(s) : s[i] = s[j] => i = j
    BY <1>6, RangeIs
  <2>2. \A i, j \in 1..Len(c) : c[i] = c[j] => i = j
    BY <1>1, <1>3, <2>1
  <2> QED BY <1>1, <2>2, RangeIs
<1> QED BY <1>2, <1>4, <1>5, <1>6 DEF c

\* One item more.
LEMMA CutStep ==
    ASSUME NEW V, NEW s \in Seq(V), NEW i \in 1..Len(s)
    PROVE  Cut(s, i) = Append(Cut(s, i - 1), s[i])
<1>1. Len(s) \in Nat /\ i \in Nat /\ i - 1 \in Nat /\ ~(Len(s) < i) /\ ~(Len(s) < i - 1) /\ i <= Len(s)
  OBVIOUS
<1>2. Cut(s, i) = SubSeq(s, 1, i) /\ Cut(s, i - 1) = SubSeq(s, 1, i - 1)
  BY <1>1 DEF Cut
<1>3. SubSeq(s, 1, i) = Append(SubSeq(s, 1, i - 1), s[i])
  BY <1>1
<1> QED BY <1>2, <1>3

\* The first n items of two sequences put together.
LEMMA CutConcat ==
    ASSUME NEW V, NEW s \in Seq(V), NEW t \in Seq(V), NEW n \in Nat
    PROVE  /\ Len(s) >= n => Cut(s \o t, n) = Cut(s, n)
           /\ Len(s) <= n => n - Len(s) \in Nat /\ Cut(s \o t, n) = s \o Cut(t, n - Len(s))
<1> DEFINE c == s \o t
           w == Cut(c, n)
<1>1. /\ c \in Seq(V) /\ Len(c) = Len(s) + Len(t) /\ Len(s) \in Nat /\ Len(t) \in Nat
      /\ \A i \in 1..Len(s) : c[i] = s[i]
      /\ \A i \in 1..Len(t) : c[Len(s) + i] = t[i]
  OBVIOUS
<1> HIDE DEF c
<1>2. /\ w \in Seq(V) /\ Len(w) = IF Len(c) < n THEN Len(c) ELSE n
      /\ \A i \in 1..Len(w) : w[i] = c[i]
  BY <1>1, CutIs
<1> HIDE DEF w
<1>3. ASSUME Len(s) >= n PROVE w = Cut(s, n)
  <2> DEFINE d == Cut(s, n)
  <2>1. /\ d \in Seq(V) /\ Len(d) = IF Len(s) < n THEN Len(s) ELSE n
        /\ \A i \in 1..Len(d) : d[i] = s[i]
    BY CutIs
  <2> HIDE DEF d
  <2>2. Len(d) = n /\ Len(w) = n
    BY <1>1, <1>2, <1>3, <2>1
  <2>3. \A i \in 1..n : i \in 1..Len(s)
    BY <1>1, <1>3
  <2>4. \A i \in 1..Len(w) : w[i] = d[i]
    BY <1>1, <1>2, <2>1, <2>2, <2>3
  <2> QED BY <1>2, <2>1, <2>2, <2>4, SameSeq DEF d
<1>4. ASSUME Len(s) <= n PROVE n - Len(s) \in Nat /\ w = s \o Cut(t, n - Len(s))
  <2> DEFINE l == Len(s)
             m == n - l
             d == Cut(t, m)
             e == s \o d
  <2>0. m \in Nat /\ l + m = n
    BY <1>1, <1>4
  <2>1. /\ d \in Seq(V) /\ Len(d) = IF Len(t) < m THEN Len(t) ELSE m
        /\ \A i \in 1..Len(d) : d[i] = t[i]
    <3> HIDE DEF m
    <3> QED BY <2>0, CutIs
  <2> HIDE DEF d
  <2>2. /\ e \in Seq(V) /\ Len(e) = l + Len(d) /\ Len(d) \in Nat
        /\ \A i \in 1..l : e[i] = s[i]
        /\ \A i \in 1..Len(d) : e[l + i] = d[i]
    <3>1. d \in Seq(V)
      BY <2>1
    <3> QED BY <3>1
  <2> HIDE DEF e, m
  <2>3. Len(w) = l + Len(d)
    <3>1. l \in Nat /\ Len(t) \in Nat /\ Len(c) = l + Len(t) /\ m \in Nat /\ n = l + m
      BY <1>1, <2>0
    <3> HIDE DEF l
    <3> QED BY <1>2, <2>1, <3>1
  <2>4. ASSUME NEW i \in 1..Len(w) PROVE w[i] = e[i]
    <3>1. w[i] = c[i]
      BY <1>2
    <3>2. CASE i \in 1..l
      BY <1>1, <2>2, <3>1, <3>2
    <3>3. CASE i \notin 1..l
      <4>1. i - l \in 1..Len(d) /\ l + (i - l) = i /\ i - l \in 1..Len(t)
        <5>1. l \in Nat /\ Len(d) \in Nat /\ Len(d) <= Len(t)
          BY <1>1, <2>0, <2>1, <2>2
        <5> HIDE DEF l
        <5> QED BY <1>1, <2>3, <3>3, <5>1
      <4>2. c[l + (i - l)] = t[i - l] /\ e[l + (i - l)] = d[i - l] /\ d[i - l] = t[i - l]
        BY <1>1, <2>1, <2>2, <4>1
      <4> QED BY <3>1, <4>1, <4>2
    <3> QED BY <3>2, <3>3
  <2>5. w = e
    BY <1>2, <2>2, <2>3, <2>4, SameSeq
  <2> QED BY <2>0, <2>5 DEF e, d, m
<1> QED BY <1>3, <1>4 DEF w, c

\* IsPrefix, item by item.
LEMMA PrefixIs ==
    ASSUME NEW V, NEW s \in Seq(V), NEW t \in Seq(V)
    PROVE  IsPrefix(s, t) <=> Len(s) <= Len(t) /\ \A i \in 1..Len(s) : s[i] = t[i]
<1>1. Len(s) \in Nat /\ Len(t) \in Nat
  OBVIOUS
<1>2. SubSeq(s, 1, Len(s)) = s
  OBVIOUS
<1>3. ASSUME Len(s) <= Len(t)
      PROVE  s = SubSeq(t, 1, Len(s)) <=> \A i \in 1..Len(s) : s[i] = t[i]
  <2> DEFINE c == SubSeq(t, 1, Len(s))
  <2>1. c \in Seq(V) /\ Len(c) = Len(s) /\ \A i \in 1..Len(s) : c[i] = t[i]
    BY <1>1, <1>3
  <2> HIDE DEF c
  <2>2. (\A i \in 1..Len(s) : s[i] = t[i]) => s = c
    BY <2>1, SameSeq
  <2> QED BY <2>1, <2>2 DEF c
<1> QED BY <1>2, <1>3 DEF IsPrefix

-----------------------------------------------------------------------------
\* Results pushed one by one.

PushRun(V, results, items, pushed) ==
    /\ pushed \in [0..Len(items) -> Seq(V)] /\ pushed[0] = results
    /\ PushEach(results, items) = pushed[Len(items)]
    /\ \A i \in 1..Len(items) : pushed[i] = push_unique_result(pushed[i - 1], items[i])

\* PushEach is the last result of its loop.
LEMMA PushIsLoop ==
    ASSUME NEW V, NEW results \in Seq(V), NEW items \in Seq(V)
    PROVE  \E pushed : PushRun(V, results, items, pushed)
<1> DEFINE n == Len(items)
           A == Seq(V)
           step == [x \in A \X (1..n) |-> push_unique_result(x[1], items[x[2]])]
           r == CHOOSE pushed : pushed = [i \in 0..n |->
                    IF i = 0 THEN results ELSE push_unique_result(pushed[i - 1], items[i])]
<1>1. n \in Nat /\ results \in A /\ step \in Steps(A, n)
  BY DEF Steps, push_unique_result
<1>2. PushEach(results, items) = r[n]
  BY DEF PushEach
<1>3. PICK acc : IsRun(A, results, n, step, acc)
  <2> HIDE DEF step, n, A
  <2> QED BY <1>1, LoopExists
<1>4. acc \in [0..n -> A] /\ acc[0] = results
      /\ \A i \in 1..n : acc[i] = push_unique_result(acc[i - 1], items[i])
  <2>1. acc \in [0..n -> A] /\ acc[0] = results /\ \A i \in 1..n : acc[i] = step[<<acc[i - 1], i>>]
    BY <1>3 DEF IsRun
  <2>2. ASSUME NEW i \in 1..n PROVE acc[i] = push_unique_result(acc[i - 1], items[i])
    <3>1. i - 1 \in 0..n
      BY <1>1
    <3>2. <<acc[i - 1], i>> \in A \X (1..n)
      <4> HIDE DEF A, n
      <4> QED BY <2>1, <3>1
    <3>3. step[<<acc[i - 1], i>>] = push_unique_result(acc[i - 1], items[i])
      BY <3>2
    <3> QED BY <2>1, <3>3
  <2> QED BY <2>1, <2>2
<1> HIDE DEF step
<1>5. 0 \in 0..n /\ n \in 0..n /\ \A i \in 1..n : i \in 0..n /\ i # 0
  BY <1>1
<1>6. acc = [i \in 0..n |-> IF i = 0 THEN results ELSE push_unique_result(acc[i - 1], items[i])]
  <2>1. \A i \in 0..n : i # 0 => i \in 1..n
    BY <1>1
  <2> HIDE DEF n, A
  <2> QED BY <1>4, <2>1
<1>7. r = [i \in 0..n |-> IF i = 0 THEN results ELSE push_unique_result(r[i - 1], items[i])]
  <2> HIDE DEF n
  <2> QED BY <1>6
<1> HIDE DEF r
<1>8. r[0] = results /\ \A i \in 1..n : r[i] = push_unique_result(r[i - 1], items[i])
  <2> HIDE DEF n
  <2> QED BY <1>5, <1>7
<1>9. r[n] = acc[n]
  <2> HIDE DEF n, A
  <2>1. \A i \in 1..n : r[i - 1] = acc[i - 1] => r[i] = acc[i]
    BY <1>4, <1>8
  <2>2. r[0] = acc[0] /\ n \in Nat
    BY <1>1, <1>4, <1>8
  <2> QED BY <2>1, <2>2, SameRuns
<1>10. PushRun(V, results, items, acc)
  BY <1>2, <1>4, <1>9 DEF PushRun
<1> QED BY <1>10

(* What is pushed has no item twice, and is what was there and the items ... *)
LEMMA PushIs ==
    ASSUME NEW V, NEW results \in Seq(V), NEW items \in Seq(V), IsInjective(results)
    PROVE  /\ PushEach(results, items) \in Seq(V) /\ IsInjective(PushEach(results, items))
           /\ Range(PushEach(results, items)) = Range(results) \union Range(items)
<1> DEFINE n == Len(items)
<1>1. n \in Nat /\ n \in 0..n
  OBVIOUS
<1>2. PICK pushed : PushRun(V, results, items, pushed)
  BY PushIsLoop
<1> DEFINE Good(i) == /\ Range(pushed[i]) = Range(results) \union {items[j] : j \in 1..i}
                      /\ IsInjective(pushed[i])
           good == {i \in 0..n : Good(i)}
<1>3. 0 \in good
  <2>1. 0 \in 0..n /\ 1..0 = {} /\ pushed[0] = results
    BY <1>1, <1>2 DEF PushRun
  <2> QED BY <2>1
<1>4. ASSUME NEW i \in 1..n, i - 1 \in good PROVE i \in good
  <2>1. i - 1 \in 0..n /\ i \in 0..n /\ i \in 1..n /\ 1..i = (1..(i - 1)) \union {i}
    BY <1>1
  <2>2. pushed[i - 1] \in Seq(V) /\ items[i] \in V
    <3>1. items[i] \in V
      BY <1>1
    <3> HIDE DEF good
    <3> QED BY <1>2, <2>1, <3>1 DEF PushRun
  <2>3. {items[j] : j \in 1..i} = {items[j] : j \in 1..(i - 1)} \union {items[i]}
    BY <2>1
  <2>4. pushed[i] = push_unique_result(pushed[i - 1], items[i])
    <3> HIDE DEF good
    <3> QED BY <1>2 DEF PushRun
  <2>5. CASE items[i] \in Range(pushed[i - 1])
    <3>1. pushed[i] = pushed[i - 1]
      BY <2>4, <2>5 DEF push_unique_result
    <3> QED BY <1>4, <2>1, <2>3, <2>5, <3>1
  <2>6. CASE items[i] \notin Range(pushed[i - 1])
    <3>1. pushed[i] = Append(pushed[i - 1], items[i])
      BY <2>4, <2>6 DEF push_unique_result
    <3>2. Range(pushed[i]) = Range(pushed[i - 1]) \union {items[i]}
      BY <2>2, <3>1, AppendIs
    <3>3. IsInjective(pushed[i])
      BY <1>4, <2>2, <2>6, <3>1, AppendIs
    <3> QED BY <1>4, <2>1, <2>3, <3>2, <3>3
  <2> QED BY <2>5, <2>6
<1>5. Good(n)
  <2> HIDE DEF Good
  <2>1. \A i \in 0..n : i \in good
    <3> HIDE DEF good, n
    <3> QED BY <1>1, <1>3, <1>4, NatInd
  <2> QED BY <1>1, <2>1
<1>6. Range(items) = {items[j] : j \in 1..n}
  BY RangeIs
<1>7. PushEach(results, items) = pushed[n] /\ pushed[n] \in Seq(V)
  BY <1>1, <1>2 DEF PushRun
<1> QED BY <1>5, <1>6, <1>7

(* ... one after the other, where none of them was there. *)
LEMMA PushNew ==
    ASSUME NEW V, NEW results \in Seq(V), NEW items \in Seq(V), IsInjective(items),
           Range(results) \intersect Range(items) = {}
    PROVE  PushEach(results, items) = results \o items
<1> DEFINE n == Len(items)
<1>1. n \in Nat /\ n \in 0..n /\ Cut(items, n) = items
  BY CutOf
<1>2. PICK pushed : PushRun(V, results, items, pushed)
  BY PushIsLoop
<1> DEFINE good == {i \in 0..n : pushed[i] = results \o Cut(items, i)}
<1>3. 0 \in good
  <2>1. 0 \in 0..n /\ pushed[0] = results /\ Cut(items, 0) = << >> /\ results \o << >> = results
    BY <1>1, <1>2, CutOf DEF PushRun
  <2> QED BY <2>1
<1>4. ASSUME NEW i \in 1..n, i - 1 \in good PROVE i \in good
  <2>1. i - 1 \in 0..n /\ i \in 0..n /\ i \in 1..n /\ i - 1 \in Nat /\ i \in Nat /\ i <= n
    BY <1>1
  <2> DEFINE c == Cut(items, i - 1)
  <2>2. items[i] \in V /\ items[i] \in Range(items) /\ items[i] \notin Range(results)
    BY <1>1, <2>1, RangeIs
  <2>3. c \in Seq(V) /\ Len(c) = i - 1 /\ \A j \in 1..(i - 1) : c[j] = items[j]
    <3>1. Len(c) = IF Len(items) < i - 1 THEN Len(items) ELSE i - 1
      BY <2>1, CutIs
    <3>2. Len(c) = i - 1
      BY <2>1, <3>1
    <3> HIDE DEF c
    <3> QED BY <2>1, <3>2, CutIs DEF c
  <2>4. Cut(items, i) = Append(c, items[i])
    BY CutStep
  <2> HIDE DEF c
  <2>5. items[i] \notin Range(c)
    <3>1. Range(c) = {c[j] : j \in 1..Len(c)}
      BY <2>3, RangeIs
    <3>2. \A j \in 1..(i - 1) : j \in 1..n /\ j # i
      BY <2>1
    <3>3. \A j \in 1..(i - 1) : items[j] # items[i]
      BY <2>1, <3>2, RangeIs
    <3> QED BY <2>3, <3>1, <3>3
  <2>6. pushed[i - 1] = results \o c
    BY <1>4 DEF c
  <2>7. items[i] \notin Range(pushed[i - 1])
    <3>1. Range(results \o c) = Range(results) \union Range(c)
      BY <2>3, ConcatIs
    <3> QED BY <2>2, <2>5, <2>6, <3>1
  <2>8. pushed[i] = Append(results \o c, items[i])
    <3>1. pushed[i] = push_unique_result(pushed[i - 1], items[i])
      <4> HIDE DEF good
      <4> QED BY <1>2 DEF PushRun
    <3> QED BY <2>6, <2>7, <3>1 DEF push_unique_result
  <2>9. Append(results \o c, items[i]) = results \o Append(c, items[i])
    <3>1. results \in Seq(V) /\ c \in Seq(V) /\ items[i] \in V
      BY <2>2, <2>3
    <3> DEFINE x == items[i]
    <3>2. x \in V
      BY <3>1
    <3> HIDE DEF x
    <3>3. Append(results \o c, x) = results \o Append(c, x)
      BY <3>1, <3>2
    <3> QED BY <3>3 DEF x
  <2> QED BY <2>1, <2>4, <2>8, <2>9
<1>5. n \in good
  <2>1. \A i \in 0..n : i \in good
    <3> HIDE DEF good, n
    <3> QED BY <1>1, <1>3, <1>4, NatInd
  <2> QED BY <1>1, <2>1
<1>6. PushEach(results, items) = pushed[n]
  BY <1>2 DEF PushRun
<1> QED BY <1>1, <1>5, <1>6

-----------------------------------------------------------------------------
\* The occurrences in files.

TextOfFiles == [TextFiles -> Seq(Lines)]
Locations == [path : TextFiles, line : Nat, col : Nat]

\* A line of a file has the shape of a line.
LEMMA LineIs ==
    ASSUME text \in TextOfFiles, NEW f \in TextFiles, NEW k \in 1..Len(text[f])
    PROVE  /\ text[f] \in Seq(Lines) /\ DOMAIN text[f] = 1..Len(text[f]) /\ Len(text[f]) \in Nat
           /\ text[f][k] \in LineShape
           /\ text[f][k].uses \in Seq(Uses) /\ text[f][k].open \in Nat /\ text[f][k].close \in Nat
<1>1. text[f] \in Seq(Lines)
  BY DEF TextOfFiles
<1>2. text[f][k] \in Lines /\ DOMAIN text[f] = 1..Len(text[f]) /\ Len(text[f]) \in Nat
  BY <1>1
<1>3. text[f][k] \in LineShape
  BY <1>2, UsagesAssumption
<1> QED BY <1>1, <1>2, <1>3 DEF LineShape

\* An occurrence that counts, at a place.
CountsAt(f, k, c, scope) == Counts(text[f], k, text[f][k].uses[c], scope)
Place(f, k, c) == [path |-> f, line |-> k, col |-> c]

\* A place has its path, line and column.
LEMMA PlaceIs ==
    ASSUME NEW f, NEW k, NEW c
    PROVE  LET p == Place(f, k, c) IN p.path = f /\ p.line = k /\ p.col = c
  BY DEF Place

\* The matches of a line are its places that count, each once.
LEMMA MatchesOfLine ==
    ASSUME text \in TextOfFiles, NEW f \in TextFiles, NEW k \in 1..Len(text[f]), NEW scope
    PROVE  LET m == MatchesAt(f, k, scope)
           IN  /\ m \in Seq(Locations) /\ IsInjective(m)
               /\ Range(m) = {Place(f, k, c) : c \in {c \in DOMAIN text[f][k].uses : CountsAt(f, k, c, scope)}}
<1> DEFINE uses == text[f][k].uses
           n == Len(uses)
           some == {c \in DOMAIN uses : CountsAt(f, k, c, scope)}
           all == [c \in DOMAIN uses |-> c]
           columns == KeepIn(all, some)
           m == MatchesAt(f, k, scope)
<1>1. uses \in Seq(Uses) /\ n \in Nat /\ DOMAIN uses = 1..n /\ k \in Nat
  <2>1. uses \in Seq(Uses) /\ Len(text[f]) \in Nat
    BY LineIs
  <2>2. k \in Nat
    BY <2>1
  <2> HIDE DEF uses
  <2> QED BY <2>1, <2>2 DEF n
<1>2. m = [i \in DOMAIN columns |-> Place(f, k, columns[i])]
  BY DEF MatchesAt, CountsAt, Place
<1> HIDE DEF uses, m
<1>3. some \subseteq 1..n
  BY <1>1
<1> HIDE DEF some
<1>4. /\ all \in Seq(1..n) /\ Range(all) = 1..n /\ IsInjective(all)
  BY <1>1 DEF Range, IsInjective
<1> HIDE DEF all
<1>5. columns \in Seq(1..n) /\ Range(columns) = some /\ IsInjective(columns)
  <2>1. Range(columns) = (1..n) \intersect some
    BY <1>4, KeepIs
  <2> HIDE DEF columns
  <2>2. Range(columns) = some
    BY <1>3, <2>1
  <2> QED BY <1>4, <2>2, KeepIs DEF columns
<1> HIDE DEF columns
<1>6. DOMAIN columns = 1..Len(columns) /\ Len(columns) \in Nat /\ \A i \in 1..Len(columns) : columns[i] \in 1..n
  BY <1>5
<1>7. \A i \in 1..Len(columns) : Place(f, k, columns[i]) \in Locations
  BY <1>1, <1>6 DEF Place, Locations
<1>8. m \in Seq(Locations) /\ Len(m) = Len(columns)
  <2> HIDE DEF n
  <2> QED BY <1>2, <1>6, <1>7
<1>9. \A i \in 1..Len(m) : m[i] = Place(f, k, columns[i])
  BY <1>2, <1>6, <1>8
<1>10. IsInjective(m)
  <2>1. \A i, j \in 1..Len(m) : m[i] = m[j] => columns[i] = columns[j]
    <3>1. \A i \in 1..Len(m) : m[i].col = columns[i]
      BY <1>9, PlaceIs
    <3> QED BY <3>1
  <2>2. \A i, j \in 1..Len(columns) : columns[i] = columns[j] => i = j
    BY <1>5, RangeIs
  <2>3. \A i, j \in 1..Len(m) : m[i] = m[j] => i = j
    BY <1>8, <2>1, <2>2
  <2> QED BY <1>8, <2>3, RangeIs
<1>11. Range(m) = {Place(f, k, c) : c \in some}
  <2>1. Range(m) = {m[i] : i \in 1..Len(m)}
    BY <1>8, RangeIs
  <2>2. some = {columns[i] : i \in 1..Len(m)}
    BY <1>5, <1>8, RangeIs
  <2> QED BY <1>9, <2>1, <2>2
<1> QED BY <1>8, <1>10, <1>11 DEF m, some, uses

\* The matches of a file are those of its lines, each once.
LEMMA MatchesOfFile ==
    ASSUME text \in TextOfFiles, NEW f \in TextFiles, NEW scope
    PROVE  LET m == MatchesIn(f, scope)
           IN  /\ m \in Seq(Locations) /\ IsInjective(m)
               /\ \A x : x \in Range(m) <=>
                     \E k \in 1..Len(text[f]) : \E c \in DOMAIN text[f][k].uses :
                        CountsAt(f, k, c, scope) /\ x = Place(f, k, c)
<1> DEFINE n == Len(text[f])
           q == [k \in 1..n |-> MatchesAt(f, k, scope)]
           m == MatchesIn(f, scope)
<1>1. n \in Nat /\ n \in 0..n /\ DOMAIN text[f] = 1..n
  BY DEF TextOfFiles
<1>2. m = FlattenSeq(q)
  <2> HIDE DEF n
  <2> QED BY <1>1 DEF MatchesIn
<1> HIDE DEF m
<1>3. \A k \in 1..n : /\ MatchesAt(f, k, scope) \in Seq(Locations) /\ IsInjective(MatchesAt(f, k, scope))
                      /\ Range(MatchesAt(f, k, scope))
                            = {Place(f, k, c) : c \in {c \in DOMAIN text[f][k].uses : CountsAt(f, k, c, scope)}}
  BY MatchesOfLine
<1> HIDE DEF n
<1>4. q \in Seq(Seq(Locations)) /\ Len(q) = n /\ \A k \in 1..n : q[k] = MatchesAt(f, k, scope)
  <2>1. \A k \in 1..n : MatchesAt(f, k, scope) \in Seq(Locations)
    BY <1>3
  <2> QED BY <1>1, <2>1
<1> HIDE DEF q
<1>5. \A i \in 1..n : \A x \in Range(q[i]) : x.line = i
  BY <1>3, <1>4 DEF Place
<1>6. PICK g : FlatRun(Locations, q, g)
  BY <1>4, FlattenIsLoop
<1>7. IsInjective(g[n]) /\ Range(g[n]) = UNION {Range(q[j]) : j \in 1..n}
  <2>1. \A i, j \in 1..Len(q) : i # j => Range(q[i]) \intersect Range(q[j]) = {}
    BY <1>4, <1>5
  <2>2. \A i \in 1..Len(q) : IsInjective(q[i])
    BY <1>3, <1>4
  <2>3. \A i \in 0..Len(q) : IsInjective(g[i]) /\ Range(g[i]) = RangesTo(q, i)
    <3>1. q \in Seq(Seq(Locations)) /\ Apart(q)
      BY <1>4, <2>1, <2>2 DEF Apart
    <3> QED BY <1>6, <3>1, FlattenOnce
  <2> QED BY <1>1, <1>4, <2>3 DEF RangesTo
<1>8. m = g[n] /\ g[n] \in Seq(Locations)
  BY <1>1, <1>2, <1>4, <1>6 DEF FlatRun
<1>9. \A x : x \in Range(m) <=> \E k \in 1..n : x \in Range(MatchesAt(f, k, scope))
  BY <1>4, <1>7, <1>8
<1>10. \A x : \A k \in 1..n : x \in Range(MatchesAt(f, k, scope)) <=>
                     \E c \in DOMAIN text[f][k].uses : CountsAt(f, k, c, scope) /\ x = Place(f, k, c)
  BY <1>3
<1>11. \A x : x \in Range(m) <=> \E k \in 1..n : \E c \in DOMAIN text[f][k].uses :
                        CountsAt(f, k, c, scope) /\ x = Place(f, k, c)
  BY <1>9, <1>10
<1> QED BY <1>7, <1>8, <1>11 DEF m, n

-----------------------------------------------------------------------------
\* The loops over the files searched.

\* InOrder has the files of a set, each once.
LEMMA InOrderIs ==
    ASSUME NEW T
    PROVE  InOrder(T) \in Seq(TextFiles) /\ IsInjective(InOrder(T)) /\ Range(InOrder(T)) = TextFiles \intersect T
<1>1. Paths \in Seq(TextFiles) /\ IsInjective(Paths) /\ Range(Paths) = TextFiles
  BY UsagesAssumption DEF TextFiles
<1> QED BY <1>1, KeepIs DEF InOrder

\* The first MAX_FILES files are files of the set, each once.
LEMMA FirstFiles ==
    ASSUME NEW T
    PROVE  LET F == Cut(InOrder(T), MAX_FILES)
           IN  F \in Seq(TextFiles) /\ IsInjective(F) /\ Range(F) \subseteq T
<1>1. MAX_FILES \in Nat
  BY UsagesAssumption
<1> DEFINE s == InOrder(T)
<1>2. s \in Seq(TextFiles) /\ IsInjective(s) /\ Range(s) \subseteq T
  BY InOrderIs
<1> HIDE DEF s
<1>3. Cut(s, MAX_FILES) \in Seq(TextFiles) /\ IsInjective(Cut(s, MAX_FILES))
      /\ Range(Cut(s, MAX_FILES)) \subseteq Range(s)
  BY <1>1, <1>2, CutIs, CutOf
<1> QED BY <1>2, <1>3 DEF s

\* The files that are searched are files, each once.
LEMMA SearchedFiles ==
    ASSUME NEW current, NEW scope, scope.kind # "local"
    PROVE  collect_candidate_files(current, scope) \in Seq(TextFiles)
           /\ IsInjective(collect_candidate_files(current, scope))
<1>1. CASE scope.kind = "member"
  <2> DEFINE T == Candidates(find_member_definition_file_ids(scope.owner), current)
  <2>1. collect_candidate_files(current, scope) = Cut(InOrder(T), MAX_FILES)
    BY <1>1 DEF collect_candidate_files
  <2> HIDE DEF T
  <2> QED BY <2>1, FirstFiles
<1>2. CASE scope.kind # "member"
  <2> DEFINE found == Candidates(find_symbol_definition_file_ids \union find_symbol_call_file_ids, current)
             T == IF found = {} THEN TextFiles ELSE found
  <2>1. collect_candidate_files(current, scope) = Cut(InOrder(T), MAX_FILES)
    BY <1>2 DEF collect_candidate_files, collect_unresolved_candidate_files
  <2> HIDE DEF T
  <2> QED BY <2>1, FirstFiles
<1> QED BY <1>1, <1>2

\* A file gives matches of it, each once.
LEMMA SearchIs ==
    ASSUME text \in TextOfFiles, NEW f \in TextFiles, NEW n \in Nat, NEW scope
    PROVE  search_in_file(f, n, scope) \in Seq(Locations) /\ IsInjective(search_in_file(f, n, scope))
           /\ Range(search_in_file(f, n, scope)) \subseteq Range(MatchesIn(f, scope))
<1> DEFINE m == MatchesIn(f, scope)
<1>1. m \in Seq(Locations) /\ IsInjective(m)
  BY MatchesOfFile
<1>2. search_in_file(f, n, scope) = Cut(m, n)
  BY DEF search_in_file
<1> HIDE DEF m
<1> QED BY <1>1, <1>2, CutIs, CutOf DEF m

\* Results without one twice, and those with the matches of one more file.
Once == {s \in Seq(Locations) : IsInjective(s)}
Searched(results, f, scope) ==
    IF Len(results) >= MAX_RESULTS THEN results
    ELSE PushEach(results, search_in_file(f, MAX_RESULTS - Len(results), scope))

UsagesRun(F, scope, base, found) ==
    /\ found \in [0..Len(F) -> Once] /\ found[0] = base
    /\ \A i \in 1..Len(F) : found[i] = Searched(found[i - 1], F[i], scope)

\* Searching a file keeps the results apart.
LEMMA SearchedOnce ==
    ASSUME text \in TextOfFiles, NEW f \in TextFiles, NEW scope, NEW results \in Once
    PROVE  Searched(results, f, scope) \in Once
<1>1. CASE Len(results) >= MAX_RESULTS
  BY <1>1 DEF Searched
<1>2. CASE ~(Len(results) >= MAX_RESULTS)
  <2>1. Len(results) \in Nat /\ MAX_RESULTS \in Nat /\ results \in Seq(Locations) /\ IsInjective(results)
    BY UsagesAssumption DEF Once
  <2> DEFINE n == MAX_RESULTS - Len(results)
             items == search_in_file(f, n, scope)
  <2>2. n \in Nat
    BY <1>2, <2>1
  <2>3. Searched(results, f, scope) = PushEach(results, items)
    BY <1>2 DEF Searched
  <2> HIDE DEF n
  <2>4. items \in Seq(Locations)
    BY <2>2, SearchIs
  <2> HIDE DEF items
  <2> QED BY <2>1, <2>3, <2>4, PushIs DEF Once
<1> QED BY <1>1, <1>2

Listed(scope) == IF scope.kind = "member" THEN get_member_declaration_results(scope.owner) ELSE << >>

\* find_symbol_usages is the last result of a loop over the files.
LEMMA UsagesAreLoop ==
    ASSUME text \in TextOfFiles, NEW current, NEW scope, scope.kind # "local", Listed(scope) \in Once
    PROVE  LET F == collect_candidate_files(current, scope)
           IN  \E found : /\ UsagesRun(F, scope, Listed(scope), found)
                          /\ find_symbol_usages(current, scope) = found[Len(F)]
<1> DEFINE F == collect_candidate_files(current, scope)
           n == Len(F)
           base == Listed(scope)
           step == [x \in Once \X (1..n) |-> Searched(x[1], F[x[2]], scope)]
           r == CHOOSE found : found = [i \in 0..n |->
                    IF i = 0 THEN base ELSE Searched(found[i - 1], F[i], scope)]
<1>0. F \in Seq(TextFiles)
  BY SearchedFiles
<1>1. find_symbol_usages(current, scope) = r[n]
  BY DEF find_symbol_usages, Searched, Listed
<1> HIDE DEF F, base
<1>2. n \in Nat /\ base \in Once /\ \A i \in 1..n : F[i] \in TextFiles
  BY <1>0 DEF base
<1> HIDE DEF n
<1>3. step \in Steps(Once, n)
  <2>1. \A x \in Once \X (1..n) : Searched(x[1], F[x[2]], scope) \in Once
    BY <1>2, SearchedOnce
  <2> QED BY <2>1 DEF Steps
<1>4. PICK acc : IsRun(Once, base, n, step, acc)
  <2> HIDE DEF step
  <2> QED BY <1>2, <1>3, LoopExists
<1>5. acc \in [0..n -> Once] /\ acc[0] = base /\ \A i \in 1..n : acc[i] = Searched(acc[i - 1], F[i], scope)
  <2>1. acc \in [0..n -> Once] /\ acc[0] = base /\ \A i \in 1..n : acc[i] = step[<<acc[i - 1], i>>]
    BY <1>4 DEF IsRun
  <2>2. ASSUME NEW i \in 1..n PROVE acc[i] = Searched(acc[i - 1], F[i], scope)
    <3>1. i - 1 \in 0..n
      BY <1>2
    <3>2. <<acc[i - 1], i>> \in Once \X (1..n)
      BY <2>1, <3>1
    <3>3. step[<<acc[i - 1], i>>] = Searched(acc[i - 1], F[i], scope)
      BY <3>2
    <3> QED BY <2>1, <3>3
  <2> QED BY <2>1, <2>2
<1> HIDE DEF step
<1>6. 0 \in 0..n /\ (\A i \in 1..n : i \in 0..n /\ i # 0) /\ \A i \in 0..n : i # 0 => i \in 1..n
  BY <1>2
<1>7. acc = [i \in 0..n |-> IF i = 0 THEN base ELSE Searched(acc[i - 1], F[i], scope)]
  BY <1>5, <1>6
<1>8. r = [i \in 0..n |-> IF i = 0 THEN base ELSE Searched(r[i - 1], F[i], scope)]
  BY <1>7
<1> HIDE DEF r
<1>9. r[0] = base /\ \A i \in 1..n : r[i] = Searched(r[i - 1], F[i], scope)
  BY <1>6, <1>8
<1>10. r[n] = acc[n]
  <2>1. \A i \in 1..n : r[i - 1] = acc[i - 1] => r[i] = acc[i]
    BY <1>5, <1>9
  <2>2. r[0] = acc[0]
    BY <1>5, <1>9
  <2> QED BY <1>2, <2>1, <2>2, SameRuns
<1>11. UsagesRun(F, scope, base, acc)
  BY <1>5 DEF UsagesRun, n
<1> QED BY <1>1, <1>10, <1>11 DEF F, base, n

\* What the streaming request has sent after each file.
Sent(items, f) == items \o search_in_file(f, MAX_RESULTS - Len(items), NoScope)

\* find_symbol_usages_async sends batches of the last result of its loop.
LEMMA StreamIsLoop ==
    ASSUME text \in TextOfFiles, NEW current
    PROVE  LET F == collect_candidate_files(current, NoScope)
           IN  \E items : /\ items[0] = << >> /\ \A i \in 1..Len(F) : items[i] = Sent(items[i - 1], F[i])
                          /\ find_symbol_usages_async(current) = Batches(items[Len(F)])
<1> DEFINE F == collect_candidate_files(current, NoScope)
           n == Len(F)
           B == {s \in Seq(Locations) : Len(s) <= MAX_RESULTS}
           step == [x \in B \X (1..n) |-> Sent(x[1], F[x[2]])]
           r == CHOOSE items : items = [i \in 0..n |->
                    IF i = 0 THEN << >> ELSE Sent(items[i - 1], F[i])]
<1>0. F \in Seq(TextFiles)
  BY SearchedFiles DEF NoScope
<1>1. find_symbol_usages_async(current) = Batches(r[n])
  BY DEF find_symbol_usages_async, Sent
<1> HIDE DEF F
<1>2. n \in Nat /\ << >> \in B /\ MAX_RESULTS \in Nat /\ \A i \in 1..n : F[i] \in TextFiles
  BY <1>0, UsagesAssumption
<1>3. ASSUME NEW s \in B, NEW f \in TextFiles PROVE Sent(s, f) \in B
  <2> DEFINE m == MAX_RESULTS - Len(s)
             t == MatchesIn(f, NoScope)
             c == Cut(t, m)
  <2>1. m \in Nat /\ s \in Seq(Locations) /\ Len(s) \in Nat /\ Len(s) + m = MAX_RESULTS
    BY <1>2
  <2>2. t \in Seq(Locations) /\ Sent(s, f) = s \o c
    BY MatchesOfFile DEF Sent, search_in_file
  <2> HIDE DEF t, m
  <2>3. c \in Seq(Locations) /\ Len(c) = IF Len(t) < m THEN Len(t) ELSE m
    BY <2>1, <2>2, CutIs
  <2>4. Len(t) \in Nat
    BY <2>2
  <2> HIDE DEF c
  <2>5. s \o c \in Seq(Locations) /\ Len(s \o c) = Len(s) + Len(c)
    BY <2>1, <2>3, ConcatIs
  <2>6. Len(s) + Len(c) <= MAX_RESULTS
    BY <2>1, <2>3, <2>4
  <2> QED BY <2>2, <2>5, <2>6
<1> HIDE DEF n, B
<1>4. step \in Steps(B, n)
  <2>1. \A x \in B \X (1..n) : Sent(x[1], F[x[2]]) \in B
    BY <1>2, <1>3
  <2> QED BY <2>1 DEF Steps
<1>5. PICK acc : IsRun(B, << >>, n, step, acc)
  <2> DEFINE base == << >>
  <2>1. base \in B
    BY <1>2
  <2> HIDE DEF step, base
  <2>2. \E acc : IsRun(B, base, n, step, acc)
    BY <1>2, <1>4, <2>1, LoopExists
  <2> QED BY <2>2 DEF base
<1>6. acc \in [0..n -> B] /\ acc[0] = << >> /\ \A i \in 1..n : acc[i] = Sent(acc[i - 1], F[i])
  <2>1. acc \in [0..n -> B] /\ acc[0] = << >> /\ \A i \in 1..n : acc[i] = step[<<acc[i - 1], i>>]
    BY <1>5 DEF IsRun
  <2>2. ASSUME NEW i \in 1..n PROVE acc[i] = Sent(acc[i - 1], F[i])
    <3>1. i - 1 \in 0..n
      BY <1>2
    <3>2. <<acc[i - 1], i>> \in B \X (1..n)
      BY <2>1, <3>1
    <3>3. step[<<acc[i - 1], i>>] = Sent(acc[i - 1], F[i])
      BY <3>2
    <3> QED BY <2>1, <3>3
  <2> QED BY <2>1, <2>2
<1> HIDE DEF step
<1>7. 0 \in 0..n /\ (\A i \in 1..n : i \in 0..n /\ i # 0) /\ \A i \in 0..n : i # 0 => i \in 1..n
  BY <1>2
<1>8. acc = [i \in 0..n |-> IF i = 0 THEN << >> ELSE Sent(acc[i - 1], F[i])]
  BY <1>6, <1>7
<1>9. r = [i \in 0..n |-> IF i = 0 THEN << >> ELSE Sent(r[i - 1], F[i])]
  BY <1>8
<1> HIDE DEF r
<1>10. r[0] = << >> /\ \A i \in 1..n : r[i] = Sent(r[i - 1], F[i])
  BY <1>7, <1>9
<1> QED BY <1>1, <1>10 DEF F, n

\* The Engine's usages, one by one, after the project's.
MergedWith(items, u) ==
    IF Len(items) >= MAX_RESULTS \/ \E i \in DOMAIN items : items[i].path = u.path /\ items[i].line = u.line
    THEN items ELSE Append(items, u)

\* Merging with the usages of the Engine keeps those of the project in front, each once.
LEMMA MergeIs ==
    ASSUME NEW current, NEW V, Range(EngineUsages) \subseteq V,
           NEW whole \in Seq(V), whole = find_symbol_usages(current, NoScope),
           IsInjective(whole), Len(whole) <= MAX_RESULTS
    PROVE  LET merged == find_references_with_engine(current, NoScope)
           IN  IsPrefix(whole, merged) /\ IsInjective(merged) /\ Len(merged) <= MAX_RESULTS
<1> DEFINE n == Len(EngineUsages)
           B == {s \in Seq(V) : IsInjective(s) /\ Len(s) <= MAX_RESULTS /\ Len(whole) <= Len(s)
                                  /\ \A i \in 1..Len(whole) : whole[i] = s[i]}
           step == [x \in B \X (1..n) |-> MergedWith(x[1], EngineUsages[x[2]])]
           r == CHOOSE merged : merged = [i \in 0..n |->
                    IF i = 0 THEN whole ELSE MergedWith(merged[i - 1], EngineUsages[i])]
<1>1. find_references_with_engine(current, NoScope) = r[n]
  BY DEF find_references_with_engine, MergedWith, NoScope
<1>2. n \in Nat /\ MAX_RESULTS \in Nat /\ \A i \in 1..n : EngineUsages[i] \in V
  <2>1. EngineUsages \in Seq(Range(EngineUsages))
    BY UsagesAssumption
  <2>2. DOMAIN EngineUsages = 1..n /\ n \in Nat
    BY <2>1
  <2> HIDE DEF n
  <2> QED BY <2>2, UsagesAssumption DEF Range
<1>3. whole \in B
  BY <1>2
<1>4. ASSUME NEW s \in B, NEW u \in V PROVE MergedWith(s, u) \in B
  <2>1. s \in Seq(V) /\ IsInjective(s) /\ Len(s) \in Nat /\ Len(whole) \in Nat /\ Len(whole) <= Len(s)
        /\ (\A i \in 1..Len(whole) : whole[i] = s[i]) /\ DOMAIN s = 1..Len(s)
    OBVIOUS
  <2>2. CASE Len(s) >= MAX_RESULTS \/ \E i \in DOMAIN s : s[i].path = u.path /\ s[i].line = u.line
    BY <2>2 DEF MergedWith
  <2>3. CASE ~(Len(s) >= MAX_RESULTS \/ \E i \in DOMAIN s : s[i].path = u.path /\ s[i].line = u.line)
    <3> DEFINE t == Append(s, u)
    <3>1. MergedWith(s, u) = t
      BY <2>3 DEF MergedWith
    <3>2. u \notin Range(s)
      BY <2>3 DEF Range
    <3>3. t \in Seq(V) /\ IsInjective(t) /\ Len(t) = Len(s) + 1
      BY <2>1, <3>2, AppendIs
    <3>4. \A i \in 1..Len(s) : t[i] = s[i]
      BY <2>1
    <3> HIDE DEF t
    <3>5. Len(t) <= MAX_RESULTS /\ Len(whole) <= Len(t)
      BY <1>2, <2>1, <2>3, <3>3
    <3>6. \A i \in 1..Len(whole) : i \in 1..Len(s)
      BY <2>1
    <3>7. \A i \in 1..Len(whole) : whole[i] = t[i]
      BY <2>1, <3>4, <3>6
    <3> QED BY <3>1, <3>3, <3>5, <3>7
  <2> QED BY <2>2, <2>3
<1> HIDE DEF n, B
<1>5. step \in Steps(B, n)
  <2>1. \A x \in B \X (1..n) : MergedWith(x[1], EngineUsages[x[2]]) \in B
    BY <1>2, <1>4
  <2> QED BY <2>1 DEF Steps
<1>6. PICK acc : IsRun(B, whole, n, step, acc)
  <2> HIDE DEF step
  <2> QED BY <1>2, <1>3, <1>5, LoopExists
<1>7. acc \in [0..n -> B] /\ acc[0] = whole /\ \A i \in 1..n : acc[i] = MergedWith(acc[i - 1], EngineUsages[i])
  <2>1. acc \in [0..n -> B] /\ acc[0] = whole /\ \A i \in 1..n : acc[i] = step[<<acc[i - 1], i>>]
    BY <1>6 DEF IsRun
  <2>2. ASSUME NEW i \in 1..n PROVE acc[i] = MergedWith(acc[i - 1], EngineUsages[i])
    <3>1. i - 1 \in 0..n
      BY <1>2
    <3>2. <<acc[i - 1], i>> \in B \X (1..n)
      BY <2>1, <3>1
    <3>3. step[<<acc[i - 1], i>>] = MergedWith(acc[i - 1], EngineUsages[i])
      BY <3>2
    <3> QED BY <2>1, <3>3
  <2> QED BY <2>1, <2>2
<1> HIDE DEF step
<1>8. 0 \in 0..n /\ n \in 0..n /\ (\A i \in 1..n : i \in 0..n /\ i # 0) /\ \A i \in 0..n : i # 0 => i \in 1..n
  BY <1>2
<1>9. acc = [i \in 0..n |-> IF i = 0 THEN whole ELSE MergedWith(acc[i - 1], EngineUsages[i])]
  BY <1>7, <1>8
<1>10. r = [i \in 0..n |-> IF i = 0 THEN whole ELSE MergedWith(r[i - 1], EngineUsages[i])]
  BY <1>9
<1> HIDE DEF r
<1>11. r[0] = whole /\ \A i \in 1..n : r[i] = MergedWith(r[i - 1], EngineUsages[i])
  BY <1>8, <1>10
<1>12. r[n] = acc[n]
  <2>1. \A i \in 1..n : r[i - 1] = acc[i - 1] => r[i] = acc[i]
    BY <1>7, <1>11
  <2>2. r[0] = acc[0]
    BY <1>7, <1>11
  <2> QED BY <1>2, <2>1, <2>2, SameRuns
<1>13. acc[n] \in B
  BY <1>7, <1>8
<1>14. IsPrefix(whole, acc[n]) /\ IsInjective(acc[n]) /\ Len(acc[n]) <= MAX_RESULTS
  BY <1>13, PrefixIs DEF B
<1> QED BY <1>1, <1>12, <1>14

(* One more file in both loops. *)
LEMMA OneMoreFile ==
    ASSUME text \in TextOfFiles, NEW s \in Seq(Locations), NEW f \in TextFiles,
           Range(s) \intersect Range(MatchesIn(f, NoScope)) = {}
    PROVE  LET more == Cut(s \o MatchesIn(f, NoScope), MAX_RESULTS)
           IN  /\ Searched(Cut(s, MAX_RESULTS), f, NoScope) = more
               /\ Sent(Cut(s, MAX_RESULTS), f) = more
<1> DEFINE t == MatchesIn(f, NoScope)
           m == MAX_RESULTS - Len(s)
           c == Cut(t, m)
           more == Cut(s \o t, MAX_RESULTS)
<1>1. MAX_RESULTS \in Nat /\ Len(s) \in Nat /\ t \in Seq(Locations) /\ IsInjective(t)
  BY UsagesAssumption, MatchesOfFile
<1>2. Cut(t, 0) = << >> /\ \A k \in Nat : search_in_file(f, k, NoScope) = Cut(t, k)
  BY <1>1, CutOf DEF search_in_file
<1> HIDE DEF t
<1>3. CASE Len(s) >= MAX_RESULTS
  <2> DEFINE d == Cut(s, MAX_RESULTS)
  <2>1. d \in Seq(Locations) /\ Len(d) = MAX_RESULTS /\ more = d
    <3>1. d \in Seq(Locations) /\ Len(d) = IF Len(s) < MAX_RESULTS THEN Len(s) ELSE MAX_RESULTS
      BY <1>1, CutIs
    <3>2. more = d
      BY <1>1, <1>3, CutConcat
    <3> HIDE DEF d, more
    <3> QED BY <1>1, <1>3, <3>1, <3>2
  <2> HIDE DEF d, more
  <2>2. Searched(d, f, NoScope) = d
    BY <1>1, <2>1 DEF Searched
  <2>3. MAX_RESULTS - Len(d) = 0 /\ 0 \in Nat
    BY <1>1, <2>1
  <2>4. Sent(d, f) = d \o << >>
    BY <1>2, <2>3 DEF Sent
  <2>5. d \o << >> = d
    BY <2>1
  <2> QED BY <2>1, <2>2, <2>4, <2>5 DEF d, more, t
<1>4. CASE Len(s) < MAX_RESULTS
  <2>1. m \in Nat /\ Cut(s, MAX_RESULTS) = s /\ more = s \o c
    <3>1. Len(s) <= MAX_RESULTS /\ m \in Nat
      BY <1>1, <1>4
    <3>2. Cut(s, MAX_RESULTS) = s
      BY <1>1, <3>1, CutOf
    <3>3. more = s \o c
      BY <1>1, <3>1, CutConcat
    <3> QED BY <3>1, <3>2, <3>3
  <2> HIDE DEF m
  <2>2. search_in_file(f, m, NoScope) = c
    BY <1>2, <2>1
  <2>3. c \in Seq(Locations) /\ IsInjective(c) /\ Range(c) \subseteq Range(t)
    BY <1>1, <2>1, CutIs, CutOf
  <2> HIDE DEF c, more
  <2>4. Sent(s, f) = s \o c
    BY <2>2 DEF Sent, m
  <2>5. PushEach(s, c) = s \o c
    <3>1. Range(s) \intersect Range(c) = {}
      BY <2>3 DEF t
    <3> QED BY <2>3, <3>1, PushNew
  <2>6. Searched(s, f, NoScope) = s \o c
    BY <1>1, <1>4, <2>2, <2>5 DEF Searched, m
  <2> QED BY <2>1, <2>4, <2>6 DEF more, t
<1> QED BY <1>1, <1>3, <1>4

\* TextFiles have no match in common.
LEMMA MatchesOfFiles ==
    ASSUME text \in TextOfFiles, NEW F \in Seq(TextFiles), IsInjective(F), NEW scope
    PROVE  LET q == [i \in DOMAIN F |-> MatchesIn(F[i], scope)]
           IN  q \in Seq(Seq(Locations)) /\ Len(q) = Len(F) /\ Apart(q)
<1> DEFINE q == [i \in DOMAIN F |-> MatchesIn(F[i], scope)]
<1>1. Len(F) \in Nat /\ DOMAIN F = 1..Len(F) /\ \A i \in 1..Len(F) : F[i] \in TextFiles
  OBVIOUS
<1>2. \A f \in TextFiles : /\ MatchesIn(f, scope) \in Seq(Locations) /\ IsInjective(MatchesIn(f, scope))
                       /\ \A x \in Range(MatchesIn(f, scope)) : x.path = f
  <2> TAKE f \in TextFiles
  <2>1. ASSUME NEW x \in Range(MatchesIn(f, scope)) PROVE x.path = f
    <3>1. PICK k, c : x = Place(f, k, c)
      BY MatchesOfFile
    <3> QED BY <3>1, PlaceIs
  <2> QED BY <2>1, MatchesOfFile
<1>3. q \in Seq(Seq(Locations)) /\ Len(q) = Len(F)
  BY <1>1, <1>2
<1>4. \A i \in 1..Len(F) : q[i] = MatchesIn(F[i], scope)
  BY <1>1
<1> HIDE DEF q
<1>5. \A i, j \in 1..Len(F) : i # j => F[i] # F[j]
  BY RangeIs
<1>6. Apart(q)
  <2>1. \A i \in 1..Len(F) : IsInjective(q[i]) /\ \A x \in Range(q[i]) : x.path = F[i]
    BY <1>1, <1>2, <1>4
  <2>2. \A i, j \in 1..Len(F) : i # j => Range(q[i]) \intersect Range(q[j]) = {}
    BY <1>5, <2>1
  <2> QED BY <1>3, <2>1, <2>2 DEF Apart
<1> QED BY <1>3, <1>6 DEF q

(* Streamed or returned, usages are the first MAX_RESULTS matches of the files in their
   order. *)
LEMMA BothAreCut ==
    ASSUME text \in TextOfFiles, NEW current
    PROVE  LET F == collect_candidate_files(current, NoScope)
               all == FlattenSeq([i \in DOMAIN F |-> MatchesIn(F[i], NoScope)])
           IN  /\ all \in Seq(Locations) /\ IsInjective(all)
               /\ find_symbol_usages(current, NoScope) = Cut(all, MAX_RESULTS)
               /\ find_symbol_usages_async(current) = Batches(Cut(all, MAX_RESULTS))
<1> DEFINE F == collect_candidate_files(current, NoScope)
           n == Len(F)
           q == [i \in DOMAIN F |-> MatchesIn(F[i], NoScope)]
<1>1. F \in Seq(TextFiles) /\ IsInjective(F)
  BY SearchedFiles DEF NoScope
<1>2. PICK items : /\ items[0] = << >> /\ \A i \in 1..n : items[i] = Sent(items[i - 1], F[i])
                   /\ find_symbol_usages_async(current) = Batches(items[n])
  BY StreamIsLoop
<1>3. PICK found : UsagesRun(F, NoScope, << >>, found) /\ find_symbol_usages(current, NoScope) = found[n]
  <2>1. Listed(NoScope) = << >> /\ Listed(NoScope) \in Once /\ NoScope.kind # "local"
    BY EmptyIs DEF Listed, NoScope, Once
  <2> QED BY <2>1, UsagesAreLoop
<1> HIDE DEF F
<1>4. n \in Nat /\ n \in 0..n /\ DOMAIN F = 1..n /\ \A i \in 1..n : F[i] \in TextFiles
  BY <1>1
<1>5. q \in Seq(Seq(Locations)) /\ Len(q) = n /\ Apart(q)
  BY <1>1, MatchesOfFiles
<1>6. \A i \in 1..n : q[i] = MatchesIn(F[i], NoScope)
  BY <1>4
<1>7. PICK g : FlatRun(Locations, q, g)
  <2> HIDE DEF q
  <2> QED BY <1>5, FlattenIsLoop
<1> HIDE DEF q, n
<1>8. /\ g \in [0..n -> Seq(Locations)] /\ g[0] = << >> /\ FlattenSeq(q) = g[n]
      /\ \A i \in 1..n : g[i] = g[i - 1] \o MatchesIn(F[i], NoScope)
  BY <1>5, <1>6, <1>7 DEF FlatRun
<1>9. \A i \in 0..n : IsInjective(g[i]) /\ Range(g[i]) = RangesTo(q, i)
  BY <1>5, <1>7, FlattenOnce
<1> DEFINE same == {i \in 0..n : found[i] = Cut(g[i], MAX_RESULTS) /\ items[i] = Cut(g[i], MAX_RESULTS)}
<1>10. 0 \in same
  <2>1. Cut(<< >>, MAX_RESULTS) = << >>
    <3>1. << >> \in Seq(Locations) /\ Len(<< >>) <= MAX_RESULTS /\ MAX_RESULTS \in Nat
      BY UsagesAssumption
    <3> DEFINE e == << >>
    <3> HIDE DEF e
    <3>2. e \in Seq(Locations) /\ Len(e) <= MAX_RESULTS
      BY <3>1 DEF e
    <3>3. Cut(e, MAX_RESULTS) = e
      BY <3>1, <3>2, CutOf
    <3> QED BY <3>3 DEF e
  <2>2. 0 \in 0..n /\ found[0] = << >>
    BY <1>3, <1>4 DEF UsagesRun
  <2> QED BY <1>2, <1>8, <2>1, <2>2
<1>11. ASSUME NEW i \in 1..n, i - 1 \in same PROVE i \in same
  <2>1. i - 1 \in 0..n /\ i \in 0..n /\ i \in 1..n /\ i \notin 1..(i - 1) /\ 1..(i - 1) \subseteq 1..n
    BY <1>4
  <2>2. Range(g[i - 1]) \intersect Range(MatchesIn(F[i], NoScope)) = {}
    <3>1. Range(g[i - 1]) = RangesTo(q, i - 1)
      BY <1>9, <2>1
    <3>2. \A j \in 1..(i - 1) : Range(q[j]) \intersect Range(q[i]) = {}
      BY <1>5, <2>1 DEF Apart
    <3> QED BY <1>6, <3>1, <3>2 DEF RangesTo
  <2> DEFINE s == g[i - 1]
  <2>3. s \in Seq(Locations) /\ F[i] \in TextFiles
    BY <1>4, <1>8, <2>1
  <2>4. g[i] = s \o MatchesIn(F[i], NoScope)
    BY <1>8
  <2>5. found[i] = Searched(Cut(s, MAX_RESULTS), F[i], NoScope) /\ items[i] = Sent(Cut(s, MAX_RESULTS), F[i])
    <3>1. found[i] = Searched(found[i - 1], F[i], NoScope) /\ items[i] = Sent(items[i - 1], F[i])
      BY <1>2, <1>3 DEF UsagesRun, n
    <3> QED BY <1>11, <3>1
  <2> HIDE DEF s
  <2>6. found[i] = Cut(g[i], MAX_RESULTS) /\ items[i] = Cut(g[i], MAX_RESULTS)
    BY <2>2, <2>3, <2>4, <2>5, OneMoreFile DEF s
  <2> QED BY <2>1, <2>6
<1>12. n \in same
  <2> HIDE DEF same
  <2>1. \A i \in 0..n : i \in same
    BY <1>4, <1>10, <1>11, NatInd
  <2> QED BY <1>4, <2>1
<1>13. g[n] \in Seq(Locations) /\ IsInjective(g[n])
  BY <1>4, <1>8, <1>9
<1> QED BY <1>2, <1>3, <1>8, <1>12, <1>13 DEF n, q, F

\* The property holds of any texts of the files.
LEMMA StreamAgrees ==
    ASSUME text \in TextOfFiles
    PROVE  StreamedIsWhatIsReturned
<1> SUFFICES ASSUME NEW current \in Currents
             PROVE  LET whole == find_symbol_usages(current, NoScope)
                        batches == find_symbol_usages_async(current)
                        searched == collect_candidate_files(current, NoScope)
                        all == FlattenSeq([i \in DOMAIN searched |-> MatchesIn(searched[i], NoScope)])
                        merged == find_references_with_engine(current, NoScope)
                    IN  /\ FlattenSeq(batches) = whole
                        /\ \A b \in DOMAIN batches : Len(batches[b]) \in 1..STREAM_BATCH
                        /\ whole = Cut(all, MAX_RESULTS)
                        /\ IsPrefix(whole, merged) /\ IsInjective(merged) /\ Len(merged) <= MAX_RESULTS
  BY DEF StreamedIsWhatIsReturned
<1> DEFINE F == collect_candidate_files(current, NoScope)
           all == FlattenSeq([i \in DOMAIN F |-> MatchesIn(F[i], NoScope)])
           whole == find_symbol_usages(current, NoScope)
           V == Locations \union Range(EngineUsages)
<1>1. /\ all \in Seq(Locations) /\ IsInjective(all) /\ whole = Cut(all, MAX_RESULTS)
      /\ find_symbol_usages_async(current) = Batches(whole)
  BY BothAreCut
<1> HIDE DEF all
<1>2. MAX_RESULTS \in Nat
  BY UsagesAssumption
<1>3. Cut(all, MAX_RESULTS) \in Seq(Locations) /\ IsInjective(Cut(all, MAX_RESULTS))
      /\ Len(Cut(all, MAX_RESULTS)) = IF Len(all) < MAX_RESULTS THEN Len(all) ELSE MAX_RESULTS
  BY <1>1, <1>2, CutIs, CutOf
<1>4. whole \in Seq(Locations) /\ IsInjective(whole) /\ Len(whole) <= MAX_RESULTS
  <2>1. Len(all) \in Nat
    BY <1>1
  <2> HIDE DEF whole
  <2> QED BY <1>1, <1>2, <1>3, <2>1
<1>5. whole \in Seq(V) /\ Range(EngineUsages) \subseteq V
  <2> HIDE DEF whole
  <2> QED BY <1>4
<1>6. LET merged == find_references_with_engine(current, NoScope)
      IN  IsPrefix(whole, merged) /\ IsInjective(merged) /\ Len(merged) <= MAX_RESULTS
  <2> HIDE DEF V
  <2> QED BY <1>4, <1>5, MergeIs
<1>7. /\ FlattenSeq(Batches(whole)) = whole
      /\ \A b \in DOMAIN Batches(whole) : Len(Batches(whole)[b]) \in 1..STREAM_BATCH
  <2> HIDE DEF whole
  <2> QED BY <1>4, BatchesAddUp
<1> QED BY <1>1, <1>6, <1>7 DEF all

\* TextFiles that grow line by line.
UsagesSpec == UsagesInit /\ [][AddLine]_text

\* The files always have texts made of lines.
LEMMA TextsAreFiles == UsagesSpec => [](text \in TextOfFiles)
<1>1. UsagesInit => text \in TextOfFiles
  <2>1. \A V : << >> \in Seq(V)
    BY EmptyIs
  <2> QED BY <2>1 DEF UsagesInit, TextOfFiles
<1>2. text \in TextOfFiles /\ [AddLine]_text => (text \in TextOfFiles)'
  <2> SUFFICES ASSUME text \in TextOfFiles, [AddLine]_text PROVE text' \in TextOfFiles
    BY DEF TextOfFiles
  <2>1. CASE UNCHANGED text
    BY <2>1
  <2>2. CASE AddLine
    <3>1. PICK f \in TextFiles : \E line \in Lines : text' = [text EXCEPT ![f] = Append(@, line)]
      BY <2>2 DEF AddLine
    <3>2. PICK line \in Lines : text' = [text EXCEPT ![f] = Append(@, line)]
      BY <3>1
    <3>3. text[f] \in Seq(Lines)
      BY DEF TextOfFiles
    <3>4. Append(text[f], line) \in Seq(Lines)
      BY <3>3
    <3> QED BY <3>2, <3>4 DEF TextOfFiles
  <2> QED BY <2>1, <2>2
<1> QED BY <1>1, <1>2, PTL DEF UsagesSpec

(* However the files grow, the batches that find_symbol_usages_async streams put together
   are what find_symbol_usages returns without a scope, with 1..STREAM_BATCH usages in
   each, and find_references_with_engine returns no usage twice and those first: both
   loops take the first MAX_RESULTS matches of the candidate files, although one removes
   what it has already and stops before a file, and the other does neither. *)
THEOREM StreamAgreesAlways == UsagesSpec => []StreamedIsWhatIsReturned
<1>1. UsagesSpec => [](text \in TextOfFiles)
  BY TextsAreFiles
<1>2. text \in TextOfFiles => StreamedIsWhatIsReturned
  BY StreamAgrees
<1> QED BY <1>1, <1>2, PTL

-----------------------------------------------------------------------------
\* Method bodies.

\* The depth after each line.
Depths(content, d) ==
    /\ d \in [0..Len(content) -> Int] /\ d[0] = 0
    /\ \A j \in 1..Len(content) : d[j] = d[j - 1] + content[j].open - content[j].close
    /\ \A k \in 1..Len(content) : DepthBefore(content, k) = d[k - 1]

\* Lines of a file have the shape of a line.
LEMMA LinesAre ==
    ASSUME NEW content \in Seq(Lines)
    PROVE  /\ Len(content) \in Nat /\ DOMAIN content = 1..Len(content)
           /\ \A k \in 1..Len(content) : /\ content[k] \in LineShape
                                         /\ content[k].open \in Nat /\ content[k].close \in Nat
<1>1. Len(content) \in Nat /\ DOMAIN content = 1..Len(content)
  OBVIOUS
<1>2. \A k \in 1..Len(content) : content[k] \in LineShape
  BY <1>1, UsagesAssumption
<1> QED BY <1>1, <1>2 DEF LineShape

\* A file has a depth after each line, and DepthBefore is that of the line before.
LEMMA DepthsExist ==
    ASSUME NEW content \in Seq(Lines)
    PROVE  \E d : Depths(content, d)
<1> DEFINE n == Len(content)
           step == [x \in Int \X (1..n) |-> x[1] + content[x[2]].open - content[x[2]].close]
           r == CHOOSE depth : depth = [j \in 0..n |->
                    IF j = 0 THEN 0 ELSE depth[j - 1] + content[j].open - content[j].close]
<1>1. \A k \in 1..n : DepthBefore(content, k) = r[k - 1]
  BY DEF DepthBefore
<1>2. n \in Nat /\ \A k \in 1..n : content[k].open \in Nat /\ content[k].close \in Nat
  BY LinesAre
<1> HIDE DEF n
<1>3. step \in Steps(Int, n)
  <2>1. ASSUME NEW y \in Int, NEW k \in 1..n PROVE y + content[k].open - content[k].close \in Int
    BY <1>2
  <2> QED BY <2>1 DEF Steps
<1>4. PICK acc : IsRun(Int, 0, n, step, acc)
  <2>1. 0 \in Int
    OBVIOUS
  <2> HIDE DEF step
  <2> QED BY <1>2, <1>3, <2>1, LoopExists
<1>5. acc \in [0..n -> Int] /\ acc[0] = 0
      /\ \A i \in 1..n : acc[i] = acc[i - 1] + content[i].open - content[i].close
  <2>1. acc \in [0..n -> Int] /\ acc[0] = 0 /\ \A i \in 1..n : acc[i] = step[<<acc[i - 1], i>>]
    BY <1>4 DEF IsRun
  <2>2. ASSUME NEW i \in 1..n PROVE acc[i] = acc[i - 1] + content[i].open - content[i].close
    <3>1. i - 1 \in 0..n
      BY <1>2
    <3>2. <<acc[i - 1], i>> \in Int \X (1..n)
      BY <2>1, <3>1
    <3>3. step[<<acc[i - 1], i>>] = acc[i - 1] + content[i].open - content[i].close
      BY <3>2
    <3> QED BY <2>1, <3>3
  <2> QED BY <2>1, <2>2
<1> HIDE DEF step
<1>6. 0 \in 0..n /\ (\A i \in 1..n : i \in 0..n /\ i # 0) /\ \A i \in 0..n : i # 0 => i \in 1..n
  BY <1>2
<1>7. acc = [i \in 0..n |-> IF i = 0 THEN 0 ELSE acc[i - 1] + content[i].open - content[i].close]
  BY <1>5, <1>6
<1>8. r = [i \in 0..n |-> IF i = 0 THEN 0 ELSE r[i - 1] + content[i].open - content[i].close]
  BY <1>7
<1> HIDE DEF r
<1>9. r[0] = 0 /\ \A i \in 1..n : r[i] = r[i - 1] + content[i].open - content[i].close
  BY <1>6, <1>8
<1>10. \A i \in 0..n : r[i] = acc[i]
  <2> DEFINE same == {i \in 0..n : r[i] = acc[i]}
  <2>1. 0 \in same
    BY <1>5, <1>6, <1>9
  <2>2. ASSUME NEW i \in 1..n, i - 1 \in same PROVE i \in same
    <3>1. r[i - 1] = acc[i - 1] /\ i \in 0..n
      BY <1>6, <2>2
    <3>2. r[i] = r[i - 1] + content[i].open - content[i].close
          /\ acc[i] = acc[i - 1] + content[i].open - content[i].close
      BY <1>5, <1>9
    <3> QED BY <3>1, <3>2
  <2> HIDE DEF same
  <2>3. \A i \in 0..n : i \in same
    BY <1>2, <2>1, <2>2, NatInd
  <2> QED BY <2>3 DEF same
<1>11. \A k \in 1..n : k - 1 \in 0..n
  BY <1>2
<1>12. \A k \in 1..n : DepthBefore(content, k) = acc[k - 1]
  BY <1>1, <1>10, <1>11
<1> QED BY <1>5, <1>12 DEF Depths, n

-----------------------------------------------------------------------------
ScanState == [pending : Nat, active : Nat, depth : Int, ranges : SUBSET SUBSET Nat]

\* The head before line k is done with, and the body that is open on it.
HeadOn(s, k, line, classes) ==
    IF s.active = 0 /\ s.pending = 0 /\ line.head \in classes THEN k ELSE s.pending
BodyOn(s, k, line, classes) ==
    IF s.active # 0 THEN s.active ELSE IF line.open > 0 THEN HeadOn(s, k, line, classes) ELSE 0
DepthOn(s, line) == (IF s.active = 0 THEN 0 ELSE s.depth) + line.open - line.close
EndsOn(s, k, line, classes) ==
    BodyOn(s, k, line, classes) # 0 /\ DepthOn(s, line) <= 0 /\ line.close > 0

\* What one line does to the scan, field by field.
LEMMA ScanIs ==
    ASSUME NEW s \in ScanState, NEW k \in Nat \ {0}, NEW line \in LineShape, NEW classes
    PROVE  LET t == Scan(s, k, line, classes)
               body == BodyOn(s, k, line, classes)
               ends == EndsOn(s, k, line, classes)
           IN  /\ t \in ScanState /\ body \in Nat
               /\ t.active = IF ends THEN 0 ELSE body
               /\ t.pending = IF s.active = 0 /\ body # 0 THEN 0 ELSE HeadOn(s, k, line, classes)
               /\ t.depth = IF ends \/ body = 0 THEN 0 ELSE DepthOn(s, line)
               /\ t.ranges = s.ranges \union (IF ends THEN {body..k} ELSE {})
<1> DEFINE p == HeadOn(s, k, line, classes)
           body == BodyOn(s, k, line, classes)
           dep == DepthOn(s, line)
           ends == EndsOn(s, k, line, classes)
           begins == s.active = 0 /\ p # 0 /\ line.open > 0
<1>1. s.active \in Nat /\ s.pending \in Nat /\ s.depth \in Int /\ s.ranges \in SUBSET SUBSET Nat
      /\ line.open \in Nat /\ line.close \in Nat
  BY DEF ScanState, LineShape
<1>2. p \in Nat
  BY <1>1 DEF HeadOn
<1>3. body = (IF begins THEN p ELSE s.active) /\ body \in Nat
  BY <1>1, <1>2 DEF BodyOn
<1>4. dep \in Int
  BY <1>1 DEF DepthOn
<1>5. body # 0 => dep = (IF begins THEN 0 ELSE s.depth) + line.open - line.close
  BY <1>1, <1>2, <1>3 DEF DepthOn
<1>6. begins <=> s.active = 0 /\ body # 0
  BY <1>2, <1>3
<1>7. ends <=> body # 0 /\ (IF begins THEN 0 ELSE s.depth) + line.open - line.close <= 0 /\ line.close > 0
  BY <1>5 DEF EndsOn
<1>8. Scan(s, k, line, classes) =
        [pending |-> IF begins THEN 0 ELSE p, active |-> IF ends THEN 0 ELSE body,
         depth |-> IF ends \/ body = 0 THEN 0 ELSE (IF begins THEN 0 ELSE s.depth) + line.open - line.close,
         ranges |-> s.ranges \union (IF ends THEN {body..k} ELSE {})]
  <2>1. p = IF s.active = 0 /\ s.pending = 0 /\ line.head \in classes THEN k ELSE s.pending
    BY DEF HeadOn
  <2> HIDE DEF p, body, ends
  <2> QED BY <1>3, <1>7, <2>1, Zenon DEF Scan
<1> HIDE DEF p, body, dep, ends, begins
<1>9. Scan(s, k, line, classes) =
        [pending |-> IF begins THEN 0 ELSE p, active |-> IF ends THEN 0 ELSE body,
         depth |-> IF ends \/ body = 0 THEN 0 ELSE dep,
         ranges |-> s.ranges \union (IF ends THEN {body..k} ELSE {})]
  BY <1>5, <1>8
<1>10. body..k \in SUBSET Nat
  BY <1>3
<1>11. s.ranges \union (IF ends THEN {body..k} ELSE {}) \in SUBSET SUBSET Nat
  BY <1>1, <1>10
<1>12. Scan(s, k, line, classes) \in ScanState
  BY <1>2, <1>3, <1>4, <1>9, <1>11 DEF ScanState
<1> QED BY <1>3, <1>6, <1>9, <1>12 DEF p, body, dep, ends

ScanRun(content, classes, s) ==
    /\ s \in [0..Len(content) -> ScanState] /\ s[0] = NoRange
    /\ \A k \in 1..Len(content) : s[k] = Scan(s[k - 1], k, content[k], classes)

(* collect_method_ranges is the last result of its loop, a body that is open at the end
   of the file included. *)
LEMMA ScanIsLoop ==
    ASSUME NEW content \in Seq(Lines), NEW classes
    PROVE  \E s : /\ ScanRun(content, classes, s)
                  /\ collect_method_ranges(content, classes)
                       = LET last == s[Len(content)]
                         IN  last.ranges \union (IF last.active = 0 THEN {} ELSE {last.active..Len(content)})
<1> DEFINE n == Len(content)
           step == [x \in ScanState \X (1..n) |-> Scan(x[1], x[2], content[x[2]], classes)]
           r == CHOOSE scanned : scanned = [k \in 0..n |->
                    IF k = 0 THEN NoRange ELSE Scan(scanned[k - 1], k, content[k], classes)]
<1>1. collect_method_ranges(content, classes)
        = r[n].ranges \union (IF r[n].active = 0 THEN {} ELSE {r[n].active..n})
  BY DEF collect_method_ranges
<1>2. n \in Nat /\ \A k \in 1..n : content[k] \in LineShape
  BY LinesAre
<1> HIDE DEF n
<1>3. NoRange \in ScanState
  BY DEF NoRange, ScanState
<1>4. step \in Steps(ScanState, n)
  <2>1. ASSUME NEW x \in ScanState, NEW k \in 1..n PROVE Scan(x, k, content[k], classes) \in ScanState
    <3>1. k \in Nat \ {0} /\ content[k] \in LineShape
      BY <1>2
    <3> QED BY <3>1, ScanIs
  <2> QED BY <2>1 DEF Steps
<1>5. PICK acc : IsRun(ScanState, NoRange, n, step, acc)
  <2> HIDE DEF step
  <2> QED BY <1>2, <1>3, <1>4, LoopExists
<1>6. acc \in [0..n -> ScanState] /\ acc[0] = NoRange
      /\ \A i \in 1..n : acc[i] = Scan(acc[i - 1], i, content[i], classes)
  <2>1. acc \in [0..n -> ScanState] /\ acc[0] = NoRange /\ \A i \in 1..n : acc[i] = step[<<acc[i - 1], i>>]
    BY <1>5 DEF IsRun
  <2>2. ASSUME NEW i \in 1..n PROVE acc[i] = Scan(acc[i - 1], i, content[i], classes)
    <3>1. i - 1 \in 0..n
      BY <1>2
    <3>2. <<acc[i - 1], i>> \in ScanState \X (1..n)
      BY <2>1, <3>1
    <3>3. step[<<acc[i - 1], i>>] = Scan(acc[i - 1], i, content[i], classes)
      BY <3>2
    <3> QED BY <2>1, <3>3
  <2> QED BY <2>1, <2>2
<1> HIDE DEF step
<1>7. 0 \in 0..n /\ (\A i \in 1..n : i \in 0..n /\ i # 0) /\ \A i \in 0..n : i # 0 => i \in 1..n
  BY <1>2
<1>8. acc = [i \in 0..n |-> IF i = 0 THEN NoRange ELSE Scan(acc[i - 1], i, content[i], classes)]
  BY <1>6, <1>7
<1>9. r = [i \in 0..n |-> IF i = 0 THEN NoRange ELSE Scan(r[i - 1], i, content[i], classes)]
  BY <1>8
<1> HIDE DEF r
<1>10. r[0] = NoRange /\ \A i \in 1..n : r[i] = Scan(r[i - 1], i, content[i], classes)
  BY <1>7, <1>9
<1>11. r[n] = acc[n]
  <2>1. \A i \in 1..n : r[i - 1] = acc[i - 1] => r[i] = acc[i]
    BY <1>6, <1>10
  <2>2. r[0] = acc[0]
    BY <1>6, <1>10
  <2> QED BY <1>2, <2>1, <2>2, SameRuns
<1>12. ScanRun(content, classes, acc)
  BY <1>6 DEF ScanRun, n
<1> QED BY <1>1, <1>11, <1>12 DEF n

-----------------------------------------------------------------------------
\* What the scan keeps, in a file of methods.

\* The depth in a well formed file, line by line.
LEMMA WellFormedIs ==
    ASSUME NEW content \in Seq(Lines), NEW d, Depths(content, d), WellFormed(content)
    PROVE  \A k \in 1..Len(content) :
              /\ k - 1 \in 0..Len(content) /\ d[k - 1] \in Int /\ d[k] \in Int
              /\ d[k] = d[k - 1] + content[k].open - content[k].close
              /\ d[k - 1] >= 0 /\ (content[k].close > 0 => d[k - 1] > 0)
              /\ content[k].head # NoClass => ((content[k].open > 0) <=> (d[k - 1] = 0))
<1> TAKE k \in 1..Len(content)
<1>1. k - 1 \in 0..Len(content) /\ k \in 0..Len(content) /\ DOMAIN content = 1..Len(content)
  BY LinesAre
<1>2. d[k - 1] \in Int /\ d[k] \in Int /\ DepthBefore(content, k) = d[k - 1]
      /\ d[k] = d[k - 1] + content[k].open - content[k].close
  BY <1>1 DEF Depths
<1>3. /\ DepthBefore(content, k) >= 0 /\ (content[k].close > 0 => DepthBefore(content, k) > 0)
      /\ content[k].head # NoClass => (content[k].open > 0) = (DepthBefore(content, k) = 0)
  BY <1>1 DEF WellFormed
<1> QED BY <1>1, <1>2, <1>3

\* What each line of a file does to the scan.
LEMMA ScanSteps ==
    ASSUME NEW content \in Seq(Lines), NEW classes, NEW s, ScanRun(content, classes, s),
           NEW i \in 1..Len(content)
    PROVE  LET b == s[i - 1]
               t == s[i]
               body == BodyOn(b, i, content[i], classes)
               ends == EndsOn(b, i, content[i], classes)
           IN  /\ b \in ScanState /\ t \in ScanState /\ body \in Nat
               /\ t.active = IF ends THEN 0 ELSE body
               /\ t.pending = IF b.active = 0 /\ body # 0 THEN 0 ELSE HeadOn(b, i, content[i], classes)
               /\ t.depth = IF ends \/ body = 0 THEN 0 ELSE DepthOn(b, content[i])
               /\ t.ranges = b.ranges \union (IF ends THEN {body..i} ELSE {})
<1>1. Len(content) \in Nat /\ content[i] \in LineShape
  BY LinesAre
<1>2. i - 1 \in 0..Len(content) /\ i \in Nat \ {0}
  BY <1>1
<1>3. s[i - 1] \in ScanState /\ s[i] = Scan(s[i - 1], i, content[i], classes)
  BY <1>2 DEF ScanRun
<1> DEFINE b == s[i - 1]
           line == content[i]
<1> HIDE DEF b, line
<1>4. LET t == Scan(b, i, line, classes)
          body == BodyOn(b, i, line, classes)
          ends == EndsOn(b, i, line, classes)
      IN  /\ t \in ScanState /\ body \in Nat
          /\ t.active = IF ends THEN 0 ELSE body
          /\ t.pending = IF b.active = 0 /\ body # 0 THEN 0 ELSE HeadOn(b, i, line, classes)
          /\ t.depth = IF ends \/ body = 0 THEN 0 ELSE DepthOn(b, line)
          /\ t.ranges = b.ranges \union (IF ends THEN {body..i} ELSE {})
  BY <1>1, <1>2, <1>3, ScanIs DEF b, line
<1> QED BY <1>3, <1>4 DEF b, line

\* The scan begins with nothing.
LEMMA NoRangeIs ==
    NoRange.pending = 0 /\ NoRange.active = 0 /\ NoRange.depth = 0 /\ NoRange.ranges = {}
  BY DEF NoRange

\* The fields of the scan are numbers.
LEMMA StateFields ==
    ASSUME NEW s \in ScanState
    PROVE  s.pending \in Nat /\ s.active \in Nat /\ s.depth \in Int
  BY DEF ScanState

(* The depth within a body is positive and at most that of the file. *)
LEMMA OpenBodies ==
    ASSUME NEW content \in Seq(Lines), NEW classes, NEW s, ScanRun(content, classes, s),
           NEW d, Depths(content, d), WellFormed(content)
    PROVE  \A i \in 0..Len(content) : s[i].active # 0 => 1 <= s[i].depth /\ s[i].depth <= d[i]
<1> DEFINE n == Len(content)
           good == {i \in 0..n : s[i].active # 0 => 1 <= s[i].depth /\ s[i].depth <= d[i]}
<1>0. n \in Nat /\ \A i \in 1..n : content[i].open \in Nat /\ content[i].close \in Nat
  BY LinesAre
<1>1. 0 \in good
  BY <1>0, NoRangeIs DEF ScanRun
<1>2. ASSUME NEW i \in 1..n, i - 1 \in good PROVE i \in good
  <2> DEFINE b == s[i - 1]
             t == s[i]
             line == content[i]
             dep == DepthOn(b, line)
             body == BodyOn(b, i, line, classes)
             ends == EndsOn(b, i, line, classes)
  <2>1. i \in 0..n /\ line.open \in Nat /\ line.close \in Nat /\ d[i - 1] \in Int
        /\ d[i] = d[i - 1] + line.open - line.close /\ d[i - 1] >= 0
    BY <1>0, WellFormedIs
  <2>2. /\ b \in ScanState /\ body \in Nat /\ t.active = IF ends THEN 0 ELSE body
        /\ t.depth = IF ends \/ body = 0 THEN 0 ELSE dep
    BY ScanSteps
  <2>3. b.active \in Nat /\ b.depth \in Int
    BY <2>2, StateFields
  <2>4. b.active # 0 => 1 <= b.depth /\ b.depth <= d[i - 1]
    BY <1>2
  <2>5. dep = (IF b.active = 0 THEN 0 ELSE b.depth) + line.open - line.close
    BY DEF DepthOn
  <2>6. body # 0 /\ b.active = 0 => line.open > 0
    BY DEF BodyOn
  <2>7. ends <=> body # 0 /\ dep <= 0 /\ line.close > 0
    BY DEF EndsOn
  <2> HIDE DEF b, t, line, dep, body, ends, n
  <2>8. t.active # 0 => 1 <= t.depth /\ t.depth <= d[i]
    <3> HAVE t.active # 0
    <3>1. body # 0 /\ ~ends /\ t.depth = dep
      BY <2>2
    <3>2. dep > 0 \/ line.close = 0
      BY <2>1, <2>3, <2>5, <2>7, <3>1
    <3>3. CASE b.active = 0
      <4>1. dep = line.open - line.close /\ line.open > 0
        BY <2>1, <2>5, <2>6, <3>1, <3>3
      <4> QED BY <2>1, <3>1, <3>2, <4>1
    <3>4. CASE b.active # 0
      <4>1. dep = b.depth + line.open - line.close /\ 1 <= b.depth /\ b.depth <= d[i - 1]
        BY <2>4, <2>5, <3>4
      <4> QED BY <2>1, <2>3, <3>1, <3>2, <4>1
    <3> QED BY <3>3, <3>4
  <2> QED BY <2>1, <2>8 DEF t
<1>3. \A i \in 0..n : i \in good
  <2> HIDE DEF good, n
  <2> QED BY <1>0, <1>1, <1>2, NatInd
<1> QED BY <1>3

\* A body that is open or pending has begun at a line that was passed.
LEMMA HeadsPassed ==
    ASSUME NEW content \in Seq(Lines), NEW classes, NEW s, ScanRun(content, classes, s)
    PROVE  \A i \in 0..Len(content) : s[i].active \in 0..i /\ s[i].pending \in 0..i
<1> DEFINE n == Len(content)
           good == {i \in 0..n : s[i].active \in 0..i /\ s[i].pending \in 0..i}
<1>0. n \in Nat
  BY LinesAre
<1>1. 0 \in good
  BY <1>0, NoRangeIs DEF ScanRun
<1>2. ASSUME NEW i \in 1..n, i - 1 \in good PROVE i \in good
  <2> DEFINE b == s[i - 1]
             t == s[i]
             line == content[i]
             head == HeadOn(b, i, line, classes)
             body == BodyOn(b, i, line, classes)
             ends == EndsOn(b, i, line, classes)
  <2>1. i \in 0..n /\ i \in Nat /\ i # 0
    BY <1>0
  <2>2. /\ t.active = IF ends THEN 0 ELSE body
        /\ t.pending = IF b.active = 0 /\ body # 0 THEN 0 ELSE head
    BY ScanSteps
  <2>3. b.active \in 0..(i - 1) /\ b.pending \in 0..(i - 1)
    BY <1>2
  <2>4. head = i \/ head = b.pending
    BY DEF HeadOn
  <2>5. body \in {b.active, head, 0}
    BY DEF BodyOn
  <2> HIDE DEF b, t, line, body, ends, head, n
  <2>6. t.active \in 0..i /\ t.pending \in 0..i
    <3>1. head \in 0..i /\ body \in 0..i /\ 0 \in 0..i
      BY <2>1, <2>3, <2>4, <2>5
    <3> QED BY <2>2, <3>1
  <2> QED BY <2>1, <2>6 DEF t
<1>3. \A i \in 0..n : i \in good
  <2> HIDE DEF good, n
  <2> QED BY <1>0, <1>1, <1>2, NatInd
<1> QED BY <1>3

(* The body of a head at the top of the file begins there or before, and is open as long
   as its braces are. *)
LEMMA BodyBegins ==
    ASSUME NEW content \in Seq(Lines), NEW classes, NEW s, ScanRun(content, classes, s),
           NEW d, Depths(content, d), WellFormed(content),
           NEW j \in 1..Len(content), content[j].head \in classes, content[j].open > 0, d[j - 1] = 0
    PROVE  /\ s[j - 1].active = 0 /\ BodyOn(s[j - 1], j, content[j], classes) \in 1..j
           /\ DepthOn(s[j - 1], content[j]) = d[j]
<1> DEFINE n == Len(content)
           b == s[j - 1]
           line == content[j]
           body == BodyOn(b, j, line, classes)
           head == HeadOn(b, j, line, classes)
<1>1. n \in Nat /\ j \in Nat /\ j # 0 /\ j - 1 \in 0..n /\ line.open \in Nat /\ line.close \in Nat
  BY LinesAre
<1>2. d[j - 1] \in Int /\ d[j] = d[j - 1] + line.open - line.close
  BY WellFormedIs
<1>3. b.active = 0
  <2>1. b.active # 0 => 1 <= b.depth /\ b.depth <= d[j - 1]
    BY <1>1, OpenBodies
  <2>2. b.depth \in Int
    BY ScanSteps, StateFields
  <2> HIDE DEF b
  <2> QED BY <2>1, <2>2
<1>4. b.pending \in 0..(j - 1)
  BY <1>1, HeadsPassed
<1>5. head = IF b.pending = 0 THEN j ELSE b.pending
  BY <1>3 DEF HeadOn
<1>6. body = head
  BY <1>3 DEF BodyOn
<1>7. DepthOn(b, line) = line.open - line.close
  <2>1. DepthOn(b, line) = 0 + line.open - line.close
    BY <1>3 DEF DepthOn
  <2> HIDE DEF line
  <2> QED BY <1>1, <2>1
<1> HIDE DEF b, line, body, head, n
<1>8. body \in 1..j
  BY <1>1, <1>4, <1>5, <1>6
<1>9. d[j] = line.open - line.close
  BY <1>1, <1>2
<1> QED BY <1>3, <1>7, <1>8, <1>9 DEF b, line, body

\* From its head on, a body is open as long as the depth is positive.
LEMMA BodyStaysOpen ==
    ASSUME NEW content \in Seq(Lines), NEW classes, NEW s, ScanRun(content, classes, s),
           NEW d, Depths(content, d), WellFormed(content),
           NEW j \in 1..Len(content), content[j].head \in classes, content[j].open > 0, d[j - 1] = 0
    PROVE  \A i \in j..Len(content) : (\A k \in j..i : d[k] > 0) =>
                 s[i].active \in 1..j /\ s[i].depth = d[i]
<1> DEFINE n == Len(content)
           good == {i \in 0..n : i >= j /\ (\A k \in j..i : d[k] > 0) =>
                                    s[i].active \in 1..j /\ s[i].depth = d[i]}
<1>0. n \in Nat /\ j \in Nat /\ j # 0
  BY LinesAre
<1>1. 0 \in good
  BY <1>0
<1>2. ASSUME NEW i \in 1..n, i - 1 \in good PROVE i \in good
  <2> DEFINE b == s[i - 1]
             t == s[i]
             line == content[i]
             dep == DepthOn(b, line)
             body == BodyOn(b, i, line, classes)
             ends == EndsOn(b, i, line, classes)
  <2>0. i \in 0..n /\ i \in Nat
    BY <1>0
  <2> SUFFICES ASSUME i >= j, \A k \in j..i : d[k] > 0
               PROVE  t.active \in 1..j /\ t.depth = d[i]
    BY <2>0
  <2>1. /\ body \in Nat /\ t.active = IF ends THEN 0 ELSE body
        /\ t.depth = IF ends \/ body = 0 THEN 0 ELSE dep
    BY ScanSteps
  <2>2. d[i] \in Int /\ d[i] > 0 /\ d[i] = d[i - 1] + line.open - line.close
    <3>1. i \in j..i
      BY <1>0, <2>0
    <3> QED BY <3>1, WellFormedIs
  <2>3. body \in 1..j /\ dep = d[i]
    <3>1. CASE i = j
      BY <3>1, BodyBegins
    <3>2. CASE i # j
      <4>1. i - 1 >= j /\ \A k \in j..(i - 1) : k \in j..i
        BY <1>0, <2>0, <3>2
      <4>2. b.active \in 1..j /\ b.depth = d[i - 1]
        BY <1>2, <4>1
      <4>3. body = b.active /\ dep = d[i - 1] + line.open - line.close
        BY <1>0, <4>2 DEF BodyOn, DepthOn
      <4> QED BY <2>2, <4>2, <4>3
    <3> QED BY <3>1, <3>2
  <2>4. ~ends
    BY <2>2, <2>3 DEF EndsOn
  <2> HIDE DEF b, t, line, dep, body, ends
  <2> QED BY <1>0, <2>1, <2>3, <2>4
<1>3. \A i \in 0..n : i \in good
  <2> HIDE DEF good, n
  <2> QED BY <1>0, <1>1, <1>2, NatInd
<1> QED
  <2> TAKE i \in j..Len(content)
  <2>1. i \in 0..n /\ i >= j
    BY <1>0
  <2> QED BY <1>3, <2>1

(* A body that is open stays so until it ends. *)
LEMMA BodyIsKept ==
    ASSUME NEW content \in Seq(Lines), NEW classes, NEW s, ScanRun(content, classes, s),
           NEW k \in 1..Len(content), NEW a \in 1..k,
           s[k].active = a \/ a..k \in s[k].ranges
    PROVE  \A i \in k..Len(content) : s[i].active = a \/ \E e \in k..i : a..e \in s[i].ranges
<1> DEFINE n == Len(content)
           Kept(i) == s[i].active = a \/ \E e \in k..i : a..e \in s[i].ranges
           good == {i \in 0..n : i >= k => Kept(i)}
<1>0. n \in Nat /\ k \in 1..n /\ k \in Nat /\ a \in Nat /\ a # 0
  BY LinesAre
<1>1. 0 \in good
  BY <1>0
<1>2. ASSUME NEW i \in 1..n, i - 1 \in good PROVE i \in good
  <2> DEFINE b == s[i - 1]
             t == s[i]
             line == content[i]
             body == BodyOn(b, i, line, classes)
             ends == EndsOn(b, i, line, classes)
  <2>0. i \in 0..n /\ i \in Nat
    BY <1>0
  <2> SUFFICES ASSUME i >= k PROVE Kept(i)
    BY <2>0
  <2>1. CASE i = k
    <3>1. k \in k..i
      BY <1>0, <2>1
    <3> QED BY <2>1, <3>1
  <2>2. CASE i # k
    <3>1. i - 1 >= k /\ i \in k..i /\ \A e \in k..(i - 1) : e \in k..i
      BY <1>0, <2>0, <2>2
    <3>2. b.active = a \/ \E e \in k..(i - 1) : a..e \in b.ranges
      BY <1>2, <3>1
    <3>3. /\ t.active = IF ends THEN 0 ELSE body
          /\ t.ranges = b.ranges \union (IF ends THEN {body..i} ELSE {})
      BY ScanSteps
    <3>4. b.active = a => body = a
      BY <1>0 DEF BodyOn
    <3> HIDE DEF b, t, body, ends
    <3>5. CASE b.active = a
      <4>1. t.active = a \/ a..i \in t.ranges
        BY <3>3, <3>4, <3>5
      <4> QED BY <3>1, <4>1 DEF t
    <3>6. CASE \E e \in k..(i - 1) : a..e \in b.ranges
      <4>1. PICK e \in k..(i - 1) : a..e \in b.ranges
        BY <3>6
      <4>2. a..e \in t.ranges /\ e \in k..i
        BY <3>1, <3>3, <4>1
      <4> QED BY <4>2 DEF t
    <3> QED BY <3>2, <3>5, <3>6
  <2> QED BY <2>1, <2>2
<1>3. \A i \in 0..n : i \in good
  <2> HIDE DEF good, n
  <2> QED BY <1>0, <1>1, <1>2, NatInd
<1> QED
  <2> TAKE i \in k..Len(content)
  <2>1. i \in 0..n /\ i >= k
    BY <1>0
  <2> QED BY <1>3, <2>1

(* A line in the body of a head at the top of the file is in a body. *)
LEMMA BodyIsFound ==
    ASSUME NEW content \in Seq(Lines), NEW classes, NEW d, Depths(content, d), WellFormed(content),
           NEW j \in 1..Len(content), content[j].head \in classes, content[j].open > 0, d[j - 1] = 0,
           NEW k \in j..Len(content), \A i \in j..(k - 1) : d[i] > 0
    PROVE  InBody(content, k, classes)
<1> DEFINE n == Len(content)
<1>0. n \in Nat /\ j \in Nat /\ j # 0 /\ k \in 1..n /\ k \in Nat /\ k >= j
  BY LinesAre
<1>1. PICK s : /\ ScanRun(content, classes, s)
               /\ collect_method_ranges(content, classes)
                     = LET last == s[n] IN last.ranges \union (IF last.active = 0 THEN {} ELSE {last.active..n})
  BY ScanIsLoop
<1> DEFINE b == s[k - 1]
           t == s[k]
           body == BodyOn(b, k, content[k], classes)
           ends == EndsOn(b, k, content[k], classes)
<1>2. body \in 1..j
  <2>1. CASE k = j
    BY <1>1, <2>1, BodyBegins
  <2>2. CASE k # j
    <3>1. k - 1 \in j..n
      BY <1>0, <2>2
    <3>2. b.active \in 1..j
      BY <1>1, <3>1, BodyStaysOpen
    <3> QED BY <1>0, <3>2 DEF BodyOn
  <2> QED BY <2>1, <2>2
<1>3. /\ t.active = IF ends THEN 0 ELSE body
      /\ t.ranges = b.ranges \union (IF ends THEN {body..k} ELSE {})
  BY <1>0, <1>1, ScanSteps
<1> HIDE DEF b, t, ends, n
<1> DEFINE a == body
<1>4. a \in 1..k /\ (t.active = a \/ a..k \in t.ranges)
  BY <1>0, <1>2, <1>3
<1> HIDE DEF a, body
<1>5. n \in k..n /\ (s[n].active = a \/ \E e \in k..n : a..e \in s[n].ranges)
  <2>1. \A i \in k..n : s[i].active = a \/ \E e \in k..i : a..e \in s[i].ranges
    <3>1. k \in 1..Len(content) /\ (s[k].active = a \/ a..k \in s[k].ranges)
      BY <1>0, <1>4 DEF n, t
    <3> QED BY <1>1, <1>4, <3>1, BodyIsKept DEF n
  <2>2. n \in k..n
    BY <1>0
  <2> QED BY <2>1, <2>2
<1>6. CASE s[n].active = a
  <2>1. a # 0 /\ a..n \in collect_method_ranges(content, classes) /\ k \in a..n
    BY <1>0, <1>1, <1>4, <1>6
  <2> QED BY <2>1 DEF InBody
<1>7. CASE \E e \in k..n : a..e \in s[n].ranges
  <2>1. PICK e \in k..n : a..e \in s[n].ranges
    BY <1>7
  <2>2. a..e \in collect_method_ranges(content, classes) /\ k \in a..e
    BY <1>0, <1>1, <1>4, <2>1
  <2> QED BY <2>2 DEF InBody
<1> QED BY <1>5, <1>6, <1>7

-----------------------------------------------------------------------------
\* The method that a line is in: the one whose head at the top of the file opens the body.
IsHeadOf(content, d, j, k) ==
    /\ content[j].head # NoClass /\ content[j].open > 0 /\ d[j - 1] = 0
    /\ \A i \in j..(k - 1) : d[i] > 0

(* A line is of the method whose head is at the top of the file with nothing but its
   body in between. *)
LEMMA MethodIs ==
    ASSUME NEW content \in Seq(Lines), NEW d, Depths(content, d), NEW k \in 1..Len(content)
    PROVE  /\ \A j \in 1..k : IsHeadOf(content, d, j, k) => MethodOf(content, k) = content[j].head
           /\ (\A j \in 1..k : ~IsHeadOf(content, d, j, k)) => MethodOf(content, k) = NoClass
<1> DEFINE n == Len(content)
           heads == {j \in 1..k : /\ content[j].head # NoClass /\ content[j].open > 0
                                  /\ DepthBefore(content, j) = 0
                                  /\ \A i \in (j + 1)..k : DepthBefore(content, i) > 0}
<1>0. n \in Nat /\ k \in Nat /\ k <= n /\ \A j \in 1..k : j \in 1..n
  BY LinesAre
<1>1. \A i \in 1..n : DepthBefore(content, i) = d[i - 1]
  BY DEF Depths
<1>2. \A i \in 0..n : d[i] \in Int
  BY DEF Depths
<1>3. MethodOf(content, k) = IF heads = {} THEN NoClass ELSE content[CHOOSE j \in heads : TRUE].head
  BY DEF MethodOf
<1>4. heads = {j \in 1..k : IsHeadOf(content, d, j, k)}
  <2>1. ASSUME NEW j \in 1..k
        PROVE  (\A i \in (j + 1)..k : DepthBefore(content, i) > 0) <=> \A i \in j..(k - 1) : d[i] > 0
    <3>1. ASSUME \A i \in (j + 1)..k : DepthBefore(content, i) > 0, NEW i \in j..(k - 1) PROVE d[i] > 0
      <4>1. i + 1 \in (j + 1)..k /\ i + 1 \in 1..n /\ (i + 1) - 1 = i
        BY <1>0
      <4>2. DepthBefore(content, i + 1) = d[(i + 1) - 1] /\ DepthBefore(content, i + 1) > 0
        BY <1>1, <3>1, <4>1
      <4> QED BY <4>1, <4>2
    <3>2. ASSUME \A i \in j..(k - 1) : d[i] > 0, NEW i \in (j + 1)..k PROVE DepthBefore(content, i) > 0
      <4>1. i - 1 \in j..(k - 1) /\ i \in 1..n
        BY <1>0
      <4> QED BY <1>1, <3>2, <4>1
    <3> QED BY <3>1, <3>2
  <2>2. \A j \in 1..k : DepthBefore(content, j) = d[j - 1]
    BY <1>0, <1>1
  <2> QED BY <2>1, <2>2 DEF IsHeadOf
<1> HIDE DEF heads, n
<1>5. \A i, j \in heads : i = j
  <2> SUFFICES ASSUME NEW i \in heads, NEW j \in heads, i < j PROVE FALSE
    <3>1. \A i, j \in heads : i \in Nat /\ j \in Nat
      BY <1>4
    <3> QED BY <3>1
  <2>1. i \in 1..k /\ j \in 1..k /\ j - 1 \in i..(k - 1) /\ d[j - 1] = 0 /\ d[j - 1] > 0
    <3>1. i \in 1..k /\ j \in 1..k /\ IsHeadOf(content, d, i, k) /\ IsHeadOf(content, d, j, k)
      BY <1>4
    <3>2. j - 1 \in i..(k - 1)
      BY <1>0, <3>1
    <3> QED BY <3>1, <3>2 DEF IsHeadOf
  <2> QED BY <2>1
<1>6. ASSUME NEW j \in 1..k, IsHeadOf(content, d, j, k) PROVE MethodOf(content, k) = content[j].head
  <2>1. j \in heads
    BY <1>4, <1>6
  <2>2. (CHOOSE i \in heads : TRUE) = j
    BY <1>5, <2>1
  <2> QED BY <1>3, <2>1, <2>2
<1>7. (\A j \in 1..k : ~IsHeadOf(content, d, j, k)) => MethodOf(content, k) = NoClass
  BY <1>3, <1>4
<1> QED BY <1>6, <1>7

(* A line of a method of one of the classes is in a body. *)
LEMMA InsideIsInBody ==
    ASSUME NEW content \in Seq(Lines), WellFormed(content), NEW classes, NoClass \notin classes,
           NEW k \in 1..Len(content), MethodOf(content, k) \in classes
    PROVE  InBody(content, k, classes)
<1>1. PICK d : Depths(content, d)
  BY DepthsExist
<1>2. PICK j \in 1..k : IsHeadOf(content, d, j, k)
  BY <1>1, MethodIs
<1>3. MethodOf(content, k) = content[j].head
  BY <1>1, <1>2, MethodIs
<1>4. j \in 1..Len(content) /\ k \in j..Len(content)
  BY LinesAre
<1> QED BY <1>1, <1>2, <1>3, <1>4, BodyIsFound DEF IsHeadOf

(* What a body begins with: the head of a method at the top, whose braces are open up to
   line e, or a call. *)
FromHead(content, d, classes, a, e) ==
    /\ content[a].head \in classes
    /\ content[a].open > 0 => d[a - 1] = 0 /\ \A i \in a..(e - 1) : d[i] > 0

\* What the scan has seen up to line i.
ScanKept(content, d, classes, s, i) ==
    /\ s[i].pending # 0 => content[s[i].pending].head \in classes /\ content[s[i].pending].open = 0
    /\ s[i].active # 0 => /\ FromHead(content, d, classes, s[i].active, i + 1)
                          /\ content[s[i].active].open > 0 => s[i].depth = d[i]
    /\ \A r \in s[i].ranges : \E a \in 1..i, e \in 1..i : r = a..e /\ FromHead(content, d, classes, a, e)

\* One line keeps that every range found, or still open, begins at a head of the classes.
LEMMA ScanKeeps ==
    ASSUME NEW content \in Seq(Lines), NEW classes, NoClass \notin classes,
           NEW s, ScanRun(content, classes, s),
           NEW d, Depths(content, d), WellFormed(content),
           NEW i \in 1..Len(content), ScanKept(content, d, classes, s, i - 1)
    PROVE  ScanKept(content, d, classes, s, i)
<1> DEFINE n == Len(content)
           b == s[i - 1]
           t == s[i]
           line == content[i]
           head == HeadOn(b, i, line, classes)
           body == BodyOn(b, i, line, classes)
           ends == EndsOn(b, i, line, classes)
           dep == DepthOn(b, line)
<1>0. n \in Nat /\ i \in Nat /\ i # 0 /\ i - 1 \in 0..n /\ i \in 0..n /\ (i - 1) + 1 = i /\ i \in 1..i
      /\ \A e \in 1..(i - 1) : e \in 1..i
  BY LinesAre
<1>1. /\ b \in ScanState /\ body \in Nat
      /\ t.active = IF ends THEN 0 ELSE body
      /\ t.pending = IF b.active = 0 /\ body # 0 THEN 0 ELSE head
      /\ t.depth = IF ends \/ body = 0 THEN 0 ELSE dep
      /\ t.ranges = b.ranges \union (IF ends THEN {body..i} ELSE {})
  BY ScanSteps
<1>2. \A j \in 1..n : content[j].open \in Nat /\ content[j].close \in Nat
  BY LinesAre
<1>3. b.active \in 0..(i - 1) /\ b.pending \in 0..(i - 1) /\ t.active \in 0..i /\ t.pending \in 0..i
  BY <1>0, HeadsPassed
<1>4. /\ d[i - 1] \in Int /\ d[i] \in Int /\ d[i] = d[i - 1] + line.open - line.close /\ d[i - 1] >= 0
      /\ line.head # NoClass => ((line.open > 0) <=> (d[i - 1] = 0))
  BY WellFormedIs
<1>5. head # 0 => content[head].head \in classes /\ (head = i \/ content[head].open = 0)
  <2> HAVE head # 0
  <2>1. CASE b.active = 0 /\ b.pending = 0 /\ line.head \in classes
    BY <2>1 DEF HeadOn
  <2>2. CASE ~(b.active = 0 /\ b.pending = 0 /\ line.head \in classes)
    <3>1. head = b.pending
      BY <2>2 DEF HeadOn
    <3> QED BY <3>1 DEF ScanKept
  <2> QED BY <2>1, <2>2
<1>6. body # 0 => /\ FromHead(content, d, classes, body, i)
                  /\ content[body].open > 0 => dep = d[i] /\ body \in 1..i
  <2> HAVE body # 0
  <2>1. CASE b.active # 0
    <3>1. body = b.active /\ body \in 1..i
      BY <1>0, <1>3, <2>1 DEF BodyOn
    <3>2. FromHead(content, d, classes, body, i) /\ (content[body].open > 0 => b.depth = d[i - 1])
      BY <1>0, <2>1, <3>1 DEF ScanKept
    <3>3. dep = b.depth + line.open - line.close
      BY <2>1 DEF DepthOn
    <3> QED BY <1>4, <3>1, <3>2, <3>3
  <2>2. CASE b.active = 0
    <3>1. body = head /\ line.open > 0
      BY <2>2 DEF BodyOn
    <3>2. CASE head = i
      <4>1. line.head \in classes /\ line.head # NoClass
        BY <1>0, <1>5, <3>2
      <4>2. d[i - 1] = 0
        BY <1>4, <3>1, <4>1
      <4>3. dep = 0 + line.open - line.close
        BY <2>2 DEF DepthOn
      <4>4. dep = d[i]
        BY <1>4, <4>2, <4>3
      <4>5. \A j \in i..(i - 1) : FALSE
        BY <1>0
      <4> QED BY <1>0, <3>1, <3>2, <4>1, <4>2, <4>4, <4>5 DEF FromHead
    <3>3. CASE head # i
      <4>1. content[head].head \in classes /\ content[head].open = 0
        BY <1>5, <3>1, <3>3
      <4> QED BY <3>1, <4>1 DEF FromHead
    <3> QED BY <3>2, <3>3
  <2> QED BY <2>1, <2>2
<1>7. t.pending # 0 => content[t.pending].head \in classes /\ content[t.pending].open = 0
  <2> HAVE t.pending # 0
  <2>1. t.pending = head /\ head # 0 /\ ~(b.active = 0 /\ body # 0)
    BY <1>1
  <2>2. CASE head = i
    <3>1. b.active = 0 /\ b.pending = 0
      <4>1. ~(b.active = 0 /\ b.pending = 0 /\ line.head \in classes) => head = b.pending
        BY DEF HeadOn
      <4>2. b.pending # i
        BY <1>0, <1>3
      <4> QED BY <2>2, <4>1, <4>2
    <3>2. ~(line.open > 0)
      BY <2>1, <3>1 DEF BodyOn
    <3>3. line.open = 0
      BY <1>2, <3>2
    <3> QED BY <1>5, <2>1, <2>2, <3>3
  <2>3. CASE head # i
    BY <1>5, <2>1, <2>3
  <2> QED BY <2>2, <2>3
<1>8. t.active # 0 => /\ FromHead(content, d, classes, t.active, i + 1)
                      /\ content[t.active].open > 0 => t.depth = d[i]
  <2> HAVE t.active # 0
  <2>1. t.active = body /\ body # 0 /\ ~ends /\ t.depth = dep
    BY <1>1
  <2>2. FromHead(content, d, classes, body, i) /\ (content[body].open > 0 => dep = d[i] /\ body \in 1..i)
    BY <1>6, <2>1
  <2>3. ASSUME content[body].open > 0 PROVE d[body - 1] = 0 /\ \A j \in body..((i + 1) - 1) : d[j] > 0
    <3>1. dep = d[i] /\ body \in 1..i /\ d[body - 1] = 0 /\ \A j \in body..(i - 1) : d[j] > 0
      BY <2>2, <2>3 DEF FromHead
    <3>2. d[i] > 0 \/ ~(line.close > 0)
      BY <1>4, <2>1, <3>1 DEF EndsOn
    <3>3. d[i] > 0
      <4>1. CASE body = i
        <5>1. d[i - 1] = 0 /\ line.open > 0
          BY <2>3, <3>1, <4>1
        <5> QED BY <1>0, <1>2, <1>4, <3>2, <5>1
      <4>2. CASE body # i
        <5>1. i - 1 \in body..(i - 1)
          BY <1>0, <3>1, <4>2
        <5>2. d[i - 1] > 0
          BY <3>1, <5>1
        <5> QED BY <1>0, <1>2, <1>4, <3>2, <5>2
      <4> QED BY <4>1, <4>2
    <3>4. \A j \in body..((i + 1) - 1) : j \in body..(i - 1) \/ j = i
      BY <1>0, <3>1
    <3> QED BY <3>1, <3>3, <3>4
  <2> QED BY <2>1, <2>2, <2>3 DEF FromHead
<1>9. \A r \in t.ranges : \E a \in 1..i, e \in 1..i : r = a..e /\ FromHead(content, d, classes, a, e)
  <2> TAKE r \in t.ranges
  <2>1. CASE r \in b.ranges
    <3>1. PICK a \in 1..(i - 1), e \in 1..(i - 1) : r = a..e /\ FromHead(content, d, classes, a, e)
      BY <2>1 DEF ScanKept
    <3> QED BY <1>0, <3>1
  <2>2. CASE r \notin b.ranges
    <3>1. ends /\ r = body..i /\ body # 0
      <4>1. ends => body # 0
        BY DEF EndsOn
      <4> QED BY <1>1, <2>2, <4>1
    <3>2. body \in 1..i
      <4>1. head \in 0..i
        BY <1>0, <1>3 DEF HeadOn
      <4>2. body = b.active \/ body = head
        BY <3>1 DEF BodyOn
      <4> QED BY <1>0, <1>3, <3>1, <4>1, <4>2
    <3>3. FromHead(content, d, classes, body, i)
      BY <1>6, <3>1
    <3> QED BY <1>0, <3>1, <3>2, <3>3
  <2> QED BY <2>1, <2>2
<1> QED BY <1>7, <1>8, <1>9 DEF ScanKept

(* A line in a body is in a method of one of the classes, unless a call of one precedes it. *)
LEMMA InBodyIsInside ==
    ASSUME NEW content \in Seq(Lines), WellFormed(content), NEW classes, NoClass \notin classes,
           NEW k \in 1..Len(content), InBody(content, k, classes),
           \A j \in 1..k : content[j].head \in classes => content[j].open # 0
    PROVE  MethodOf(content, k) \in classes
<1> DEFINE n == Len(content)
<1>0. n \in Nat /\ k \in Nat /\ k <= n /\ \A j \in 1..n : content[j].open \in Nat
  BY LinesAre
<1>1. PICK d : Depths(content, d)
  BY DepthsExist
<1>2. PICK s : /\ ScanRun(content, classes, s)
               /\ collect_method_ranges(content, classes)
                     = LET last == s[n] IN last.ranges \union (IF last.active = 0 THEN {} ELSE {last.active..n})
  BY ScanIsLoop
<1> DEFINE good == {i \in 0..n : ScanKept(content, d, classes, s, i)}
<1>3. 0 \in good
  <2>1. s[0] = NoRange /\ 0 \in 0..n
    BY <1>0, <1>2 DEF ScanRun
  <2> QED BY <2>1, NoRangeIs DEF ScanKept
<1>4. ASSUME NEW i \in 1..n, i - 1 \in good PROVE i \in good
  <2>1. i \in 0..n
    BY <1>0
  <2> QED BY <1>1, <1>2, <1>4, <2>1, ScanKeeps
<1>5. ScanKept(content, d, classes, s, n)
  <2> HIDE DEF n
  <2>1. \A i \in 0..n : i \in good
    <3> HIDE DEF good
    <3> QED BY <1>0, <1>3, <1>4, NatInd
  <2>2. n \in good
    BY <1>0, <2>1
  <2> QED BY <2>2
<1>6. \E a, e \in 1..(n + 1) : \/ k \in a..(e - 1) /\ FromHead(content, d, classes, a, e)
                               \/ k \in a..e /\ FromHead(content, d, classes, a, e)
  <2>1. PICK r \in collect_method_ranges(content, classes) : k \in r
    BY DEF InBody
  <2>2. CASE r \in s[n].ranges
    <3>1. PICK a \in 1..n, e \in 1..n : r = a..e /\ FromHead(content, d, classes, a, e)
      BY <1>5, <2>2 DEF ScanKept
    <3>2. a \in 1..(n + 1) /\ e \in 1..(n + 1)
      BY <1>0
    <3> QED BY <2>1, <3>1, <3>2
  <2>3. CASE r \notin s[n].ranges
    <3> DEFINE a == s[n].active
    <3>1. a # 0 /\ r = a..n
      BY <1>2, <2>1, <2>3
    <3>2. FromHead(content, d, classes, a, n + 1)
      BY <1>5, <3>1 DEF ScanKept
    <3>3. a \in 0..n /\ n + 1 \in 1..(n + 1) /\ n = (n + 1) - 1
      BY <1>0, <1>2, HeadsPassed
    <3>4. a \in 1..(n + 1)
      BY <1>0, <3>1, <3>3
    <3> QED BY <2>1, <3>1, <3>2, <3>3, <3>4
  <2> QED BY <2>2, <2>3
<1>7. PICK a \in 1..(n + 1), e \in 1..(n + 1) : k \in a..e /\ FromHead(content, d, classes, a, e)
  <2>1. \A a, e \in 1..(n + 1) : k \in a..(e - 1) => k \in a..e
    BY <1>0
  <2> QED BY <1>6, <2>1
<1>8. a \in 1..k /\ a \in 1..n
  BY <1>0, <1>7
<1>9. content[a].head \in classes /\ content[a].open > 0
  BY <1>0, <1>7, <1>8 DEF FromHead
<1>10. IsHeadOf(content, d, a, k)
  <2>1. \A i \in a..(k - 1) : i \in a..(e - 1)
    BY <1>0, <1>7, <1>8
  <2> QED BY <1>7, <1>9, <2>1 DEF FromHead, IsHeadOf
<1>11. MethodOf(content, k) = content[a].head
  BY <1>1, <1>8, <1>10, MethodIs
<1> QED BY <1>9, <1>11

-----------------------------------------------------------------------------
\* The declarations that a member's usages begin with.

\* The longest file has some length.
LEMMA LongestIs ==
    ASSUME text \in TextOfFiles
    PROVE  Max({0} \union {Len(text[f]) : f \in TextFiles}) \in Nat
<1> DEFINE n == Len(Paths)
           L(i) == Len(text[Paths[i]])
           Upto(i) == {0} \union {L(j) : j \in 1..i}
           good == {i \in 0..n : \E x \in Upto(i) : \A y \in Upto(i) : x >= y}
<1>1. n \in Nat /\ \A i \in 1..n : Paths[i] \in TextFiles
  BY UsagesAssumption
<1>2. \A i \in 1..n : L(i) \in Nat
  BY <1>1 DEF TextOfFiles
<1>3. TextFiles = {Paths[i] : i \in 1..n}
  <2>1. Paths \in Seq(TextFiles)
    BY UsagesAssumption
  <2> QED BY <2>1, RangeIs DEF TextFiles
<1> HIDE DEF n, L
<1>4. 0 \in good
  <2>1. 0 \in 0..n /\ 1..0 = {}
    BY <1>1
  <2> QED BY <2>1
<1>5. ASSUME NEW i \in 1..n, i - 1 \in good PROVE i \in good
  <2>1. i \in 0..n /\ 1..i = (1..(i - 1)) \union {i} /\ \A j \in 1..(i - 1) : j \in 1..n
    BY <1>1
  <2>2. Upto(i) = Upto(i - 1) \union {L(i)}
    BY <2>1
  <2>3. Upto(i - 1) \subseteq Nat /\ L(i) \in Nat
    BY <1>2, <2>1
  <2>4. PICK x \in Upto(i - 1) : \A y \in Upto(i - 1) : x >= y
    BY <1>5
  <2> HIDE DEF Upto
  <2>5. CASE L(i) >= x
    <3>1. \A y \in Upto(i) : L(i) >= y
      BY <2>2, <2>3, <2>4, <2>5
    <3> QED BY <2>1, <2>2, <3>1
  <2>6. CASE ~(L(i) >= x)
    <3>1. \A y \in Upto(i) : x >= y
      BY <2>2, <2>3, <2>4, <2>6
    <3> QED BY <2>1, <2>2, <2>4, <3>1
  <2> QED BY <2>5, <2>6
<1>6. n \in good
  <2> HIDE DEF good
  <2>1. \A i \in 0..n : i \in good
    BY <1>1, <1>4, <1>5, NatInd
  <2> QED BY <1>1, <2>1
<1> DEFINE M == {0} \union {Len(text[f]) : f \in TextFiles}
<1>7. M = Upto(n) /\ M \subseteq Nat
  BY <1>2, <1>3 DEF L
<1>8. PICK x \in M : \A y \in M : x >= y
  BY <1>6, <1>7
<1> HIDE DEF M
<1>9. Max(M) \in M
  BY <1>8 DEF Max
<1> QED BY <1>7, <1>9 DEF M

\* A declaration found near a line is a location.
LEMMA LocationIs ==
    ASSUME NEW f \in TextFiles, NEW k \in Nat, text \in TextOfFiles
    PROVE  find_symbol_location_near(f, k) \in Locations
<1> DEFINE near == {j \in DOMAIN text[f] : j \in k..(k + 8) /\ text[f][j].uses # << >>}
           here == [path |-> f, line |-> k, col |-> 0]
           first == CHOOSE j \in near : \A i \in near : j <= i
           there == [path |-> f, line |-> first, col |-> 1]
<1>1. find_symbol_location_near(f, k) = IF near = {} THEN here ELSE there
  BY DEF find_symbol_location_near
<1>2. near \in SUBSET Nat
  OBVIOUS
<1>3. near # {} => first \in Nat
  <2> HAVE near # {}
  <2> HIDE DEF near
  <2>1. \E j \in near : \A i \in near : j <= i
    BY <1>2, NatMin
  <2>2. first \in near
    BY <2>1
  <2> QED BY <1>2, <2>2
<1> HIDE DEF near, first
<1> QED BY <1>1, <1>3 DEF Locations

\* The declarations that a member's usages begin with are locations, each once.
LEMMA ListedIs ==
    ASSUME NEW scope, text \in TextOfFiles
    PROVE  Listed(scope) \in Once
<1>1. << >> \in Once
  BY EmptyIs DEF Once
<1>2. CASE scope.kind # "member"
  BY <1>1, <1>2 DEF Listed
<1>3. CASE scope.kind = "member"
  <2> DEFINE longest == Max({0} \union {Len(text[f]) : f \in TextFiles})
             declaring(k) == {f \in TextFiles : k \in DOMAIN text[f] /\ text[f][k].decl = scope.owner}
             At(k) == LET files == InOrder(declaring(k))
                      IN  [i \in DOMAIN files |-> find_symbol_location_near(files[i], k)]
             q == [k \in 1..longest |-> At(k)]
             items == FlattenSeq(q)
  <2>1. longest \in Nat
    BY LongestIs
  <2>2. Listed(scope) = PushEach(<< >>, items)
    BY <1>3 DEF Listed, get_member_declaration_results
  <2>3. \A k \in Nat : At(k) \in Seq(Locations)
    <3> SUFFICES ASSUME NEW k \in Nat PROVE At(k) \in Seq(Locations)
      OBVIOUS
    <3> DEFINE files == InOrder(declaring(k))
    <3>1. files \in Seq(TextFiles)
      BY InOrderIs
    <3>2. At(k) = [i \in DOMAIN files |-> find_symbol_location_near(files[i], k)]
      OBVIOUS
    <3> HIDE DEF files, At
    <3>3. DOMAIN files = 1..Len(files) /\ Len(files) \in Nat /\ \A i \in 1..Len(files) : files[i] \in TextFiles
      BY <3>1
    <3>4. \A i \in 1..Len(files) : find_symbol_location_near(files[i], k) \in Locations
      BY <3>3, LocationIs
    <3> QED BY <3>2, <3>3, <3>4
  <2> HIDE DEF longest, At
  <2>4. q \in Seq(Seq(Locations))
    <3>1. \A k \in 1..longest : At(k) \in Seq(Locations)
      BY <2>1, <2>3
    <3> QED BY <2>1, <3>1
  <2> HIDE DEF q
  <2>5. items \in Seq(Locations)
    <3>1. PICK g : FlatRun(Locations, q, g)
      BY <2>4, FlattenIsLoop
    <3>2. Len(q) \in 0..Len(q)
      BY <2>4
    <3> QED BY <3>1, <3>2 DEF FlatRun
  <2> HIDE DEF items
  <2> DEFINE e == << >>
  <2>6. e \in Seq(Locations) /\ IsInjective(e)
    BY EmptyIs
  <2> HIDE DEF e
  <2>7. PushEach(e, items) \in Once
    BY <2>5, <2>6, PushIs DEF Once
  <2> QED BY <2>2, <2>7 DEF e
<1> QED BY <1>2, <1>3

-----------------------------------------------------------------------------
\* What a search finds, up to the limit.

\* The items of a sequence are finitely many, and as many as it is long if none is there
\* twice.
LEMMA CountIs ==
    ASSUME NEW V, NEW s \in Seq(V)
    PROVE  /\ IsFiniteSet(Range(s)) /\ Len(s) \in Nat
           /\ IsInjective(s) => Cardinality(Range(s)) = Len(s)
<1>1. Len(s) \in Nat /\ DOMAIN s = 1..Len(s) /\ Range(s) = {s[i] : i \in 1..Len(s)}
  BY RangeIs
<1>2. s \in [1..Len(s) -> Range(s)]
  BY <1>1
<1>3. s \in Surjection(1..Len(s), Range(s))
  BY <1>1, <1>2 DEF Surjection
<1>4. IsInjective(s) => s \in Injection(1..Len(s), Range(s))
  <2> HAVE IsInjective(s)
  <2>1. \A i, j \in 1..Len(s) : s[i] = s[j] => i = j
    BY RangeIs
  <2> QED BY <1>2, <2>1 DEF Injection, IsInjective
<1>5. IsFiniteSet(1..Len(s)) /\ Cardinality(1..Len(s)) = Len(s)
  <2> DEFINE n == Len(s)
  <2>1. n \in Nat
    BY <1>1
  <2> HIDE DEF n
  <2>2. IsFiniteSet(1..n) /\ Cardinality(1..n) = IF 1 > n THEN 0 ELSE n - 1 + 1
    BY <2>1, FS_Interval
  <2>3. Cardinality(1..n) = n
    BY <2>1, <2>2
  <2> QED BY <2>2, <2>3 DEF n
<1> DEFINE S == 1..Len(s)
           T == Range(s)
<1> HIDE DEF S, T
<1>6. s \in Surjection(S, T) /\ IsFiniteSet(S) /\ (IsInjective(s) => s \in Injection(S, T))
  BY <1>3, <1>4, <1>5 DEF S, T
<1>7. IsFiniteSet(T) /\ (Cardinality(T) = Cardinality(S) <=> s \in Injection(S, T))
  BY <1>6, FS_Surjection
<1> QED BY <1>1, <1>5, <1>6, <1>7 DEF S, T

\* As many locations as the sequence is long.
\* As many locations as the sequence is long.
LEMMA SizeIs ==
    ASSUME NEW s \in Once
    PROVE  /\ IsFiniteSet(Range(s)) /\ Cardinality(Range(s)) = Len(s) /\ Len(s) \in Nat
           /\ s \in Seq(Locations) /\ IsInjective(s)
<1>1. s \in Seq(Locations) /\ IsInjective(s)
  BY DEF Once
<1> QED BY <1>1, CountIs

(* What is pushed counts, but for what was there. *)
LEMMA PushSize ==
    ASSUME NEW results \in Once, NEW items \in Once, NEW D, IsFiniteSet(D),
           Range(results) \intersect Range(items) \subseteq D
    PROVE  LET pushed == PushEach(results, items)
           IN  /\ pushed \in Once /\ Range(pushed) = Range(results) \union Range(items)
               /\ Len(results) <= Len(pushed) /\ Len(results) + Len(items) <= Len(pushed) + Cardinality(D)
<1> DEFINE pushed == PushEach(results, items)
           A == Range(results)
           B == Range(items)
<1>1. pushed \in Once /\ Range(pushed) = A \union B
  BY SizeIs, PushIs DEF Once
<1>2. /\ IsFiniteSet(A) /\ Cardinality(A) = Len(results) /\ Len(results) \in Nat
      /\ IsFiniteSet(B) /\ Cardinality(B) = Len(items) /\ Len(items) \in Nat
  BY SizeIs
<1> HIDE DEF pushed, A, B
<1>3. Cardinality(A \union B) = Len(pushed) /\ Len(pushed) \in Nat /\ IsFiniteSet(A \union B)
  BY <1>1, SizeIs
<1>4. Cardinality(A \union B) = Cardinality(A) + Cardinality(B) - Cardinality(A \intersect B)
  BY <1>2, FS_Union
<1>5. IsFiniteSet(A \intersect B) /\ Cardinality(A \intersect B) <= Cardinality(D)
      /\ Cardinality(D) \in Nat /\ Cardinality(A \intersect B) \in Nat
  <2>1. A \intersect B \in SUBSET D
    BY DEF A, B
  <2>2. IsFiniteSet(A \intersect B) /\ Cardinality(A \intersect B) <= Cardinality(D)
    BY <2>1, FS_Subset
  <2> QED BY <2>2, FS_CardinalityType
<1>6. Cardinality(A) <= Cardinality(A \union B)
  <2>1. A \in SUBSET (A \union B)
    OBVIOUS
  <2> QED BY <1>3, <2>1, FS_Subset
<1> QED BY <1>1, <1>2, <1>3, <1>4, <1>5, <1>6 DEF pushed, A, B

(* Searching one more file adds all of its matches, or the limit is met by results and
   declarations. *)
LEMMA OneFileMore ==
    ASSUME text \in TextOfFiles, NEW f \in TextFiles, NEW scope, NEW results \in Once, NEW D, IsFiniteSet(D),
           Range(results) \intersect Range(MatchesIn(f, scope)) \subseteq D
    PROVE  LET more == Searched(results, f, scope)
           IN  /\ more \in Once /\ Len(results) <= Len(more)
               /\ Range(results) \subseteq Range(more)
               /\ Range(more) \subseteq Range(results) \union Range(MatchesIn(f, scope))
               /\ Range(MatchesIn(f, scope)) \subseteq Range(more)
                     \/ Len(more) + Cardinality(D) >= MAX_RESULTS
<1> DEFINE m == MatchesIn(f, scope)
           more == Searched(results, f, scope)
<1>1. /\ m \in Seq(Locations) /\ IsInjective(m) /\ Len(m) \in Nat
      /\ results \in Once /\ Len(results) \in Nat /\ MAX_RESULTS \in Nat /\ Cardinality(D) \in Nat
  <2>1. m \in Seq(Locations) /\ IsInjective(m)
    BY MatchesOfFile
  <2> HIDE DEF m
  <2> QED BY <2>1, UsagesAssumption, SizeIs, FS_CardinalityType
<1>2. CASE Len(results) >= MAX_RESULTS
  <2>1. more = results
    BY <1>2 DEF Searched
  <2> HIDE DEF more, m
  <2> QED BY <1>1, <1>2, <2>1 DEF more, m
<1>3. CASE ~(Len(results) >= MAX_RESULTS)
  <2> DEFINE n == MAX_RESULTS - Len(results)
             c == Cut(m, n)
  <2>1. n \in Nat /\ Len(results) + n = MAX_RESULTS
    BY <1>1, <1>3
  <2>2. more = PushEach(results, c)
    BY <1>3 DEF Searched, search_in_file
  <2> HIDE DEF more, m, n
  <2>3. /\ c \in Once /\ Len(c) = (IF Len(m) < n THEN Len(m) ELSE n) /\ Range(c) \subseteq Range(m)
        /\ Len(m) <= n => c = m
    BY <1>1, <2>1, CutIs, CutOf DEF Once
  <2> HIDE DEF c
  <2>4. Range(results) \intersect Range(c) \subseteq D
    BY <2>3 DEF m
  <2>5. /\ more \in Once /\ Range(more) = Range(results) \union Range(c)
        /\ Len(results) <= Len(more) /\ Len(results) + Len(c) <= Len(more) + Cardinality(D)
    BY <2>2, <2>3, <2>4, PushSize
  <2>6. Len(more) \in Nat
    BY <2>5, SizeIs
  <2>7. Range(m) \subseteq Range(more) \/ Len(more) + Cardinality(D) >= MAX_RESULTS
    <3>1. CASE Len(m) <= n
      BY <2>3, <2>5, <3>1
    <3>2. CASE ~(Len(m) <= n)
      <4>1. Len(c) = n
        BY <1>1, <2>1, <2>3, <3>2
      <4> QED BY <1>1, <2>1, <2>5, <2>6, <4>1
    <3> QED BY <3>1, <3>2
  <2> QED BY <2>3, <2>5, <2>7 DEF more, m
<1> QED BY <1>2, <1>3

\* The matches of the first files.
MatchesUpTo(F, scope, i) == UNION {Range(MatchesIn(F[j], scope)) : j \in 1..i}

(* What is found is a declaration or matches, and every match is found or the limit met. *)
LEMMA FoundIs ==
    ASSUME text \in TextOfFiles, NEW current, NEW scope, scope.kind # "local"
    PROVE  LET found == find_symbol_usages(current, scope)
               F == collect_candidate_files(current, scope)
               declared == Range(Listed(scope))
               matches == MatchesUpTo(F, scope, Len(F))
           IN  /\ Range(found) \subseteq declared \union matches
               /\ \A x \in matches :
                     x \in Range(found) \/ Cardinality(Range(found)) + Cardinality(declared) >= MAX_RESULTS
<1> DEFINE F == collect_candidate_files(current, scope)
           n == Len(F)
           D == Range(Listed(scope))
           M(i) == MatchesUpTo(F, scope, i)
<1>1. F \in Seq(TextFiles) /\ IsInjective(F)
  BY SearchedFiles
<1>2. PICK found : UsagesRun(F, scope, Listed(scope), found) /\ find_symbol_usages(current, scope) = found[n]
  BY ListedIs, UsagesAreLoop
<1>3. IsFiniteSet(D) /\ Cardinality(D) \in Nat /\ MAX_RESULTS \in Nat
  BY ListedIs, SizeIs, FS_CardinalityType, UsagesAssumption
<1> HIDE DEF F, D
<1>4. /\ n \in Nat /\ \A i \in 1..n : F[i] \in TextFiles
      /\ \A i, j \in 1..n : F[i] = F[j] => i = j
  BY <1>1, RangeIs
<1>5. /\ found \in [0..n -> Once] /\ found[0] = Listed(scope)
      /\ \A i \in 1..n : found[i] = Searched(found[i - 1], F[i], scope)
  BY <1>2 DEF UsagesRun
<1> DEFINE Good(i) == /\ Range(found[i]) \subseteq D \union M(i)
                      /\ M(i) \subseteq Range(found[i]) \/ Len(found[i]) + Cardinality(D) >= MAX_RESULTS
           good == {i \in 0..n : Good(i)}
<1> HIDE DEF n
<1>6. 0 \in good
  <2>1. 0 \in 0..n /\ 1..0 = {}
    BY <1>4
  <2>2. M(0) = {}
    BY <2>1 DEF MatchesUpTo
  <2> QED BY <1>5, <2>1, <2>2 DEF D
<1>7. ASSUME NEW i \in 1..n, i - 1 \in good PROVE i \in good
  <2>1. i \in 0..n /\ i - 1 \in 0..n /\ 1..i = (1..(i - 1)) \union {i}
        /\ \A j \in 1..(i - 1) : j \in 1..n /\ j # i
    BY <1>4
  <2> DEFINE old == found[i - 1]
             new == found[i]
             m == Range(MatchesIn(F[i], scope))
  <2>2. M(i) = M(i - 1) \union m
    BY <2>1 DEF MatchesUpTo
  <2>3. old \in Once /\ new \in Once /\ new = Searched(old, F[i], scope) /\ F[i] \in TextFiles
    BY <1>4, <1>5, <2>1
  <2>4. Good(i - 1)
    BY <1>7
  <2>5. M(i - 1) \intersect m = {}
    <3>1. \A f \in TextFiles : \A x \in Range(MatchesIn(f, scope)) : x.path = f
      <4> TAKE f \in TextFiles
      <4> TAKE x \in Range(MatchesIn(f, scope))
      <4>1. PICK k, c : x = Place(f, k, c)
        BY MatchesOfFile
      <4> QED BY <4>1, PlaceIs
    <3>2. \A j \in 1..(i - 1) : F[j] # F[i] /\ F[j] \in TextFiles
      BY <1>4, <2>1
    <3>3. \A j \in 1..(i - 1) : Range(MatchesIn(F[j], scope)) \intersect m = {}
      BY <2>3, <3>1, <3>2
    <3> QED BY <3>3 DEF MatchesUpTo
  <2> HIDE DEF M, new
  <2>6. Range(old) \intersect m \subseteq D
    BY <2>4, <2>5
  <2> HIDE DEF old
  <2>7. /\ Len(old) <= Len(new) /\ Range(old) \subseteq Range(new) /\ Range(new) \subseteq Range(old) \union m
        /\ m \subseteq Range(new) \/ Len(new) + Cardinality(D) >= MAX_RESULTS
    <3> HIDE DEF m
    <3>1. Range(old) \intersect Range(MatchesIn(F[i], scope)) \subseteq D
      BY <2>6 DEF m
    <3> QED BY <1>3, <2>3, <3>1, OneFileMore DEF m
  <2>8. Len(old) \in Nat /\ Len(new) \in Nat
    BY <2>3, SizeIs
  <2> HIDE DEF m
  <2>9. Range(old) \subseteq D \union M(i - 1) /\ (M(i - 1) \subseteq Range(old) \/ Len(old) + Cardinality(D) >= MAX_RESULTS)
    BY <2>4 DEF old
  <2>10. Range(new) \subseteq D \union M(i) /\ (M(i) \subseteq Range(new) \/ Len(new) + Cardinality(D) >= MAX_RESULTS)
    BY <1>3, <2>2, <2>7, <2>8, <2>9
  <2> QED BY <2>1, <2>10 DEF new
<1>8. Good(n) /\ found[n] \in Once
  <2> HIDE DEF Good
  <2>1. \A i \in 0..n : i \in good
    <3> HIDE DEF good
    <3> QED BY <1>4, <1>6, <1>7, NatInd
  <2>2. n \in 0..n
    BY <1>4
  <2> QED BY <1>5, <2>1, <2>2
<1>9. Cardinality(Range(found[n])) = Len(found[n])
  BY <1>8, SizeIs
<1> QED BY <1>2, <1>8, <1>9 DEF F, D, n

\* Two files that are searched share no place.
LEMMA MatchIs ==
    ASSUME text \in TextOfFiles, NEW current, NEW scope, scope.kind # "local",
           NEW f \in TextFiles, NEW k \in 1..Len(text[f]), NEW c \in DOMAIN text[f][k].uses,
           f \in Range(collect_candidate_files(current, scope))
    PROVE  LET F == collect_candidate_files(current, scope)
           IN  Place(f, k, c) \in MatchesUpTo(F, scope, Len(F)) <=> CountsAt(f, k, c, scope)
<1> DEFINE F == collect_candidate_files(current, scope)
<1>1. F \in Seq(TextFiles) /\ Range(F) = {F[i] : i \in 1..Len(F)}
  BY SearchedFiles, RangeIs
<1>2. PICK i \in 1..Len(F) : F[i] = f
  BY <1>1
<1> HIDE DEF F
<1>3. ASSUME CountsAt(f, k, c, scope) PROVE Place(f, k, c) \in MatchesUpTo(F, scope, Len(F))
  <2>1. Place(f, k, c) \in Range(MatchesIn(f, scope))
    BY <1>3, MatchesOfFile
  <2> QED BY <1>2, <2>1 DEF MatchesUpTo
<1>4. ASSUME Place(f, k, c) \in MatchesUpTo(F, scope, Len(F)) PROVE CountsAt(f, k, c, scope)
  <2>1. PICK j \in 1..Len(F) : Place(f, k, c) \in Range(MatchesIn(F[j], scope))
    BY <1>4 DEF MatchesUpTo
  <2>2. F[j] \in TextFiles
    BY <1>1
  <2>3. PICK l, b : CountsAt(F[j], l, b, scope) /\ Place(f, k, c) = Place(F[j], l, b)
    BY <2>1, <2>2, MatchesOfFile
  <2>4. f = F[j] /\ k = l /\ c = b
    BY <2>3, PlaceIs
  <2> QED BY <2>3, <2>4
<1> QED BY <1>3, <1>4 DEF F

\* With at most MAX_FILES files all candidates are searched.
LEMMA AllInOrder ==
    ASSUME NEW T, Cardinality(TextFiles) <= MAX_FILES
    PROVE  Range(Cut(InOrder(T), MAX_FILES)) = TextFiles \intersect T
<1> DEFINE s == InOrder(T)
           n == Len(s)
<1>1. s \in Seq(TextFiles) /\ IsInjective(s) /\ Range(s) = TextFiles \intersect T
  BY InOrderIs
<1> HIDE DEF s
<1>2. n \in Nat /\ DOMAIN s = 1..n
  BY <1>1
<1>3. IsFiniteSet(TextFiles)
  <2>1. Paths \in Seq(TextFiles) /\ TextFiles = {Paths[i] : i \in 1..Len(Paths)}
    <3>1. Paths \in Seq(TextFiles) /\ TextFiles = Range(Paths)
      BY UsagesAssumption DEF TextFiles
    <3>2. Range(Paths) = {Paths[i] : i \in 1..Len(Paths)}
      BY <3>1, RangeIs
    <3> QED BY <3>1, <3>2
  <2> DEFINE last == Len(Paths)
  <2>2. IsFiniteSet(1..Len(Paths))
    <3>1. 1 \in Int /\ last \in Int
      BY <2>1
    <3> HIDE DEF last
    <3>2. IsFiniteSet(1..last)
      BY <3>1, FS_Interval
    <3> QED BY <3>2 DEF last
  <2>3. Paths \in Surjection(1..Len(Paths), TextFiles)
    <3>1. Paths \in [1..Len(Paths) -> TextFiles]
      BY <2>1
    <3>2. \A x \in TextFiles : \E i \in 1..Len(Paths) : Paths[i] = x
      BY <2>1
    <3> QED BY <3>1, <3>2 DEF Surjection
  <2> QED BY <2>2, <2>3, FS_Surjection DEF ExistsSurjection
<1>4. n <= Cardinality(TextFiles)
  <2>1. s \in Injection(1..n, TextFiles)
    BY <1>1, <1>2 DEF Injection
  <2>2. IsFiniteSet(1..n) /\ Cardinality(1..n) = n
    <3> HIDE DEF n
    <3>1. IsFiniteSet(1..n) /\ Cardinality(1..n) = IF 1 > n THEN 0 ELSE n - 1 + 1
      BY <1>2, FS_Interval
    <3> QED BY <1>2, <3>1
  <2>3. Cardinality(1..n) <= Cardinality(TextFiles)
    BY <1>3, <2>1, FS_Injection DEF ExistsInjection
  <2> QED BY <2>2, <2>3
<1>5. n <= MAX_FILES /\ MAX_FILES \in Nat
  <2>1. MAX_FILES \in Nat /\ Cardinality(TextFiles) \in Nat
    BY <1>3, FS_CardinalityType, UsagesAssumption
  <2> HIDE DEF n
  <2> QED BY <1>2, <1>4, <2>1
<1>6. Cut(s, MAX_FILES) = s
  BY <1>1, <1>5, CutOf
<1> QED BY <1>1, <1>6 DEF s

(* A scope only narrows. *)
LEMMA ScopeNarrows ==
    ASSUME text \in TextOfFiles, NEW current, NEW scope \in MemberScopes, Cardinality(TextFiles) <= MAX_FILES,
           NEW f \in Range(collect_candidate_files(current, scope))
    PROVE  /\ f \in TextFiles /\ f \in Range(collect_candidate_files(current, NoScope))
           /\ Range(MatchesIn(f, scope)) \subseteq Range(MatchesIn(f, NoScope))
<1>1. scope.kind = "member" /\ scope.owner \in Classes
  BY CursorAssumption DEF MemberScope
<1> DEFINE T == Candidates(find_member_definition_file_ids(scope.owner), current)
           all == Candidates(find_symbol_definition_file_ids \union find_symbol_call_file_ids, current)
<1>2. collect_candidate_files(current, scope) = Cut(InOrder(T), MAX_FILES)
  BY <1>1 DEF collect_candidate_files
<1>3. collect_candidate_files(current, NoScope) = Cut(InOrder(IF all = {} THEN TextFiles ELSE all), MAX_FILES)
  BY DEF collect_candidate_files, collect_unresolved_candidate_files, NoScope
<1>4. T \subseteq all
  <2>1. find_member_definition_file_ids(scope.owner) \subseteq find_symbol_definition_file_ids
    BY <1>1 DEF find_symbol_definition_file_ids
  <2> HIDE DEF all, T
  <2> QED BY <2>1 DEF Candidates, find_including_file_ids, all, T
<1> HIDE DEF T, all
<1>5. f \in TextFiles /\ f \in T
  BY <1>2, AllInOrder
<1>6. f \in Range(collect_candidate_files(current, NoScope))
  <2>1. Range(Cut(InOrder(all), MAX_FILES)) = TextFiles \intersect all
    BY AllInOrder
  <2> QED BY <1>3, <1>4, <1>5, <2>1
<1>7. ASSUME NEW x \in Range(MatchesIn(f, scope)) PROVE x \in Range(MatchesIn(f, NoScope))
  <2>1. PICK k \in 1..Len(text[f]) : \E c \in DOMAIN text[f][k].uses : CountsAt(f, k, c, scope) /\ x = Place(f, k, c)
    BY <1>5, <1>7, MatchesOfFile
  <2>2. PICK c \in DOMAIN text[f][k].uses : CountsAt(f, k, c, scope) /\ x = Place(f, k, c)
    BY <2>1
  <2>3. CountsAt(f, k, c, NoScope)
    BY <2>2 DEF CountsAt, Counts, should_emit_match, NoScope
  <2> QED BY <1>5, <2>2, <2>3, MatchesOfFile
<1> QED BY <1>5, <1>6, <1>7

\* The property holds of any texts of the files.
LEMMA MemberUsagesAreFound ==
    ASSUME text \in TextOfFiles
    PROVE  MemberUsagesFound
<1> SUFFICES ASSUME NEW scope \in MemberScopes, NEW current \in Currents
             PROVE  LET found == Range(find_symbol_usages(current, scope))
                        searched == Range(collect_candidate_files(current, scope))
                        Unqualified(f) ==
                            {u \in UNION {{k} \X DOMAIN text[f][k].uses : k \in DOMAIN text[f]} :
                                LET use == text[f][u[1]].uses[u[2]] IN use.code /\ use.op = "none"}
                        Calls(f, k) == \E j \in 1..k : text[f][j].head \in candidate_classes(scope)
                                                        /\ text[f][j].open = 0
                        declared == Range(get_member_declaration_results(scope.owner))
                    IN  /\ \A f \in searched : WellFormed(text[f]) =>
                              \A u \in Unqualified(f) :
                                 LET here == [path |-> f, line |-> u[1], col |-> u[2]]
                                     inside == MethodOf(text[f], u[1]) \in candidate_classes(scope)
                                 IN  /\ inside => here \in found
                                            \/ Cardinality(found) + Cardinality(declared) >= MAX_RESULTS
                                     /\ here \in found \ declared => inside \/ Calls(f, u[1])
                        /\ Cardinality(TextFiles) <= MAX_FILES =>
                              found \ declared \subseteq
                                 UNION {Range(MatchesIn(f, NoScope)) :
                                           f \in Range(collect_candidate_files(current, NoScope))}
  BY DEF MemberUsagesFound
<1> DEFINE F == collect_candidate_files(current, scope)
           searched == Range(F)
           found == Range(find_symbol_usages(current, scope))
           declared == Range(get_member_declaration_results(scope.owner))
           classes == candidate_classes(scope)
           matches == MatchesUpTo(F, scope, Len(F))
<1>1. scope.kind = "member"
  BY CursorAssumption DEF MemberScope
<1>2. declared = Range(Listed(scope))
  BY <1>1 DEF Listed
<1>3. /\ found \subseteq declared \union matches
      /\ \A x \in matches : x \in found \/ Cardinality(found) + Cardinality(declared) >= MAX_RESULTS
  BY <1>1, <1>2, FoundIs
<1>4. F \in Seq(TextFiles) /\ searched \subseteq TextFiles /\ searched = {F[i] : i \in 1..Len(F)}
  <2>1. F \in Seq(TextFiles)
    BY <1>1, SearchedFiles
  <2> HIDE DEF F
  <2> QED BY <2>1, RangeIs
<1> HIDE DEF found, declared, F, classes
<1>5. NoClass \notin classes
  BY DEF classes, candidate_classes
<1>6. ASSUME NEW f \in searched, WellFormed(text[f]), NEW k \in DOMAIN text[f],
             NEW c \in DOMAIN text[f][k].uses, text[f][k].uses[c].code, text[f][k].uses[c].op = "none"
      PROVE  /\ MethodOf(text[f], k) \in classes =>
                   Place(f, k, c) \in found \/ Cardinality(found) + Cardinality(declared) >= MAX_RESULTS
             /\ Place(f, k, c) \in found \ declared =>
                   MethodOf(text[f], k) \in classes
                     \/ \E j \in 1..k : text[f][j].head \in classes /\ text[f][j].open = 0
  <2>1. f \in TextFiles /\ text[f] \in Seq(Lines) /\ k \in 1..Len(text[f])
    <3>1. f \in TextFiles
      BY <1>4
    <3>2. text[f] \in Seq(Lines)
      BY <3>1 DEF TextOfFiles
    <3> QED BY <3>1, <3>2
  <2>2. Place(f, k, c) \in matches <=> CountsAt(f, k, c, scope)
    <3>1. f \in Range(collect_candidate_files(current, scope))
      BY DEF F
    <3> QED BY <1>1, <2>1, <3>1, MatchIs DEF F
  <2>3. CountsAt(f, k, c, scope) <=> InBody(text[f], k, classes)
    BY <1>1, <1>6 DEF CountsAt, Counts, should_emit_match, classes
  <2> HIDE DEF matches
  <2>4. ASSUME MethodOf(text[f], k) \in classes
        PROVE  Place(f, k, c) \in found \/ Cardinality(found) + Cardinality(declared) >= MAX_RESULTS
    <3>1. InBody(text[f], k, classes)
      BY <1>5, <1>6, <2>1, <2>4, InsideIsInBody
    <3> QED BY <1>3, <2>2, <2>3, <3>1
  <2>5. ASSUME Place(f, k, c) \in found \ declared,
               \A j \in 1..k : text[f][j].head \in classes => text[f][j].open # 0
        PROVE  MethodOf(text[f], k) \in classes
    <3>1. InBody(text[f], k, classes)
      BY <1>3, <2>2, <2>3, <2>5
    <3> QED BY <1>5, <1>6, <2>1, <2>5, <3>1, InBodyIsInside
  <2> QED BY <2>4, <2>5
<1>7. ASSUME Cardinality(TextFiles) <= MAX_FILES, NEW x \in found \ declared
      PROVE  \E f \in Range(collect_candidate_files(current, NoScope)) : x \in Range(MatchesIn(f, NoScope))
  <2>1. x \in matches
    BY <1>3
  <2>2. PICK i \in 1..Len(F) : x \in Range(MatchesIn(F[i], scope))
    BY <2>1 DEF MatchesUpTo
  <2>3. F[i] \in Range(collect_candidate_files(current, scope))
    BY <1>4 DEF F
  <2> DEFINE f == F[i]
  <2> HIDE DEF f
  <2>4. f \in Range(collect_candidate_files(current, NoScope))
        /\ Range(MatchesIn(f, scope)) \subseteq Range(MatchesIn(f, NoScope))
    BY <1>7, <2>3, ScopeNarrows DEF f
  <2> QED BY <2>2, <2>4 DEF f
<1>8. \A f \in searched : WellFormed(text[f]) =>
        \A u \in {u \in UNION {{k} \X DOMAIN text[f][k].uses : k \in DOMAIN text[f]} :
                    LET use == text[f][u[1]].uses[u[2]] IN use.code /\ use.op = "none"} :
           LET here == [path |-> f, line |-> u[1], col |-> u[2]]
               inside == MethodOf(text[f], u[1]) \in classes
           IN  /\ inside => here \in found \/ Cardinality(found) + Cardinality(declared) >= MAX_RESULTS
               /\ here \in found \ declared =>
                     inside \/ \E j \in 1..u[1] : text[f][j].head \in classes /\ text[f][j].open = 0
  <2> SUFFICES ASSUME NEW f \in searched, WellFormed(text[f]), NEW k \in DOMAIN text[f],
                      NEW c \in DOMAIN text[f][k].uses,
                      text[f][k].uses[c].code, text[f][k].uses[c].op = "none"
               PROVE  /\ MethodOf(text[f], k) \in classes =>
                            Place(f, k, c) \in found \/ Cardinality(found) + Cardinality(declared) >= MAX_RESULTS
                      /\ Place(f, k, c) \in found \ declared =>
                            MethodOf(text[f], k) \in classes
                              \/ \E j \in 1..k : text[f][j].head \in classes /\ text[f][j].open = 0
    BY DEF Place
  <2> QED BY <1>6
<1> QED BY <1>7, <1>8 DEF found, declared, F, classes

(* However the files grow: in a file of methods that is searched, every unqualified use in
   a method of the member's class, or of the class around the cursor, is found until the
   limit is met; one found elsewhere comes behind a call of one of these classes; and a
   scope only narrows what is found, unless MAX_FILES cut the candidates. So the lines
   that collect_method_ranges takes for bodies by counting braces are those of the
   methods. *)
THEOREM MemberUsagesAlwaysFound == UsagesSpec => []MemberUsagesFound
<1>1. UsagesSpec => [](text \in TextOfFiles)
  BY TextsAreFiles
<1>2. text \in TextOfFiles => MemberUsagesFound
  BY MemberUsagesAreFound
<1> QED BY <1>1, <1>2, PTL

-----------------------------------------------------------------------------
\* Sequences that begin alike.

\* Of two cuts the shorter one counts.
LEMMA CutOfCut ==
    ASSUME NEW V, NEW s \in Seq(V), NEW n \in Nat, NEW m \in Nat
    PROVE  /\ m <= n => Cut(Cut(s, n), m) = Cut(s, m)
           /\ n <= m => Cut(Cut(s, n), m) = Cut(s, n)
<1> DEFINE c == Cut(s, n)
           d == Cut(c, m)
           e == Cut(s, m)
<1>1. /\ c \in Seq(V) /\ Len(c) = IF Len(s) < n THEN Len(s) ELSE n
      /\ \A i \in 1..Len(c) : c[i] = s[i]
  BY CutIs
<1> HIDE DEF c
<1>2. /\ d \in Seq(V) /\ Len(d) = IF Len(c) < m THEN Len(c) ELSE m
      /\ \A i \in 1..Len(d) : d[i] = c[i]
  BY <1>1, CutIs
<1>3. /\ e \in Seq(V) /\ Len(e) = IF Len(s) < m THEN Len(s) ELSE m
      /\ \A i \in 1..Len(e) : e[i] = s[i]
  BY CutIs
<1> HIDE DEF d, e
<1>4. Len(s) \in Nat /\ Len(c) \in Nat
  BY <1>1
<1>5. ASSUME m <= n PROVE d = e
  <2>1. Len(d) = Len(e) /\ Len(d) <= Len(c) /\ Len(d) \in Nat
    BY <1>1, <1>2, <1>3, <1>4, <1>5
  <2>2. \A i \in 1..Len(d) : i \in 1..Len(c)
    BY <1>4, <2>1
  <2>3. \A i \in 1..Len(d) : d[i] = e[i]
    BY <1>1, <1>2, <1>3, <2>1, <2>2
  <2> QED BY <1>2, <1>3, <2>1, <2>3, SameSeq
<1>6. ASSUME n <= m PROVE d = c
  <2>1. Len(c) <= m
    BY <1>1, <1>4, <1>6
  <2> QED BY <1>1, <2>1, CutOf DEF d
<1> QED BY <1>5, <1>6 DEF d, e, c

\* What agrees up to n, put together with what agrees up to n, agrees up to n.
LEMMA CutAgrees ==
    ASSUME NEW V, NEW a \in Seq(V), NEW b \in Seq(V), NEW c \in Seq(V), NEW e \in Seq(V), NEW n \in Nat,
           Cut(a, n) = Cut(b, n), Cut(c, n) = Cut(e, n)
    PROVE  Cut(a \o c, n) = Cut(b \o e, n)
<1>1. Len(a) \in Nat /\ Len(b) \in Nat
  OBVIOUS
<1>2. (IF Len(a) < n THEN Len(a) ELSE n) = (IF Len(b) < n THEN Len(b) ELSE n)
  BY CutIs
<1>3. CASE Len(a) >= n
  <2>1. Len(b) >= n
    BY <1>1, <1>2, <1>3
  <2> QED BY <1>3, <2>1, CutConcat
<1>4. CASE Len(a) < n
  <2>1. Len(b) = Len(a) /\ Len(a) <= n /\ Len(b) <= n
    BY <1>1, <1>2, <1>4
  <2>2. a = b
    BY <2>1, CutOf
  <2> DEFINE m == n - Len(a)
  <2>3. m \in Nat /\ m <= n
    BY <1>1, <1>4
  <2>4. \A x \in Seq(V) : Cut(a \o x, n) = a \o Cut(x, m)
    <3> TAKE x \in Seq(V)
    <3>1. Len(a) <= n
      BY <2>1
    <3> HIDE <1>4, <2>1
    <3> QED BY <3>1, CutConcat
  <2> HIDE DEF m
  <2>5. Cut(c, m) = Cut(Cut(c, n), m) /\ Cut(e, m) = Cut(Cut(e, n), m)
    BY <2>3, CutOfCut
  <2>6. Cut(c, m) = Cut(e, m)
    BY <2>5
  <2>7. Cut(a \o c, n) = a \o Cut(c, m) /\ Cut(a \o e, n) = a \o Cut(e, m)
    BY <2>4
  <2> QED BY <2>2, <2>6, <2>7
<1> QED BY <1>1, <1>3, <1>4

(* A page depends on what there is up to its end only. *)
LEMMA PageAgrees ==
    ASSUME NEW V, NEW s \in Seq(V), NEW t \in Seq(V), NEW a \in Nat, NEW k \in Nat,
           Cut(s, a + k) = Cut(t, a + k)
    PROVE  Cut(After(s, a), k) = Cut(After(t, a), k)
<1> DEFINE w == Cut(s, a + k)
           p(x) == Cut(After(x, a), k)
<1>1. a + k \in Nat
  OBVIOUS
<1>2. /\ w \in Seq(V) /\ Len(w) = IF Len(s) < a + k THEN Len(s) ELSE a + k
      /\ \A i \in 1..Len(w) : w[i] = s[i]
  BY <1>1, CutIs
<1>3. /\ Len(w) = IF Len(t) < a + k THEN Len(t) ELSE a + k
      /\ \A i \in 1..Len(w) : w[i] = t[i]
  BY <1>1, CutIs
<1> HIDE DEF w
<1>4. ASSUME NEW x \in Seq(V), Len(w) = (IF Len(x) < a + k THEN Len(x) ELSE a + k),
             \A i \in 1..Len(w) : w[i] = x[i]
      PROVE  /\ p(x) \in Seq(V) /\ Len(p(x)) = IF a < Len(w) THEN Len(w) - a ELSE 0
             /\ \A i \in 1..Len(p(x)) : p(x)[i] = w[a + i]
  <2> DEFINE z == After(x, a)
             y == Cut(z, k)
  <2>1. /\ z \in Seq(V) /\ Len(z) = IF a < Len(x) THEN Len(x) - a ELSE 0
        /\ \A i \in 1..Len(z) : z[i] = x[a + i]
    BY AfterIs DEF After
  <2> HIDE DEF z
  <2>2. /\ y \in Seq(V) /\ Len(y) = IF Len(z) < k THEN Len(z) ELSE k
        /\ \A i \in 1..Len(y) : y[i] = z[i]
    BY <2>1, CutIs
  <2> HIDE DEF y
  <2>3. Len(x) \in Nat
    OBVIOUS
  <2>4. Len(y) = IF a < Len(w) THEN Len(w) - a ELSE 0
    BY <1>4, <2>1, <2>2, <2>3
  <2>5. ASSUME NEW i \in 1..Len(y) PROVE y[i] = w[a + i]
    <3>1. i \in 1..Len(z) /\ a + i \in 1..Len(w)
      BY <1>4, <2>1, <2>2, <2>3, <2>4
    <3> QED BY <1>4, <2>1, <2>2, <3>1
  <2> QED BY <2>2, <2>4, <2>5 DEF y, z
<1>5. /\ p(s) \in Seq(V) /\ Len(p(s)) = IF a < Len(w) THEN Len(w) - a ELSE 0
      /\ \A i \in 1..Len(p(s)) : p(s)[i] = w[a + i]
  BY <1>2, <1>4
<1>6. /\ p(t) \in Seq(V) /\ Len(p(t)) = IF a < Len(w) THEN Len(w) - a ELSE 0
      /\ \A i \in 1..Len(p(t)) : p(t)[i] = w[a + i]
  BY <1>3, <1>4
<1> DEFINE x == p(s)
           y == p(t)
<1> HIDE DEF p
<1>7. x \in Seq(V) /\ y \in Seq(V) /\ Len(x) = Len(y)
  BY <1>5, <1>6
<1>8. \A i \in 1..Len(x) : x[i] = y[i]
  BY <1>5, <1>6, <1>7
<1>9. x = y
  <2> HIDE DEF x, y
  <2> QED BY <1>7, <1>8, SameSeq
<1> QED BY <1>9 DEF p

-----------------------------------------------------------------------------
\* Results that are told apart stay as they are.

ToldApart(s) == \A i, j \in 1..Len(s) : Identity(s[i]) = Identity(s[j]) => i = j

\* dedupe_find_results drops nothing of results that are told apart.
LEMMA DedupeIs ==
    ASSUME NEW V, NEW s \in Seq(V), ToldApart(s)
    PROVE  dedupe_find_results(s) = s
<1> DEFINE n == Len(s)
           Seen(x, y) == \E i \in DOMAIN x : Identity(x[i]) = Identity(y)
           More(x, y) == IF Seen(x, y) THEN x ELSE Append(x, y)
           r == CHOOSE kept : kept = [i \in 0..n |-> IF i = 0 THEN << >> ELSE More(kept[i - 1], s[i])]
           acc == [i \in 0..n |-> Cut(s, i)]
<1>1. dedupe_find_results(s) = r[n]
  BY DEF dedupe_find_results
<1>2. n \in Nat /\ Cut(s, 0) = << >> /\ Cut(s, n) = s
  BY CutOf
<1>3. ASSUME NEW i \in 1..n PROVE Cut(s, i) = More(Cut(s, i - 1), s[i])
  <2> DEFINE c == Cut(s, i - 1)
  <2>1. i - 1 \in Nat /\ i - 1 <= n /\ i \in Nat /\ i # 0 /\ \A j \in 1..(i - 1) : j \in 1..n /\ j # i
    BY <1>2
  <2>2. c \in Seq(V) /\ Len(c) = i - 1 /\ \A j \in 1..(i - 1) : c[j] = s[j]
    <3>1. c \in Seq(V) /\ Len(c) = (IF Len(s) < i - 1 THEN Len(s) ELSE i - 1)
          /\ \A j \in 1..Len(c) : c[j] = s[j]
      BY <2>1, CutIs
    <3>2. Len(c) = i - 1
      BY <1>2, <2>1, <3>1
    <3> QED BY <3>1, <3>2
  <2>3. Cut(s, i) = Append(c, s[i])
    BY CutStep
  <2> HIDE DEF c
  <2>4. DOMAIN c = 1..(i - 1)
    BY <2>2
  <2>5. ~Seen(c, s[i])
    <3> SUFFICES ASSUME NEW j \in 1..(i - 1), Identity(c[j]) = Identity(s[i]) PROVE FALSE
      BY <2>4
    <3>1. j \in 1..n /\ j # i /\ c[j] = s[j]
      BY <2>1, <2>2
    <3> QED BY <3>1 DEF ToldApart
  <2> HIDE DEF Seen
  <2>6. More(c, s[i]) = Append(c, s[i])
    BY <2>5
  <2> QED BY <2>3, <2>6 DEF c
<1> HIDE DEF More, n
<1>4. 0 \in 0..n /\ n \in 0..n /\ (\A i \in 1..n : i \in 0..n /\ i # 0 /\ i - 1 \in 0..n)
      /\ \A i \in 0..n : i # 0 => i \in 1..n
  BY <1>2
<1>5. /\ \A i \in 0..n : acc[i] = Cut(s, i)
      /\ acc = [i \in 0..n |-> acc[i]]
  OBVIOUS
<1> HIDE DEF acc
<1>6. \A i \in 0..n : acc[i] = IF i = 0 THEN << >> ELSE More(acc[i - 1], s[i])
  <2> TAKE i \in 0..n
  <2>1. CASE i = 0
    BY <1>2, <1>5, <2>1
  <2>2. CASE i # 0
    <3>1. i \in 1..n /\ acc[i] = Cut(s, i) /\ acc[i - 1] = Cut(s, i - 1)
      BY <1>4, <1>5, <2>2
    <3> QED BY <1>3, <2>2, <3>1
  <2> QED BY <2>1, <2>2
<1>7. acc = [i \in 0..n |-> IF i = 0 THEN << >> ELSE More(acc[i - 1], s[i])]
  BY <1>5, <1>6
<1>8. r = [i \in 0..n |-> IF i = 0 THEN << >> ELSE More(r[i - 1], s[i])]
  BY <1>7
<1> HIDE DEF r
<1>9. r[0] = << >> /\ acc[0] = << >> /\ \A i \in 1..n : r[i - 1] = acc[i - 1] => r[i] = acc[i]
  BY <1>4, <1>6, <1>8
<1>10. r[n] = acc[n]
  BY <1>2, <1>9, SameRuns
<1> QED BY <1>1, <1>2, <1>4, <1>5, <1>10

-----------------------------------------------------------------------------
\* What holds of sequences that grow at their end.

\* What holds of the empty sequence and is kept by appending holds of all sequences.
LEMMA SeqInd ==
    ASSUME NEW V, NEW G, << >> \in G, \A s \in Seq(V), x \in V : s \in G => Append(s, x) \in G
    PROVE  Seq(V) \subseteq G
<1> SUFFICES ASSUME NEW s \in Seq(V) PROVE s \in G
  OBVIOUS
<1> DEFINE n == Len(s)
           good == {i \in 0..n : Cut(s, i) \in G}
<1>1. n \in Nat /\ Cut(s, 0) = << >> /\ Cut(s, n) = s
  BY CutOf
<1>2. 0 \in good
  BY <1>1
<1>3. ASSUME NEW i \in 1..n, i - 1 \in good PROVE i \in good
  <2>1. i \in 0..n /\ i - 1 \in Nat
    BY <1>1
  <2> DEFINE c == Cut(s, i - 1)
             x == s[i]
  <2>2. c \in Seq(V)
    BY <2>1, CutIs
  <2>3. Cut(s, i) = Append(c, x)
    BY CutStep
  <2>4. x \in V /\ c \in G
    BY <1>1, <1>3
  <2> HIDE DEF c, x
  <2>5. Append(c, x) \in G
    BY <2>2, <2>4
  <2> QED BY <2>1, <2>3, <2>5
<1>4. n \in good
  <2> HIDE DEF n, good
  <2>1. \A i \in 0..n : i \in good
    BY <1>1, <1>2, <1>3, NatInd
  <2> QED BY <1>1, <2>1
<1> QED BY <1>1, <1>4

\* The items of a sequence with one more.
LEMMA AppendAt ==
    ASSUME NEW V, NEW s \in Seq(V), NEW x \in V
    PROVE  /\ Append(s, x) \in Seq(V) /\ Len(Append(s, x)) = Len(s) + 1 /\ Len(s) \in Nat
           /\ Append(s, x)[Len(s) + 1] = x /\ \A i \in 1..Len(s) : Append(s, x)[i] = s[i]
  OBVIOUS

\* KeepIn decides item by item.
LEMMA KeepAppend ==
    ASSUME NEW V, NEW s \in Seq(V), NEW x \in V, NEW S
    PROVE  KeepIn(Append(s, x), S) = IF x \in S THEN Append(KeepIn(s, S), x) ELSE KeepIn(s, S)
<1> DEFINE t == Append(s, x)
           n == Len(s)
<1>1. t \in Seq(V) /\ Len(t) = n + 1 /\ n \in Nat /\ t[n + 1] = x /\ \A i \in 1..n : t[i] = s[i]
  BY AppendAt
<1> HIDE DEF t, n
<1>2. PICK f : KeepRun(V, s, S, f)
  BY KeepIsLoop
<1>3. PICK g : KeepRun(V, t, S, g)
  BY <1>1, KeepIsLoop
<1>4. n + 1 \in 1..Len(t) /\ (n + 1) - 1 = n /\ \A i \in 1..n : i \in 1..Len(t)
  BY <1>1
<1>5. /\ f[0] = << >> /\ KeepIn(s, S) = f[n]
      /\ \A i \in 1..n : f[i] = IF s[i] \in S THEN Append(f[i - 1], s[i]) ELSE f[i - 1]
  BY <1>2 DEF KeepRun, n
<1>6. /\ g[0] = << >> /\ KeepIn(t, S) = g[n + 1]
      /\ \A i \in 1..n : g[i] = IF s[i] \in S THEN Append(g[i - 1], s[i]) ELSE g[i - 1]
      /\ g[n + 1] = IF x \in S THEN Append(g[n], x) ELSE g[n]
  <2>1. \A i \in 1..Len(t) : g[i] = IF t[i] \in S THEN Append(g[i - 1], t[i]) ELSE g[i - 1]
    BY <1>3 DEF KeepRun
  <2>2. g[n + 1] = IF t[n + 1] \in S THEN Append(g[(n + 1) - 1], t[n + 1]) ELSE g[(n + 1) - 1]
    BY <1>4, <2>1
  <2>3. \A i \in 1..n : g[i] = IF s[i] \in S THEN Append(g[i - 1], s[i]) ELSE g[i - 1]
    BY <1>1, <1>4, <2>1
  <2> QED BY <1>1, <1>3, <1>4, <2>2, <2>3 DEF KeepRun
<1>7. f[n] = g[n]
  <2>1. \A i \in 1..n : f[i - 1] = g[i - 1] => f[i] = g[i]
    BY <1>5, <1>6
  <2> QED BY <1>1, <1>5, <1>6, <2>1, SameRuns
<1> QED BY <1>5, <1>6, <1>7 DEF t

\* Of nothing nothing is kept.
LEMMA KeepEmpty ==
    ASSUME NEW S PROVE KeepIn(<< >>, S) = << >>
<1> DEFINE e == << >>
<1>1. e \in Seq({}) /\ Len(e) = 0
  OBVIOUS
<1> HIDE DEF e
<1>2. PICK f : KeepRun({}, e, S, f)
  BY <1>1, KeepIsLoop
<1>3. f[0] = << >> /\ KeepIn(e, S) = f[0]
  BY <1>1, <1>2 DEF KeepRun
<1> QED BY <1>3 DEF e

\* Appending to the second of two sequences.
LEMMA AppendConcat ==
    ASSUME NEW V, NEW x \in V
    PROVE  \A a, b \in Seq(V) : Append(a \o b, x) = a \o Append(b, x)
  OBVIOUS

\* KeepIn of two sequences put together.
LEMMA KeepConcat ==
    ASSUME NEW V, NEW s \in Seq(V), NEW S
    PROVE  \A t \in Seq(V) : KeepIn(s \o t, S) = KeepIn(s, S) \o KeepIn(t, S)
<1> DEFINE G == {t \in Seq(V) : KeepIn(s \o t, S) = KeepIn(s, S) \o KeepIn(t, S)}
<1>1. << >> \in G
  <2>1. s \o << >> = s /\ KeepIn(s, S) \o << >> = KeepIn(s, S)
    <3>1. KeepIn(s, S) \in Seq(V)
      BY KeepIs
    <3> QED BY <3>1
  <2>2. KeepIn(<< >>, S) = << >> /\ << >> \in Seq(V)
    BY KeepEmpty
  <2>3. KeepIn(s \o << >>, S) = KeepIn(s, S) \o KeepIn(<< >>, S)
    BY <2>1, <2>2
  <2> QED BY <2>2, <2>3
<1>2. ASSUME NEW t \in Seq(V), NEW x \in V, t \in G PROVE Append(t, x) \in G
  <2> DEFINE a == KeepIn(s, S)
             b == KeepIn(t, S)
             w == s \o t
  <2>1. a \in Seq(V) /\ b \in Seq(V) /\ w \in Seq(V)
    BY KeepIs
  <2>2. KeepIn(w, S) = a \o b
    BY <1>2
  <2>3. s \o Append(t, x) = Append(w, x)
    OBVIOUS
  <2> HIDE DEF w, a, b
  <2>4. KeepIn(Append(w, x), S) = IF x \in S THEN Append(a \o b, x) ELSE a \o b
    BY <2>1, <2>2, KeepAppend
  <2>5. Append(a \o b, x) = a \o Append(b, x)
    BY <2>1, AppendConcat
  <2>6. KeepIn(Append(t, x), S) = IF x \in S THEN Append(b, x) ELSE b
    BY KeepAppend DEF b
  <2>7. KeepIn(s \o Append(t, x), S) = a \o KeepIn(Append(t, x), S)
    BY <2>3, <2>4, <2>5, <2>6
  <2>8. Append(t, x) \in Seq(V)
    BY AppendAt
  <2> QED BY <2>7, <2>8 DEF a
<1> HIDE DEF G
<1>3. Seq(V) \subseteq G
  BY <1>1, <1>2, SeqInd
<1> QED BY <1>3 DEF G

\* KeepIn keeps all, nothing, or what another set keeps.
LEMMA KeepSome ==
    ASSUME NEW V, NEW S, NEW T
    PROVE  \A s \in Seq(V) :
              /\ Range(s) \subseteq S => KeepIn(s, S) = s
              /\ Range(s) \intersect S = {} => KeepIn(s, S) = << >>
              /\ Range(s) \intersect S = Range(s) \intersect T => KeepIn(s, S) = KeepIn(s, T)
<1> DEFINE Good(s) == /\ Range(s) \subseteq S => KeepIn(s, S) = s
                      /\ Range(s) \intersect S = {} => KeepIn(s, S) = << >>
                      /\ Range(s) \intersect S = Range(s) \intersect T => KeepIn(s, S) = KeepIn(s, T)
           G == {s \in Seq(V) : Good(s)}
<1>1. << >> \in G
  <2>1. << >> \in Seq(V) /\ Range(<< >>) = {}
    BY EmptyIs
  <2>2. KeepIn(<< >>, S) = << >> /\ KeepIn(<< >>, T) = << >>
    BY KeepEmpty
  <2> QED BY <2>1, <2>2
<1>2. ASSUME NEW s \in Seq(V), NEW x \in V, s \in G PROVE Append(s, x) \in G
  <2> DEFINE t == Append(s, x)
  <2>1. t \in Seq(V) /\ Range(t) = Range(s) \union {x}
    BY AppendIs
  <2>2. /\ KeepIn(t, S) = IF x \in S THEN Append(KeepIn(s, S), x) ELSE KeepIn(s, S)
        /\ KeepIn(t, T) = IF x \in T THEN Append(KeepIn(s, T), x) ELSE KeepIn(s, T)
    BY KeepAppend
  <2>3. Good(s)
    BY <1>2
  <2> HIDE DEF t
  <2>4. Range(t) \subseteq S => KeepIn(t, S) = t
    <3> HAVE Range(t) \subseteq S
    <3>1. x \in S /\ KeepIn(s, S) = s
      BY <2>1, <2>3
    <3> QED BY <2>2, <3>1 DEF t
  <2>5. Range(t) \intersect S = {} => KeepIn(t, S) = << >>
    <3> HAVE Range(t) \intersect S = {}
    <3>1. x \notin S /\ KeepIn(s, S) = << >>
      BY <2>1, <2>3
    <3> QED BY <2>2, <3>1
  <2>6. Range(t) \intersect S = Range(t) \intersect T => KeepIn(t, S) = KeepIn(t, T)
    <3> HAVE Range(t) \intersect S = Range(t) \intersect T
    <3>1. (x \in S <=> x \in T) /\ Range(s) \intersect S = Range(s) \intersect T
      BY <2>1
    <3>2. KeepIn(s, S) = KeepIn(s, T)
      BY <2>3, <3>1
    <3> DEFINE u == KeepIn(s, S)
    <3> HIDE DEF u
    <3>3. KeepIn(t, S) = (IF x \in S THEN Append(u, x) ELSE u) /\ KeepIn(t, T) = (IF x \in T THEN Append(u, x) ELSE u)
      BY <2>2, <3>2 DEF u
    <3> QED BY <3>1, <3>3
  <2> QED BY <2>1, <2>4, <2>5, <2>6 DEF t
<1> HIDE DEF G
<1>3. Seq(V) \subseteq G
  BY <1>1, <1>2, SeqInd
<1> QED BY <1>3 DEF G

\* FlattenSeq adds the last sequence last.
LEMMA FlattenAppend ==
    ASSUME NEW V, NEW q \in Seq(Seq(V)), NEW x \in Seq(V)
    PROVE  FlattenSeq(Append(q, x)) = FlattenSeq(q) \o x /\ FlattenSeq(q) \in Seq(V)
<1> DEFINE t == Append(q, x)
           n == Len(q)
<1>1. t \in Seq(Seq(V)) /\ Len(t) = n + 1 /\ n \in Nat /\ t[n + 1] = x /\ \A i \in 1..n : t[i] = q[i]
  BY AppendAt
<1> HIDE DEF t, n
<1>2. PICK f : FlatRun(V, q, f)
  BY FlattenIsLoop
<1>3. PICK g : FlatRun(V, t, g)
  BY <1>1, FlattenIsLoop
<1>4. n + 1 \in 1..Len(t) /\ (n + 1) - 1 = n /\ n \in 0..n /\ \A i \in 1..n : i \in 1..Len(t)
  BY <1>1
<1>5. /\ f[0] = << >> /\ FlattenSeq(q) = f[n] /\ f[n] \in Seq(V)
      /\ \A i \in 1..n : f[i] = f[i - 1] \o q[i]
  BY <1>2, <1>4 DEF FlatRun, n
<1>6. \A i \in 1..Len(t) : g[i] = g[i - 1] \o t[i]
  BY <1>3 DEF FlatRun
<1>7. g[0] = << >> /\ FlattenSeq(t) = g[n + 1] /\ g[n + 1] = g[n] \o x
  <2>1. g[n + 1] = g[(n + 1) - 1] \o t[n + 1]
    BY <1>4, <1>6
  <2>2. g[0] = << >> /\ FlattenSeq(t) = g[n + 1]
    BY <1>1, <1>3 DEF FlatRun
  <2> QED BY <1>1, <1>4, <2>1, <2>2
<1>8. f[n] = g[n]
  <2>1. \A i \in 1..n : g[i] = g[i - 1] \o q[i]
    BY <1>1, <1>4, <1>6
  <2>2. \A i \in 1..n : f[i - 1] = g[i - 1] => f[i] = g[i]
    BY <1>5, <2>1
  <2>3. f[0] = g[0] /\ n \in Nat
    BY <1>1, <1>5, <1>7
  <2> QED BY <2>2, <2>3, SameRuns
<1> QED BY <1>5, <1>7, <1>8 DEF t

-----------------------------------------------------------------------------
\* The results of a source on pages.

Results(V) == [source : {"project", "engine"}, item : V]
OfSource(V, source) == {x \in Results(V) : x.source = source}
ItemsOf(some) == [i \in DOMAIN some |-> some[i].item]

\* The items of two sequences put together.
LEMMA ConcatAt ==
    ASSUME NEW V, NEW s \in Seq(V), NEW t \in Seq(V)
    PROVE  LET c == s \o t
           IN  /\ c \in Seq(V) /\ Len(c) = Len(s) + Len(t) /\ Len(s) \in Nat /\ Len(t) \in Nat
               /\ \A i \in 1..Len(s) : c[i] = s[i]
               /\ \A i \in 1..Len(t) : c[Len(s) + i] = t[i]
  OBVIOUS

\* The items of results.
LEMMA ItemsAre ==
    ASSUME NEW V, NEW s \in Seq(Results(V))
    PROVE  /\ ItemsOf(s) \in Seq(V) /\ Len(ItemsOf(s)) = Len(s)
           /\ \A i \in 1..Len(s) : ItemsOf(s)[i] = s[i].item
<1>1. Len(s) \in Nat /\ DOMAIN s = 1..Len(s) /\ \A i \in 1..Len(s) : s[i] \in Results(V)
  OBVIOUS
<1>2. \A i \in 1..Len(s) : s[i].item \in V
  BY <1>1 DEF Results
<1>3. ItemsOf(s) = [i \in 1..Len(s) |-> s[i].item]
  BY <1>1 DEF ItemsOf
<1> DEFINE t == [i \in 1..Len(s) |-> s[i].item]
<1>4. t \in Seq(V) /\ Len(t) = Len(s) /\ \A i \in 1..Len(s) : t[i] = s[i].item
  BY <1>1, <1>2
<1> QED BY <1>3, <1>4

\* The items of results put together.
LEMMA ItemsConcat ==
    ASSUME NEW V, NEW s \in Seq(Results(V)), NEW t \in Seq(Results(V))
    PROVE  ItemsOf(s \o t) = ItemsOf(s) \o ItemsOf(t)
<1> DEFINE c == s \o t
           a == ItemsOf(s)
           b == ItemsOf(t)
           d == ItemsOf(c)
           e == a \o b
<1>1. /\ c \in Seq(Results(V)) /\ Len(c) = Len(s) + Len(t) /\ Len(s) \in Nat /\ Len(t) \in Nat
      /\ \A i \in 1..Len(s) : c[i] = s[i]
      /\ \A i \in 1..Len(t) : c[Len(s) + i] = t[i]
  BY ConcatAt
<1> HIDE DEF c
<1>2. /\ a \in Seq(V) /\ Len(a) = Len(s) /\ \A i \in 1..Len(s) : a[i] = s[i].item
      /\ b \in Seq(V) /\ Len(b) = Len(t) /\ \A i \in 1..Len(t) : b[i] = t[i].item
      /\ d \in Seq(V) /\ Len(d) = Len(c) /\ \A i \in 1..Len(c) : d[i] = c[i].item
  BY <1>1, ItemsAre
<1> HIDE DEF a, b, d
<1>3. /\ e \in Seq(V) /\ Len(e) = Len(a) + Len(b)
      /\ \A i \in 1..Len(a) : e[i] = a[i]
      /\ \A i \in 1..Len(b) : e[Len(a) + i] = b[i]
  <2>1. a \in Seq(V) /\ b \in Seq(V)
    BY <1>2
  <2> QED BY <2>1
<1> HIDE DEF e
<1>4. \A i \in 1..Len(d) : d[i] = e[i]
  <2> TAKE i \in 1..Len(d)
  <2>1. CASE i \in 1..Len(s)
    <3>1. i \in 1..Len(c) /\ i \in 1..Len(a)
      BY <1>2, <2>1
    <3>2. d[i] = c[i].item /\ c[i] = s[i]
      BY <1>1, <1>2, <2>1, <3>1
    <3>3. e[i] = a[i] /\ a[i] = s[i].item
      BY <1>2, <1>3, <2>1, <3>1
    <3> QED BY <3>2, <3>3
  <2>2. CASE i \notin 1..Len(s)
    <3> DEFINE j == i - Len(s)
    <3>1. j \in 1..Len(t) /\ i = Len(s) + j
      BY <1>1, <1>2, <2>2
    <3> HIDE DEF j
    <3>2. c[Len(s) + j] = t[j] /\ e[Len(a) + j] = b[j]
      BY <1>1, <1>2, <1>3, <3>1
    <3>3. d[i] = c[i].item /\ b[j] = t[j].item
      BY <1>2, <3>1
    <3> QED BY <1>2, <3>1, <3>2, <3>3
  <2> QED BY <2>1, <2>2
<1>5. d = e
  BY <1>1, <1>2, <1>3, <1>4, SameSeq
<1> QED BY <1>5 DEF a, b, c, d, e

\* From keeps the results of a source.
LEMMA FromIs ==
    ASSUME NEW V, NEW source
    PROVE  \A s \in Seq(Results(V)) : From(source, s) = ItemsOf(KeepIn(s, OfSource(V, source)))
<1> TAKE s \in Seq(Results(V))
<1> DEFINE S == {x \in Range(s) : x.source = source}
           T == OfSource(V, source)
<1>1. Range(s) \subseteq Results(V)
  BY RangeIs
<1>2. Range(s) \intersect S = Range(s) \intersect T
  BY <1>1 DEF OfSource
<1>3. From(source, s) = ItemsOf(KeepIn(s, S))
  BY DEF From, ItemsOf
<1> HIDE DEF S, T
<1>4. KeepIn(s, S) = KeepIn(s, T)
  <2>1. \A w \in Seq(Results(V)) : Range(w) \intersect S = Range(w) \intersect T => KeepIn(w, S) = KeepIn(w, T)
    BY KeepSome
  <2> QED BY <1>2, <2>1
<1> QED BY <1>3, <1>4 DEF T

\* The results of a source are those in one part and those in the other.
LEMMA FromConcat ==
    ASSUME NEW V, NEW source, NEW s \in Seq(Results(V)), NEW t \in Seq(Results(V))
    PROVE  From(source, s) \in Seq(V) /\ From(source, s \o t) = From(source, s) \o From(source, t)
<1> DEFINE T == OfSource(V, source)
           a == KeepIn(s, T)
           b == KeepIn(t, T)
<1>1. a \in Seq(Results(V)) /\ b \in Seq(Results(V)) /\ s \o t \in Seq(Results(V))
  BY KeepIs
<1>2. KeepIn(s \o t, T) = a \o b
  BY KeepConcat
<1>3. From(source, s) = ItemsOf(a) /\ From(source, t) = ItemsOf(b)
  BY FromIs
<1>4. From(source, s \o t) = ItemsOf(a \o b)
  BY <1>1, <1>2, FromIs
<1> HIDE DEF a, b, T
<1>5. ItemsOf(a) \in Seq(V)
  BY <1>1, ItemsAre
<1>6. ItemsOf(a \o b) = ItemsOf(a) \o ItemsOf(b)
  BY <1>1, ItemsConcat
<1> QED BY <1>3, <1>4, <1>5, <1>6

\* Tagged results are of their source and have the items.
LEMMA TaggedIs ==
    ASSUME NEW V, NEW source \in {"project", "engine"}, NEW items \in Seq(V)
    PROVE  /\ Tagged(source, items) \in Seq(OfSource(V, source)) /\ Tagged(source, items) \in Seq(Results(V))
           /\ Len(Tagged(source, items)) = Len(items)
           /\ ItemsOf(Tagged(source, items)) = items
<1> DEFINE n == Len(items)
           r(i) == [source |-> source, item |-> items[i]]
           t == [i \in 1..n |-> r(i)]
<1>1. n \in Nat /\ DOMAIN items = 1..n /\ \A i \in 1..n : items[i] \in V
  OBVIOUS
<1>2. Tagged(source, items) = t
  BY <1>1 DEF Tagged
<1>3. \A i \in 1..n : r(i) \in OfSource(V, source) /\ r(i) \in Results(V) /\ r(i).item = items[i]
  BY <1>1 DEF OfSource, Results
<1> HIDE DEF r
<1>4. t \in Seq(OfSource(V, source)) /\ t \in Seq(Results(V)) /\ Len(t) = n /\ \A i \in 1..n : t[i] = r(i)
  BY <1>1, <1>3
<1> HIDE DEF t
<1> DEFINE u == ItemsOf(t)
<1>5. u \in Seq(V) /\ Len(u) = n /\ \A i \in 1..n : u[i] = t[i].item
  BY <1>4, ItemsAre
<1> HIDE DEF u
<1>6. \A i \in 1..n : u[i] = items[i]
  BY <1>3, <1>4, <1>5
<1>7. u = items
  BY <1>5, <1>6, SameSeq
<1> QED BY <1>2, <1>4, <1>7 DEF u

\* No results, no items.
LEMMA NoItems == ItemsOf(<< >>) = << >>
<1> DEFINE e == << >>
           u == ItemsOf(e)
<1>1. e \in Seq(Results({})) /\ Len(e) = 0
  OBVIOUS
<1> HIDE DEF e
<1>2. u \in Seq({}) /\ Len(u) = 0
  BY <1>1, ItemsAre
<1> HIDE DEF u
<1>3. u = << >>
  BY <1>2
<1> QED BY <1>3 DEF u, e

\* Results tagged with a source are from it and from no other.
LEMMA FromTagged ==
    ASSUME NEW V, NEW source \in {"project", "engine"}, NEW other \in {"project", "engine"},
           NEW items \in Seq(V)
    PROVE  From(source, Tagged(other, items)) = IF source = other THEN items ELSE << >>
<1> DEFINE t == Tagged(other, items)
           S == OfSource(V, source)
<1>1. t \in Seq(OfSource(V, other)) /\ t \in Seq(Results(V)) /\ ItemsOf(t) = items
  BY TaggedIs
<1> HIDE DEF t
<1>2. Range(t) \subseteq OfSource(V, other)
  BY <1>1, RangeIs
<1>3. From(source, t) = ItemsOf(KeepIn(t, S))
  BY <1>1, FromIs
<1>4. \A s \in Seq(Results(V)) : (Range(s) \subseteq S => KeepIn(s, S) = s)
                                 /\ (Range(s) \intersect S = {} => KeepIn(s, S) = << >>)
  <2>1. \A s \in Seq(Results(V)) :
           /\ Range(s) \subseteq S => KeepIn(s, S) = s
           /\ Range(s) \intersect S = {} => KeepIn(s, S) = << >>
           /\ Range(s) \intersect S = Range(s) \intersect S => KeepIn(s, S) = KeepIn(s, S)
    <3> HIDE DEF S
    <3> QED BY KeepSome
  <2> QED BY <2>1
<1>5. CASE source = other
  BY <1>1, <1>2, <1>3, <1>4, <1>5 DEF t
<1>6. CASE source # other
  <2>1. Range(t) \intersect S = {}
    BY <1>2, <1>6 DEF OfSource
  <2>2. KeepIn(t, S) = << >>
    BY <1>1, <1>4, <2>1
  <2>3. ItemsOf(<< >>) = << >>
    BY NoItems
  <2> QED BY <1>3, <1>6, <2>2, <2>3 DEF t
<1> QED BY <1>5, <1>6

\* The results of a source on pages put together are those on each page, put together.
LEMMA FromPages ==
    ASSUME NEW V, NEW source
    PROVE  \A q \in Seq(Seq(Results(V))) :
              /\ FlattenSeq(q) \in Seq(Results(V))
              /\ From(source, FlattenSeq(q)) = FlattenSeq([p \in DOMAIN q |-> From(source, q[p])])
<1> DEFINE W == Seq(Results(V))
           Own(q) == [p \in DOMAIN q |-> From(source, q[p])]
           Good(q) == /\ FlattenSeq(q) \in W /\ Own(q) \in Seq(Seq(V))
                      /\ From(source, FlattenSeq(q)) = FlattenSeq(Own(q))
           G == {q \in Seq(W) : Good(q)}
<1>1. << >> \in G
  <2>1. FlattenSeq(<< >>) = << >> /\ << >> \in Seq(W) /\ << >> \in W /\ << >> \in Seq(Seq(V))
    BY EmptyIs DEF FlattenSeq
  <2>2. Own(<< >>) = << >>
    OBVIOUS
  <2>3. From(source, << >>) = << >>
    <3> DEFINE T == OfSource(V, source)
    <3>1. From(source, << >>) = ItemsOf(KeepIn(<< >>, T))
      BY <2>1, FromIs
    <3> HIDE DEF T
    <3> QED BY <3>1, KeepEmpty, NoItems
  <2> QED BY <2>1, <2>2, <2>3
<1>2. ASSUME NEW q \in Seq(W), NEW x \in W, q \in G PROVE Append(q, x) \in G
  <2> DEFINE t == Append(q, x)
             a == FlattenSeq(q)
             y == From(source, x)
             o == Own(q)
  <2>1. t \in Seq(W) /\ Len(t) = Len(q) + 1 /\ Len(q) \in Nat
        /\ t[Len(q) + 1] = x /\ \A i \in 1..Len(q) : t[i] = q[i]
    BY AppendAt
  <2>2. FlattenSeq(t) = a \o x /\ a \in W
    BY FlattenAppend
  <2>3. a \o x \in W
    BY <2>2
  <2>4. From(source, a \o x) = From(source, a) \o y
    <3>1. a \in Seq(Results(V)) /\ x \in Seq(Results(V))
      BY <2>2
    <3> HIDE DEF a
    <3>2. From(source, a) \in Seq(V) /\ From(source, a \o x) = From(source, a) \o From(source, x)
      BY <3>1, FromConcat
    <3> QED BY <3>2
  <2>5. y \in Seq(V)
    BY FromConcat
  <2>6. o \in Seq(Seq(V)) /\ From(source, a) = FlattenSeq(o)
    BY <1>2
  <2>7. Own(t) = Append(o, y) /\ Own(t) \in Seq(Seq(V))
    <3>1. DOMAIN q = 1..Len(q) /\ DOMAIN t = 1..(Len(q) + 1)
      BY <2>1
    <3>2. Len(o) = Len(q) /\ \A i \in 1..Len(q) : o[i] = From(source, q[i])
      BY <3>1
    <3> DEFINE w == Append(o, y)
               m == Own(t)
    <3>3. w \in Seq(Seq(V)) /\ Len(w) = Len(q) + 1 /\ w[Len(q) + 1] = y /\ \A i \in 1..Len(q) : w[i] = o[i]
      <4> HIDE DEF o, y
      <4> QED BY <2>5, <2>6, <3>2, AppendAt
    <3>4. DOMAIN m = 1..(Len(q) + 1) /\ \A i \in 1..(Len(q) + 1) : m[i] = From(source, t[i])
      BY <3>1
    <3>5. \A i \in 1..(Len(q) + 1) : i \in 1..Len(q) \/ i = Len(q) + 1
      BY <2>1
    <3>6. m = [i \in 1..(Len(q) + 1) |-> m[i]] 
      BY <3>1
    <3>8. DOMAIN w = 1..(Len(q) + 1) /\ w = [i \in DOMAIN w |-> w[i]]
      BY <3>3, <2>1
    <3> HIDE DEF w, m, o
    <3>7. \A i \in 1..(Len(q) + 1) : m[i] = w[i]
      BY <2>1, <3>2, <3>3, <3>4, <3>5
    <3>9. m = w
      BY <3>6, <3>7, <3>8
    <3> QED BY <3>3, <3>9 DEF m, w
  <2>8. FlattenSeq(Own(t)) = FlattenSeq(o) \o y
    <3> HIDE DEF o, y
    <3> QED BY <2>5, <2>6, <2>7, FlattenAppend
  <2> HIDE DEF Own, t, a, y
  <2>9. Good(t)
    BY <2>2, <2>3, <2>4, <2>6, <2>7, <2>8
  <2> HIDE DEF Good
  <2> QED BY <2>1, <2>9 DEF t
<1> HIDE DEF G
<1>3. Seq(W) \subseteq G
  <2> HIDE DEF W
  <2> QED BY <1>1, <1>2, SeqInd
<1> QED BY <1>3 DEF G

\* The Engine fills what is left of a page at most.
LEMMA FoundByEngine ==
    ASSUME NEW n \in Nat
    PROVE  /\ Cut(EngineFound, n) \in Seq(Range(EngineFound)) /\ Len(Cut(EngineFound, n)) <= n
           /\ Cut(EngineFound, Capped(n)) \in Seq(Range(EngineFound)) /\ Len(Cut(EngineFound, Capped(n))) <= n
<1> DEFINE U == Range(EngineFound)
           m == Capped(n)
<1>1. EngineFound \in Seq(U) /\ m \in Nat /\ m <= n
  BY SearchAssumption DEF Capped
<1> HIDE DEF U, m
<1>2. Len(EngineFound) \in Nat
  BY <1>1
<1>3. \A k \in Nat : Cut(EngineFound, k) \in Seq(U) /\ Len(Cut(EngineFound, k)) <= k
  <2> TAKE k \in Nat
  <2>1. Cut(EngineFound, k) \in Seq(U)
        /\ Len(Cut(EngineFound, k)) = IF Len(EngineFound) < k THEN Len(EngineFound) ELSE k
    BY <1>1, CutIs
  <2> QED BY <1>2, <2>1
<1>4. Cut(EngineFound, m) \in Seq(U) /\ Len(Cut(EngineFound, m)) <= n
  <2>1. Cut(EngineFound, m) \in Seq(U) /\ Len(Cut(EngineFound, m)) <= m /\ Len(Cut(EngineFound, m)) \in Nat
    BY <1>1, <1>3
  <2> QED BY <1>1, <2>1
<1> QED BY <1>3, <1>4 DEF U, m

\* A sequence of some items is one of more.
LEMMA WiderSeq ==
    ASSUME NEW V, NEW W, V \subseteq W
    PROVE  Seq(V) \subseteq Seq(W)
  OBVIOUS

(* The results of the project on a page, and those of the Engine. *)
LEMMA PageIs ==
    ASSUME NEW V, NEW kind, NEW limit \in Nat, NEW offset, Found(kind, limit, offset) \in Seq(V),
           Len(Found(kind, limit, offset)) <= limit, Range(EngineFound) \subseteq V
    PROVE  LET page == WithEngine(kind, limit, offset)
           IN  /\ page \in Seq(Results(V))
               /\ From("project", page) = Found(kind, limit, offset)
               /\ From("engine", page) # << >> => Len(Found(kind, limit, offset)) < limit
<1> DEFINE own == Found(kind, limit, offset)
           left == limit - Len(own)
           more == IF Len(own) >= limit THEN << >>
                   ELSE Cut(EngineFound, IF kind = "symbols" THEN left ELSE Capped(left))
           a == Tagged("project", own)
           b == Tagged("engine", more)
           page == WithEngine(kind, limit, offset)
<1>1. Len(own) \in Nat
  BY DEF own
<1>2. more \in Seq(V) /\ Len(more) <= left /\ Len(more) \in Nat /\ left \in Nat
  <2>1. CASE Len(own) >= limit
    <3>1. more = << >> /\ left = 0
      BY <1>1, <2>1
    <3> QED BY <3>1, EmptyIs
  <2>2. CASE ~(Len(own) >= limit)
    <3>1. left \in Nat /\ more = IF kind = "symbols" THEN Cut(EngineFound, left) ELSE Cut(EngineFound, Capped(left))
      BY <1>1, <2>2
    <3> HIDE DEF more, left
    <3>2. more \in Seq(Range(EngineFound)) /\ Len(more) <= left
      BY <3>1, FoundByEngine
    <3>3. more \in Seq(V)
      BY <3>2, WiderSeq
    <3> QED BY <3>1, <3>2, <3>3
  <2> QED BY <2>1, <2>2
<1>3. page = Cut(a \o b, limit)
  BY DEF WithEngine
<1>4. own \in Seq(V) /\ Len(own) <= limit /\ (more # << >> => Len(own) < limit)
  <2>1. more # << >> => ~(Len(own) >= limit)
    OBVIOUS
  <2> QED BY <1>1, <2>1
<1>5. left = limit - Len(own)
  OBVIOUS
<1> HIDE DEF more, own, left
<1>6. a \in Seq(Results(V)) /\ b \in Seq(Results(V)) /\ Len(a) = Len(own) /\ Len(b) = Len(more)
  BY <1>2, <1>4, TaggedIs
<1>7. /\ From("project", a) = own /\ From("engine", a) = << >>
      /\ From("project", b) = << >> /\ From("engine", b) = more
  BY <1>2, <1>4, FromTagged
<1> HIDE DEF a, b, page
<1> DEFINE c == a \o b
<1>8. c \in Seq(Results(V)) /\ Len(c) = Len(a) + Len(b)
  BY <1>6, ConcatIs
<1>9. page = c
  <2>1. Len(c) <= limit
    BY <1>1, <1>2, <1>5, <1>6, <1>8
  <2> HIDE DEF c
  <2> QED BY <1>3, <1>8, <2>1, CutOf DEF c
<1>10. \A source : From(source, c) = From(source, a) \o From(source, b)
  BY <1>6, FromConcat
<1>11. From("project", c) = own \o << >> /\ From("engine", c) = << >> \o more
  BY <1>7, <1>10
<1>12. own \o << >> = own /\ << >> \o more = more
  BY <1>2, <1>4
<1> QED BY <1>4, <1>8, <1>9, <1>11, <1>12 DEF page, own

(* Pages that are each cut from what there is to find at their place add up. *)
LEMMA PagesOfAll ==
    ASSUME NEW V, NEW all \in Seq(V), NEW kind, NEW limit \in Nat, NEW n \in Nat,
           Range(EngineFound) \subseteq V,
           \A offset \in Nat : Found(kind, limit, offset) = Cut(After(all, offset), limit),
           pages = [p \in 1..n |-> WithEngine(kind, limit, (p - 1) * limit)]
    PROVE  LET own == From("project", FlattenSeq(pages))
           IN  /\ IsPrefix(own, all)
               /\ pages # << >> /\ From("engine", pages[Len(pages)]) # << >> => own = all
<1> DEFINE own == From("project", FlattenSeq(pages))
           page(p) == WithEngine(kind, limit, (p - 1) * limit)
           slice(p) == Cut(After(all, (p - 1) * limit), limit)
<1>1. Len(pages) = n /\ DOMAIN pages = 1..n /\ \A p \in 1..n : pages[p] = page(p)
  OBVIOUS
<1>2. ASSUME NEW p \in 1..n
      PROVE  /\ (p - 1) * limit \in Nat /\ (p - 1) * limit + limit = p * limit
             /\ page(p) \in Seq(Results(V)) /\ From("project", page(p)) = slice(p)
             /\ slice(p) \in Seq(V)
             /\ Len(slice(p)) = (IF Len(After(all, (p - 1) * limit)) < limit
                                 THEN Len(After(all, (p - 1) * limit)) ELSE limit)
             /\ From("engine", page(p)) # << >> => Len(slice(p)) < limit
  <2> DEFINE offset == (p - 1) * limit
             t == After(all, offset)
             s == Cut(t, limit)
  <2>1. offset \in Nat /\ offset + limit = p * limit
    BY Multiples
  <2> HIDE DEF offset
  <2>2. t \in Seq(V)
    BY <2>1, AfterIs DEF After
  <2> HIDE DEF t
  <2>3. s \in Seq(V) /\ Len(s) = IF Len(t) < limit THEN Len(t) ELSE limit
    BY <2>2, CutIs
  <2>4. Len(s) <= limit
    <3>1. Len(t) \in Nat
      BY <2>2
    <3> HIDE DEF s
    <3> QED BY <2>3, <3>1
  <2>5. Found(kind, limit, offset) = s
    BY <2>1 DEF t
  <2> HIDE DEF s
  <2>6. /\ WithEngine(kind, limit, offset) \in Seq(Results(V))
        /\ From("project", WithEngine(kind, limit, offset)) = s
        /\ From("engine", WithEngine(kind, limit, offset)) # << >> => Len(s) < limit
    BY <2>3, <2>4, <2>5, PageIs
  <2> QED BY <2>1, <2>3, <2>6 DEF s, t, offset
<1>0. \A q \in Seq(Seq(Results(V))) :
         /\ FlattenSeq(q) \in Seq(Results(V))
         /\ From("project", FlattenSeq(q)) = FlattenSeq([p \in DOMAIN q |-> From("project", q[p])])
  BY FromPages
<1> HIDE DEF page
<1>3. own = Cut(all, n * limit)
  <2>1. CASE n = 0
    <3>1. pages = << >> /\ FlattenSeq(<< >>) = << >> /\ << >> \in Seq(Seq(Results(V)))
      BY <2>1, EmptyIs DEF FlattenSeq
    <3> DEFINE F(q) == [p \in DOMAIN q |-> From("project", q[p])]
    <3>2. own = FlattenSeq(F(pages))
      BY <1>0, <3>1
    <3>3. F(<< >>) = << >>
      OBVIOUS
    <3> HIDE DEF F, own
    <3>4. own = << >>
      BY <3>1, <3>2, <3>3
    <3>5. n * limit = 0 /\ Cut(all, 0) = << >>
      BY <2>1, CutOf
    <3> QED BY <3>4, <3>5
  <2>2. CASE n # 0
    <3> DEFINE slices == [p \in 1..n |-> Cut(SubSeq(all, (p - 1) * limit + 1, Len(all)), limit)]
               W == Seq(Results(V))
    <3>1. pages \in Seq(W)
      <4>1. pages = [p \in 1..n |-> page(p)] /\ \A p \in 1..n : page(p) \in W
        BY <1>1, <1>2 DEF page
      <4> HIDE DEF W
      <4> QED BY <4>1
    <3>2. own = FlattenSeq([p \in 1..n |-> From("project", pages[p])])
      <4>1. From("project", FlattenSeq(pages)) = FlattenSeq([p \in DOMAIN pages |-> From("project", pages[p])])
        BY <1>0, <3>1
      <4> QED BY <1>1, <4>1
    <3>3. \A p \in 1..n : From("project", pages[p]) = slice(p)
      BY <1>1, <1>2
    <3>4. [p \in 1..n |-> From("project", pages[p])] = [p \in 1..n |-> slice(p)]
      BY <3>3
    <3>5. [p \in 1..n |-> slice(p)] = slices
      BY DEF After
    <3>6. FlattenSeq(slices) = Cut(all, n * limit)
      BY <2>2, SlicesAddUp
    <3> HIDE DEF slices, own, slice
    <3> QED BY <3>2, <3>4, <3>5, <3>6
  <2> QED BY <2>1, <2>2
<1> HIDE DEF own
<1>4. n * limit \in Nat
  OBVIOUS
<1>5. /\ own \in Seq(V) /\ Len(own) = IF Len(all) < n * limit THEN Len(all) ELSE n * limit
      /\ \A i \in 1..Len(own) : own[i] = all[i]
  BY <1>3, <1>4, CutIs
<1>6. Len(all) \in Nat
  OBVIOUS
<1>7. IsPrefix(own, all)
  <2>1. Len(own) <= Len(all)
    BY <1>4, <1>5, <1>6
  <2> QED BY <1>5, <2>1, PrefixIs
<1>8. ASSUME pages # << >>, From("engine", pages[Len(pages)]) # << >> PROVE own = all
  <2>1. n \in 1..n
    <3>1. n # 0
      BY <1>8
    <3> QED BY <3>1
  <2> DEFINE offset == (n - 1) * limit
             t == After(all, offset)
  <2>2. offset \in Nat /\ offset + limit = n * limit
        /\ (IF Len(t) < limit THEN Len(t) ELSE limit) < limit
    BY <1>1, <1>2, <1>8, <2>1
  <2> HIDE DEF offset
  <2>3. t \in Seq(V) /\ Len(t) = IF offset < Len(all) THEN Len(all) - offset ELSE 0
    BY <2>2, AfterIs DEF After
  <2> HIDE DEF t
  <2>4. Len(all) <= n * limit
    BY <1>4, <1>6, <2>2, <2>3
  <2> QED BY <1>3, <1>4, <2>4, CutOf
<1> QED BY <1>7, <1>8 DEF own

-----------------------------------------------------------------------------
\* The rows of symbols_fts by rank.

RowShape == [symbol : Range(Symbols), live : BOOLEAN]
LiveRow(s) == [symbol |-> s, live |-> TRUE]

OneLiveRow ==
    /\ fts \in Seq(RowShape)
    /\ \A i, j \in 1..Len(fts) : fts[i].live /\ fts[j].live /\ fts[i].symbol = fts[j].symbol => i = j

\* How many of S are before place k of s, and those of S with fewer than n before them.
CountAhead(s, S, k) == Cardinality({j \in 1..(k - 1) : s[j] \in S})
FirstIn(s, S, n) == {s[k] : k \in {j \in 1..Len(s) : s[j] \in S /\ CountAhead(s, S, j) < n}}

\* The first n that are kept are those with fewer than n before them.
LEMMA FirstAreCut ==
    ASSUME NEW V, NEW S, NEW n \in Nat
    PROVE  \A s \in Seq(V) : IsInjective(s) => KeepIn(s, FirstIn(s, S, n)) = Cut(KeepIn(s, S), n)
<1> DEFINE Good(s) == IsInjective(s) =>
                         /\ CountAhead(s, S, Len(s) + 1) = Len(KeepIn(s, S))
                         /\ KeepIn(s, FirstIn(s, S, n)) = Cut(KeepIn(s, S), n)
           G == {s \in Seq(V) : Good(s)}
<1>1. << >> \in G
  <2>1. << >> \in Seq(V) /\ Len(<< >>) = 0
    BY EmptyIs
  <2>2. \A T : KeepIn(<< >>, T) = << >>
    BY KeepEmpty
  <2>3. CountAhead(<< >>, S, 0 + 1) = 0
    <3>1. {j \in 1..((0 + 1) - 1) : << >>[j] \in S} = {}
      OBVIOUS
    <3> QED BY <3>1, FS_EmptySet DEF CountAhead
  <2>4. Cut(<< >>, n) = << >>
    <3> DEFINE none == << >>
    <3>1. none \in Seq(V) /\ Len(none) <= n
      BY <2>1
    <3> HIDE DEF none
    <3>2. Cut(none, n) = none
      BY <3>1, CutOf
    <3> QED BY <3>2 DEF none
  <2>5. CountAhead(<< >>, S, Len(<< >>) + 1) = Len(KeepIn(<< >>, S))
    BY <2>1, <2>2, <2>3
  <2>6. KeepIn(<< >>, FirstIn(<< >>, S, n)) = Cut(KeepIn(<< >>, S), n)
    BY <2>2, <2>4
  <2> QED BY <2>1, <2>5, <2>6
<1>2. ASSUME NEW s \in Seq(V), NEW x \in V, s \in G PROVE Append(s, x) \in G
  <2> DEFINE t == Append(s, x)
             l == Len(s)
             kept == KeepIn(s, S)
             first == FirstIn(s, S, n)
             more == FirstIn(t, S, n)
  <2>1. t \in Seq(V) /\ Len(t) = l + 1 /\ l \in Nat /\ t[l + 1] = x /\ \A i \in 1..l : t[i] = s[i]
    BY AppendAt
  <2> SUFFICES ASSUME IsInjective(t) PROVE Good(t)
    BY <2>1
  <2> HIDE DEF t, l
  <2>2. \A i, j \in 1..(l + 1) : t[i] = t[j] => i = j
    BY <2>1, RangeIs
  <2>3. IsInjective(s) /\ Range(s) = {s[i] : i \in 1..l} /\ x \notin Range(s)
    <3>1. Range(s) = {s[i] : i \in 1..l} /\ (IsInjective(s) <=> \A i, j \in 1..l : s[i] = s[j] => i = j)
      BY RangeIs DEF l
    <3>2. \A i \in 1..l : i \in 1..(l + 1) /\ i # l + 1
      BY <2>1
    <3>3. l + 1 \in 1..(l + 1)
      BY <2>1
    <3> QED BY <2>1, <2>2, <3>1, <3>2, <3>3
  <2>4. CountAhead(s, S, l + 1) = Len(kept) /\ KeepIn(s, first) = Cut(kept, n)
    BY <1>2, <2>3 DEF l
  <2>5. kept \in Seq(V) /\ Len(kept) \in Nat
    <3>1. kept \in Seq(V)
      BY KeepIs
    <3> HIDE DEF kept
    <3> QED BY <3>1
  <2>6. ASSUME NEW k \in 1..(l + 1) PROVE CountAhead(t, S, k) = CountAhead(s, S, k)
    <3>1. \A j \in 1..(k - 1) : j \in 1..l
      BY <2>1
    <3>2. {j \in 1..(k - 1) : t[j] \in S} = {j \in 1..(k - 1) : s[j] \in S}
      BY <2>1, <3>1
    <3> QED BY <3>2 DEF CountAhead
  <2>7. CountAhead(t, S, (l + 1) + 1) = IF x \in S THEN Len(kept) + 1 ELSE Len(kept)
    <3> DEFINE old == {j \in 1..l : s[j] \in S}
               now == {j \in 1..(l + 1) : t[j] \in S}
    <3>1. (l + 1) - 1 = l /\ ((l + 1) + 1) - 1 = l + 1
      BY <2>1
    <3>2. Cardinality(old) = Len(kept)
      BY <2>4, <3>1 DEF CountAhead
    <3>3. IsFiniteSet(old) /\ l + 1 \notin old
      <4>1. IsFiniteSet(1..l) /\ l + 1 \notin 1..l
        BY <2>1, FS_Interval
      <4> QED BY <4>1, FS_Subset
    <3>4. \A j \in 1..(l + 1) : j \in 1..l \/ j = l + 1
      BY <2>1
    <3>5. now = IF x \in S THEN old \union {l + 1} ELSE old
      <4>1. \A j \in 1..l : j \in 1..(l + 1)
        BY <2>1
      <4>2. l + 1 \in 1..(l + 1)
        BY <2>1
      <4> QED BY <2>1, <3>4, <4>1, <4>2
    <3> HIDE DEF old, now, kept
    <3>6. Cardinality(old \union {l + 1}) = Cardinality(old) + 1
      BY <3>3, FS_AddElement
    <3>7. Cardinality(now) = IF x \in S THEN Len(kept) + 1 ELSE Len(kept)
      BY <3>2, <3>5, <3>6
    <3> QED BY <3>1, <3>7 DEF CountAhead, now
  <2>8. more = IF x \in S /\ Len(kept) < n THEN first \union {x} ELSE first
    <3>1. \A k \in 1..(l + 1) : k \in 1..l \/ k = l + 1
      BY <2>1
    <3>2. \A k \in 1..l : k \in 1..(l + 1)
      BY <2>1
    <3>3. l + 1 \in 1..(l + 1)
      BY <2>1
    <3>4. CountAhead(t, S, l + 1) = Len(kept)
      BY <2>4, <2>6, <3>3
    <3>5. more = {t[k] : k \in {j \in 1..(l + 1) : t[j] \in S /\ CountAhead(t, S, j) < n}}
      BY <2>1 DEF FirstIn
    <3>6. first = {s[k] : k \in {j \in 1..l : s[j] \in S /\ CountAhead(s, S, j) < n}}
      BY DEF FirstIn, l
    <3> HIDE DEF kept, more, first
    <3>7. \A y \in more : y \in first \/ (y = x /\ x \in S /\ Len(kept) < n)
      BY <2>1, <2>6, <3>1, <3>2, <3>4, <3>5, <3>6
    <3>8. first \subseteq more
      BY <2>1, <2>6, <3>2, <3>5, <3>6
    <3>9. x \in S /\ Len(kept) < n => x \in more
      BY <2>1, <3>3, <3>4, <3>5
    <3> QED BY <3>7, <3>8, <3>9
  <2>9. KeepIn(s, more) = Cut(kept, n) /\ x \notin first
    <3>1. first \subseteq Range(s)
      BY <2>3 DEF FirstIn, l
    <3>2. Range(s) \intersect more = Range(s) \intersect first
      <4> HIDE DEF first, more
      <4> QED BY <2>3, <2>8
    <3>3. KeepIn(s, more) = KeepIn(s, first)
      <4> HIDE DEF first, more
      <4> QED BY <3>2, KeepSome
    <3> QED BY <2>3, <2>4, <3>1, <3>3
  <2>10. /\ KeepIn(t, S) = IF x \in S THEN Append(kept, x) ELSE kept
         /\ KeepIn(t, more) = IF x \in more THEN Append(KeepIn(s, more), x) ELSE KeepIn(s, more)
    <3> HIDE DEF more
    <3> QED BY KeepAppend DEF t
  <2> HIDE DEF kept, first, more
  <2>11. KeepIn(t, more) = IF x \in S /\ Len(kept) < n THEN Append(Cut(kept, n), x) ELSE Cut(kept, n)
    BY <2>8, <2>9, <2>10
  <2> DEFINE a == Append(kept, x)
  <2>12. a \in Seq(V) /\ Len(a) = Len(kept) + 1 /\ \A i \in 1..Len(kept) : a[i] = kept[i]
    BY <2>5, AppendAt
  <2> HIDE DEF a
  <2>13. ASSUME x \in S, Len(kept) < n PROVE Cut(KeepIn(t, S), n) = KeepIn(t, more)
    <3>1. Cut(kept, n) = kept /\ Cut(a, n) = a
      BY <2>5, <2>12, <2>13, CutOf
    <3> QED BY <2>10, <2>11, <2>13, <3>1 DEF a
  <2>14. ASSUME x \in S, ~(Len(kept) < n) PROVE Cut(KeepIn(t, S), n) = KeepIn(t, more)
    <3>1. /\ Cut(a, n) \in Seq(V) /\ Len(Cut(a, n)) = n /\ \A i \in 1..n : Cut(a, n)[i] = a[i]
          /\ Cut(kept, n) \in Seq(V) /\ Len(Cut(kept, n)) = n /\ \A i \in 1..n : Cut(kept, n)[i] = kept[i]
      <4>1. ~(Len(a) < n) /\ ~(Len(kept) < n)
        BY <2>5, <2>12, <2>14
      <4> QED BY <2>5, <2>12, <4>1, CutIs
    <3>2. \A i \in 1..n : i \in 1..Len(kept)
      BY <2>5, <2>14
    <3>3. Cut(a, n) = Cut(kept, n)
      BY <2>12, <3>1, <3>2, SameSeq
    <3> QED BY <2>10, <2>11, <2>14, <3>3 DEF a
  <2>15. x \notin S => Cut(KeepIn(t, S), n) = KeepIn(t, more)
    BY <2>10, <2>11
  <2>16. Len(KeepIn(t, S)) = IF x \in S THEN Len(kept) + 1 ELSE Len(kept)
    BY <2>10, <2>12 DEF a
  <2>17. CountAhead(t, S, Len(t) + 1) = Len(KeepIn(t, S))
    BY <2>1, <2>7, <2>16
  <2> QED BY <2>13, <2>14, <2>15, <2>17 DEF more
<1> HIDE DEF G
<1>3. Seq(V) \subseteq G
  BY <1>1, <1>2, SeqInd
<1> QED BY <1>3 DEF G

\* The symbols whose classes are there are among those that match, each once.
LEMMA LiveIs ==
    Live \in Seq(Range(Symbols)) /\ IsInjective(Live) /\ Range(Live) \subseteq Range(Symbols)
<1> DEFINE W == Range(Symbols)
<1>1. Symbols \in Seq(W) /\ IsInjective(Symbols)
  BY SearchAssumption
<1> DEFINE S == {s \in W : LiveRow(s) \in Range(fts)}
<1>2. Live = KeepIn(Symbols, S)
  BY DEF Live, LiveRow
<1> HIDE DEF S
<1>3. KeepIn(Symbols, S) \in Seq(W) /\ Range(KeepIn(Symbols, S)) = Range(Symbols) \intersect S
      /\ IsInjective(KeepIn(Symbols, S))
  <2> HIDE DEF W
  <2> QED BY <1>1, KeepIs
<1> QED BY <1>2, <1>3

\* The place of a row's symbol among those that match.
PlaceOf(i) == CHOOSE k \in 1..Len(Symbols) : Symbols[k] = fts[i].symbol
PresentSymbols == {s \in Range(Symbols) : LiveRow(s) \in Range(fts)}

LEMMA RowPlaces ==
    ASSUME OneLiveRow, NothingStale
    PROVE  /\ Len(fts) \in Nat /\ DOMAIN fts = 1..Len(fts)
           /\ \A i \in 1..Len(fts) : /\ fts[i] = LiveRow(fts[i].symbol) /\ fts[i].live
                                     /\ PlaceOf(i) \in 1..Len(Symbols)
                                     /\ Symbols[PlaceOf(i)] = fts[i].symbol
           /\ \A i, j \in 1..Len(fts) : fts[i].symbol = fts[j].symbol => i = j
           /\ PresentSymbols = {fts[i].symbol : i \in 1..Len(fts)}
<1>1. Len(fts) \in Nat /\ DOMAIN fts = 1..Len(fts) /\ \A i \in 1..Len(fts) : fts[i] \in RowShape
  BY DEF OneLiveRow
<1>2. ASSUME NEW i \in 1..Len(fts)
      PROVE  fts[i] = LiveRow(fts[i].symbol) /\ fts[i].live /\ fts[i].symbol \in Range(Symbols)
  <2>1. fts[i].live /\ fts[i] \in RowShape
    BY <1>1 DEF NothingStale
  <2> QED BY <2>1 DEF RowShape, LiveRow
<1>3. Symbols \in Seq(Range(Symbols)) /\ Range(Symbols) = {Symbols[k] : k \in 1..Len(Symbols)}
  BY SearchAssumption, RangeIs
<1>4. ASSUME NEW i \in 1..Len(fts)
      PROVE  PlaceOf(i) \in 1..Len(Symbols) /\ Symbols[PlaceOf(i)] = fts[i].symbol
  <2>1. PICK k \in 1..Len(Symbols) : Symbols[k] = fts[i].symbol
    BY <1>2, <1>3
  <2> QED BY <2>1 DEF PlaceOf
<1>5. \A i, j \in 1..Len(fts) : fts[i].symbol = fts[j].symbol => i = j
  BY <1>2 DEF OneLiveRow
<1>6. PresentSymbols = {fts[i].symbol : i \in 1..Len(fts)}
  <2>1. Range(fts) = {fts[i] : i \in 1..Len(fts)}
    BY RangeIs DEF OneLiveRow
  <2>2. \A s : LiveRow(s).symbol = s
    BY DEF LiveRow
  <2> QED BY <1>2, <2>1, <2>2 DEF PresentSymbols
<1> QED BY <1>1, <1>2, <1>4, <1>5, <1>6

\* With no row of a class that is gone, and rows of one name by path, rows are in the
\* order of the symbols.
LEMMA BeforeIs ==
    ASSUME OneLiveRow, NothingStale, RowsByPath, NEW i \in 1..Len(fts), NEW j \in 1..Len(fts)
    PROVE  RankedBefore(i, j) <=> PlaceOf(i) < PlaceOf(j)
<1> DEFINE k == PlaceOf(i)
           m == PlaceOf(j)
           a == NameRank[Symbols[k]]
           b == NameRank[Symbols[m]]
<1>1. /\ k \in 1..Len(Symbols) /\ m \in 1..Len(Symbols) /\ Len(fts) \in Nat /\ DOMAIN fts = 1..Len(fts)
      /\ fts[i].symbol = Symbols[k] /\ fts[j].symbol = Symbols[m]
  BY RowPlaces
<1>2. Symbols \in Seq(Range(Symbols)) /\ Len(Symbols) \in Nat /\ DOMAIN Symbols = 1..Len(Symbols)
  BY SearchAssumption
<1> HIDE DEF k, m
<1>3. a \in Nat /\ b \in Nat /\ (k < m => a <= b) /\ (m < k => b <= a)
  <2>1. Symbols[k] \in Range(Symbols) /\ Symbols[m] \in Range(Symbols)
    BY <1>1, <1>2 DEF Range
  <2> QED BY <1>1, <1>2, <2>1, SearchAssumption
<1>4. (a = b /\ k < m => i < j) /\ (a = b /\ m < k => j < i)
  BY <1>1, <1>2 DEF RowsByPath
<1>5. RankedBefore(i, j) <=> a < b \/ (a = b /\ i < j)
  BY <1>1 DEF RankedBefore
<1>6. k = m => i = j
  BY <1>1, RowPlaces
<1> HIDE DEF a, b
<1>7. k \in Nat /\ m \in Nat /\ i \in Nat /\ j \in Nat
  BY <1>1, <1>2
<1>8. RankedBefore(i, j) <=> k < m
  <2>1. CASE k = m
    <3>1. a = b
      BY <2>1 DEF a, b
    <3> QED BY <1>3, <1>5, <1>6, <1>7, <2>1, <3>1
  <2>2. CASE k < m
    BY <1>3, <1>4, <1>5, <1>7, <2>2
  <2>3. CASE m < k
    BY <1>3, <1>4, <1>5, <1>7, <2>3
  <2> QED BY <1>7, <2>1, <2>2, <2>3
<1> QED BY <1>8 DEF k, m

\* As many rows are before a row as symbols that are there before its symbol.
LEMMA RowsBefore ==
    ASSUME OneLiveRow, NothingStale, RowsByPath, NEW j \in 1..Len(fts)
    PROVE  Cardinality({i \in DOMAIN fts : RankedBefore(i, j)}) = CountAhead(Symbols, PresentSymbols, PlaceOf(j))
<1> DEFINE n == PlaceOf(j)
           A == {i \in 1..Len(fts) : PlaceOf(i) < n}
           B == {p \in 1..(n - 1) : Symbols[p] \in PresentSymbols}
           f == [i \in A |-> PlaceOf(i)]
<1>1. /\ Len(fts) \in Nat /\ DOMAIN fts = 1..Len(fts) /\ n \in 1..Len(Symbols)
      /\ \A i \in 1..Len(fts) : PlaceOf(i) \in 1..Len(Symbols) /\ Symbols[PlaceOf(i)] = fts[i].symbol
      /\ \A i, k \in 1..Len(fts) : fts[i].symbol = fts[k].symbol => i = k
      /\ PresentSymbols = {fts[i].symbol : i \in 1..Len(fts)}
  BY RowPlaces
<1>2. Len(Symbols) \in Nat /\ \A p, q \in 1..Len(Symbols) : Symbols[p] = Symbols[q] => p = q
  <2>1. Symbols \in Seq(Range(Symbols)) /\ IsInjective(Symbols)
    BY SearchAssumption
  <2>2. Len(Symbols) \in Nat
    BY <2>1
  <2>3. \A p, q \in 1..Len(Symbols) : Symbols[p] = Symbols[q] => p = q
    BY <2>1, RangeIs
  <2> QED BY <2>2, <2>3
<1>3. {i \in DOMAIN fts : RankedBefore(i, j)} = A
  BY <1>1, BeforeIs
<1> HIDE DEF n
<1>4. \A i \in A : PlaceOf(i) \in B
  <2> TAKE i \in A
  <2>1. PlaceOf(i) \in 1..Len(Symbols) /\ PlaceOf(i) < n /\ Symbols[PlaceOf(i)] \in PresentSymbols
    BY <1>1
  <2> QED BY <1>1, <1>2, <2>1
<1>5. \A p \in B : \E i \in A : PlaceOf(i) = p
  <2> TAKE p \in B
  <2>1. p \in 1..Len(Symbols) /\ p < n
    BY <1>1, <1>2
  <2>2. PICK i \in 1..Len(fts) : fts[i].symbol = Symbols[p]
    BY <1>1
  <2>3. PlaceOf(i) = p
    BY <1>1, <1>2, <2>1, <2>2
  <2> QED BY <2>1, <2>2, <2>3
<1>6. \A i, k \in A : PlaceOf(i) = PlaceOf(k) => i = k
  BY <1>1
<1> HIDE DEF A, B
<1>7. f \in Bijection(A, B)
  BY <1>4, <1>5, <1>6 DEF Bijection, Injection, Surjection, IsInjective
<1>8. ExistsBijection(A, B)
  BY <1>7 DEF ExistsBijection
<1>9. IsFiniteSet(A)
  <2>1. IsFiniteSet(1..Len(fts))
    BY <1>1, FS_Interval
  <2> QED BY <2>1, FS_Subset DEF A
<1>10. Cardinality(A) = Cardinality(B)
  BY <1>8, <1>9, FS_Bijection
<1> QED BY <1>3, <1>10 DEF CountAhead, B, n

\* Then FastFind takes the first symbols that are there.
LEMMA FastIs ==
    ASSUME OneLiveRow, NothingStale, RowsByPath, NEW m \in Nat
    PROVE  fast_find_symbols(m) = Cut(Live, Capped(m))
<1> DEFINE n == Capped(m)
           S == PresentSymbols
           found == {fts[i].symbol : i \in {i \in RankedRows(n) : fts[i].live}}
<1>1. n \in Nat
  BY SearchAssumption DEF Capped
<1> HIDE DEF n
<1>2. /\ Len(fts) \in Nat /\ DOMAIN fts = 1..Len(fts)
      /\ \A i \in 1..Len(fts) : /\ fts[i].live /\ PlaceOf(i) \in 1..Len(Symbols)
                                /\ Symbols[PlaceOf(i)] = fts[i].symbol
      /\ S = {fts[i].symbol : i \in 1..Len(fts)}
  BY RowPlaces
<1>3. Symbols \in Seq(Range(Symbols)) /\ IsInjective(Symbols) /\ Len(Symbols) \in Nat
      /\ \A p, q \in 1..Len(Symbols) : Symbols[p] = Symbols[q] => p = q
  <2>1. Symbols \in Seq(Range(Symbols)) /\ IsInjective(Symbols)
    BY SearchAssumption
  <2> QED BY <2>1, RangeIs
<1>4. \A i \in 1..Len(fts) : i \in RankedRows(n) <=> CountAhead(Symbols, S, PlaceOf(i)) < n
  BY <1>2, RowsBefore DEF RankedRows
<1>5. found = {fts[i].symbol : i \in {i \in 1..Len(fts) : CountAhead(Symbols, S, PlaceOf(i)) < n}}
  <2>1. RankedRows(n) \subseteq 1..Len(fts)
    BY <1>2 DEF RankedRows
  <2> QED BY <1>2, <1>4, <2>1
<1> HIDE DEF S, found
<1>6. found = FirstIn(Symbols, S, n)
  <2>1. \A k \in 1..Len(Symbols) : Symbols[k] \in S => \E i \in 1..Len(fts) : PlaceOf(i) = k
    <3> TAKE k \in 1..Len(Symbols)
    <3> HAVE Symbols[k] \in S
    <3>1. PICK i \in 1..Len(fts) : fts[i].symbol = Symbols[k]
      BY <1>2
    <3> QED BY <1>2, <1>3, <3>1
  <2>2. \A i \in 1..Len(fts) : Symbols[PlaceOf(i)] \in S
    BY <1>2
  <2>3. FirstIn(Symbols, S, n)
           = {Symbols[k] : k \in {k \in 1..Len(Symbols) : Symbols[k] \in S /\ CountAhead(Symbols, S, k) < n}}
    BY DEF FirstIn
  <2>4. ASSUME NEW x \in found PROVE x \in FirstIn(Symbols, S, n)
    <3>1. PICK i \in 1..Len(fts) : CountAhead(Symbols, S, PlaceOf(i)) < n /\ x = fts[i].symbol
      BY <1>5
    <3> QED BY <1>2, <2>2, <2>3, <3>1
  <2>5. ASSUME NEW x \in FirstIn(Symbols, S, n) PROVE x \in found
    <3>1. PICK k \in 1..Len(Symbols) :
               Symbols[k] \in S /\ CountAhead(Symbols, S, k) < n /\ x = Symbols[k]
      BY <2>3
    <3>2. PICK i \in 1..Len(fts) : PlaceOf(i) = k
      BY <2>1, <3>1
    <3>3. fts[i].symbol = x /\ CountAhead(Symbols, S, PlaceOf(i)) < n
      BY <1>2, <3>1, <3>2
    <3> QED BY <1>5, <3>3
  <2> QED BY <2>4, <2>5
<1>7. KeepIn(Symbols, FirstIn(Symbols, S, n)) = Cut(KeepIn(Symbols, S), n)
  BY <1>1, <1>3, FirstAreCut
<1>8. Live = KeepIn(Symbols, S)
  BY DEF Live, S, PresentSymbols, LiveRow
<1>9. fast_find_symbols(m) = KeepIn(Symbols, found)
  BY DEF fast_find_symbols, found, n
<1> QED BY <1>6, <1>7, <1>8, <1>9 DEF n

-----------------------------------------------------------------------------
\* A page is cut from everything there is to find.

Findable == Range(Symbols) \union Range(FoundFiles) \union Range(Texts)

\* Symbols, files and lines of text are what can be found, each once.
LEMMA FindableAre ==
    /\ Live \in Seq(Findable) /\ IsInjective(Live) /\ Range(Live) \subseteq Range(Symbols)
    /\ FoundFiles \in Seq(Findable) /\ IsInjective(FoundFiles)
    /\ Texts \in Seq(Findable) /\ IsInjective(Texts)
<1>1. Live \in Seq(Range(Symbols)) /\ FoundFiles \in Seq(Range(FoundFiles)) /\ Texts \in Seq(Range(Texts))
  BY LiveIs, SearchAssumption
<1>2. Range(Symbols) \subseteq Findable /\ Range(FoundFiles) \subseteq Findable /\ Range(Texts) \subseteq Findable
  BY DEF Findable
<1>3. Seq(Range(Symbols)) \subseteq Seq(Findable) /\ Seq(Range(FoundFiles)) \subseteq Seq(Findable)
      /\ Seq(Range(Texts)) \subseteq Seq(Findable)
  BY <1>2, WiderSeq
<1>4. IsInjective(FoundFiles) /\ IsInjective(Texts)
  BY SearchAssumption
<1> QED BY <1>1, <1>3, <1>4, LiveIs

\* Matches that are told apart are all kept.
LEMMA NothingDropped ==
    ASSUME identity \in Identities, Distinct, NEW s \in Seq(Findable), IsInjective(s)
    PROVE  dedupe_find_results(s) = s
<1>1. DOMAIN identity = Range(Symbols)
      /\ (Range(Symbols) \union Range(identity)) \intersect (Range(FoundFiles) \union Range(Texts)) = {}
  BY SearchAssumption
<1>2. \A x \in Findable : IF x \in Range(Symbols) THEN Identity(x) = identity[x] /\ identity[x] \in Range(identity)
                         ELSE Identity(x) = x /\ x \in Range(FoundFiles) \union Range(Texts)
  <2> TAKE x \in Findable
  <2>1. \A y \in DOMAIN identity : identity[y] \in Range(identity)
    BY DEF Range
  <2> QED BY <1>1, <2>1 DEF Identity, Findable
<1>3. \A x, y \in Findable : Identity(x) = Identity(y) => x = y
  <2> SUFFICES ASSUME NEW x \in Findable, NEW y \in Findable, Identity(x) = Identity(y) PROVE x = y
    OBVIOUS
  <2>1. CASE x \in Range(Symbols) /\ y \in Range(Symbols)
    BY <1>1, <1>2, <2>1 DEF Distinct
  <2>2. CASE ~(x \in Range(Symbols) /\ y \in Range(Symbols))
    BY <1>1, <1>2, <2>2
  <2> QED BY <2>1, <2>2
<1>4. \A i, j \in 1..Len(s) : s[i] = s[j] => i = j
  BY RangeIs
<1>5. \A i \in 1..Len(s) : s[i] \in Findable
  OBVIOUS
<1>6. ToldApart(s)
  BY <1>3, <1>4, <1>5 DEF ToldApart
<1> QED BY <1>6, DedupeIs

(* The limit of a stage, or the end of the page if that is nearer, cuts it as the limit
   alone does, up to the end of the page. *)
LEMMA CappedAgrees ==
    ASSUME NEW V, NEW s \in Seq(V), NEW target \in Nat
    PROVE  Cut(Cut(s, Capped(target)), target) = Cut(Cut(s, StageCap), target)
<1>1. StageCap \in Nat
  BY SearchAssumption
<1>2. CASE target < StageCap
  <2>1. Capped(target) = target /\ target <= StageCap
    BY <1>1, <1>2 DEF Capped
  <2>2. Cut(Cut(s, target), target) = Cut(s, target)
    BY CutOfCut
  <2>3. Cut(Cut(s, StageCap), target) = Cut(s, target)
    BY <1>1, <2>1, CutOfCut
  <2> QED BY <2>1, <2>2, <2>3
<1>3. CASE ~(target < StageCap)
  BY <1>3 DEF Capped
<1> QED BY <1>2, <1>3

\* From the first match on, search_symbols takes the first matches.
LEMMA SearchIsCut ==
    ASSUME NEW target \in Nat
    PROVE  search_symbols(target, 0) = Cut(Live, target)
<1>1. Live \in Seq(Findable)
  BY FindableAre
<1>2. After(Live, 0) = Live
  <2> DEFINE l == Live
  <2> HIDE DEF l
  <2>1. l \in Seq(Findable)
    BY <1>1 DEF l
  <2>2. SubSeq(l, 1, Len(l)) = l
    BY <2>1
  <2> QED BY <2>2 DEF After, l
<1> QED BY <1>2 DEF search_symbols

(* What the stages of a page have put together. *)
LEMMA StagesJoin ==
    ASSUME NEW a \in Seq(Findable), NEW b \in Seq(Findable), IsInjective(a), IsInjective(b),
           Range(a) \subseteq Range(Symbols), Range(b) \subseteq Range(FoundFiles), identity \in Identities
    PROVE  a \o b \in Seq(Findable) /\ IsInjective(a \o b) /\ Range(a \o b) \intersect Range(Texts) = {}
<1>1. Range(Symbols) \intersect (Range(FoundFiles) \union Range(Texts)) = {}
      /\ Range(FoundFiles) \intersect Range(Texts) = {}
  BY SearchAssumption
<1>2. Range(a) \intersect Range(b) = {}
  BY <1>1
<1>3. a \o b \in Seq(Findable) /\ IsInjective(a \o b) /\ Range(a \o b) = Range(a) \union Range(b)
  BY <1>2, ConcatIs
<1> QED BY <1>1, <1>3

\* A page of FastFind is cut from everything it can find.
LEMMA FastPage ==
    ASSUME identity \in Identities, Distinct, OneLiveRow, NothingStale, RowsByPath,
           NEW limit \in Nat, limit <= StageCap, NEW offset \in Nat
    PROVE  fast_find(limit, offset)
              = Cut(After(Cut(Live, StageCap) \o Cut(FoundFiles, StageCap), offset), limit)
<1> DEFINE target == offset + limit
           n == Capped(target)
           a == Cut(Live, n)
           b == Cut(FoundFiles, n)
           c == Cut(Live, StageCap)
           e == Cut(FoundFiles, StageCap)
           M == Findable
<1>1. StageCap \in Nat /\ target \in Nat /\ n \in Nat /\ Capped(limit) = limit
  BY SearchAssumption DEF Capped
<1>2. /\ Live \in Seq(M) /\ IsInjective(Live) /\ Range(Live) \subseteq Range(Symbols)
      /\ FoundFiles \in Seq(M) /\ IsInjective(FoundFiles)
  BY FindableAre
<1>3. fast_find_symbols(target) = a /\ search_files_for_global(target) = b
  <2>1. fast_find_symbols(target) = a
    <3> HIDE DEF target
    <3> QED BY <1>1, FastIs
  <2> QED BY <2>1 DEF search_files_for_global
<1>4. fast_find(limit, offset) = Cut(After(dedupe_find_results(a \o b), offset), limit)
  BY <1>1, <1>3 DEF fast_find, Stages
<1> HIDE DEF n, target, M
<1>5. /\ a \in Seq(M) /\ b \in Seq(M) /\ c \in Seq(M) /\ e \in Seq(M)
      /\ IsInjective(a) /\ IsInjective(b) /\ Range(a) \subseteq Range(Live) /\ Range(b) \subseteq Range(FoundFiles)
  <2>1. a \in Seq(M) /\ b \in Seq(M) /\ c \in Seq(M) /\ e \in Seq(M)
    BY <1>1, <1>2, CutIs
  <2>2. IsInjective(a) /\ IsInjective(b) /\ Range(a) \subseteq Range(Live) /\ Range(b) \subseteq Range(FoundFiles)
    BY <1>1, <1>2, CutOf
  <2> QED BY <2>1, <2>2
<1>6. Cut(a, target) = Cut(c, target) /\ Cut(b, target) = Cut(e, target)
  BY <1>1, <1>2, CappedAgrees DEF n
<1> HIDE DEF a, b, c, e
<1>7. Range(a) \subseteq Range(Symbols)
  BY <1>2, <1>5
<1>8. a \o b \in Seq(M) /\ IsInjective(a \o b)
  BY <1>5, <1>7, StagesJoin DEF M
<1>9. dedupe_find_results(a \o b) = a \o b
  BY <1>8, NothingDropped DEF M
<1>10. Cut(a \o b, target) = Cut(c \o e, target)
  BY <1>1, <1>5, <1>6, CutAgrees
<1> DEFINE x == a \o b
           y == c \o e
<1>11. x \in Seq(M) /\ y \in Seq(M) /\ Cut(x, offset + limit) = Cut(y, offset + limit)
  BY <1>5, <1>8, <1>10, ConcatIs DEF target
<1> HIDE DEF x, y
<1>12. Cut(After(x, offset), limit) = Cut(After(y, offset), limit)
  BY <1>11, PageAgrees
<1> QED BY <1>4, <1>9, <1>12 DEF x, y, c, e

\* A page of GlobalFind is cut from everything it can find.
LEMMA GlobalPage ==
    ASSUME identity \in Identities, Distinct,
           NEW limit \in Nat, limit <= StageCap, NEW offset \in Nat
    PROVE  global_find(limit, offset)
              = Cut(After(Live \o Cut(FoundFiles, StageCap) \o Cut(Texts, StageCap), offset), limit)
<1> DEFINE target == offset + limit
           n == Capped(target)
           a == Cut(Live, target)
           b == Cut(FoundFiles, n)
           d == Cut(Texts, n)
           e == Cut(FoundFiles, StageCap)
           g == Cut(Texts, StageCap)
           l == Live
           M == Findable
           staged == a \o b
           found == IF Len(staged) < target THEN staged \o d ELSE staged
<1>1. StageCap \in Nat /\ target \in Nat /\ n \in Nat /\ Capped(limit) = limit
  BY SearchAssumption DEF Capped
<1>2. /\ l \in Seq(M) /\ IsInjective(l) /\ Range(l) \subseteq Range(Symbols)
      /\ FoundFiles \in Seq(M) /\ IsInjective(FoundFiles) /\ Texts \in Seq(M) /\ IsInjective(Texts)
  BY FindableAre
<1>3. search_symbols(target, 0) = a
  <2> HIDE DEF target
  <2> QED BY <1>1, SearchIsCut
<1>4. global_find(limit, offset) = Cut(After(dedupe_find_results(found), offset), limit)
  BY <1>1, <1>3 DEF global_find, Stages, search_files_for_global, search_text_for_global
<1> HIDE DEF n, target, M, l
<1>5. /\ a \in Seq(M) /\ b \in Seq(M) /\ d \in Seq(M) /\ e \in Seq(M) /\ g \in Seq(M)
      /\ IsInjective(a) /\ IsInjective(b) /\ IsInjective(d)
      /\ Range(a) \subseteq Range(l) /\ Range(b) \subseteq Range(FoundFiles) /\ Range(d) \subseteq Range(Texts)
  <2>1. b \in Seq(M) /\ d \in Seq(M) /\ e \in Seq(M) /\ g \in Seq(M)
    BY <1>1, <1>2, CutIs
  <2>2. IsInjective(b) /\ IsInjective(d) /\ Range(b) \subseteq Range(FoundFiles) /\ Range(d) \subseteq Range(Texts)
    BY <1>1, <1>2, CutOf
  <2>3. a \in Seq(M) /\ IsInjective(a) /\ Range(a) \subseteq Range(l)
    <3>1. Cut(l, target) \in Seq(M) /\ IsInjective(Cut(l, target)) /\ Range(Cut(l, target)) \subseteq Range(l)
      BY <1>1, <1>2, CutIs, CutOf
    <3> QED BY <3>1 DEF l
  <2> QED BY <2>1, <2>2, <2>3
<1>6. Cut(a, target) = Cut(l, target) /\ Cut(b, target) = Cut(e, target) /\ Cut(d, target) = Cut(g, target)
  <2>1. Cut(b, target) = Cut(e, target) /\ Cut(d, target) = Cut(g, target)
    BY <1>1, <1>2, CappedAgrees DEF n
  <2>2. Cut(Cut(l, target), target) = Cut(l, target)
    <3>1. target <= target
      BY <1>1
    <3> QED BY <1>1, <1>2, <3>1, CutOfCut
  <2> QED BY <2>1, <2>2 DEF l
<1> HIDE DEF a, b, d, e, g
<1>7. Range(a) \subseteq Range(Symbols)
  BY <1>2, <1>5
<1>8. staged \in Seq(M) /\ IsInjective(staged) /\ Range(staged) \intersect Range(Texts) = {}
  BY <1>5, <1>7, StagesJoin DEF M
<1> HIDE DEF staged
<1>9. staged \o d \in Seq(M) /\ IsInjective(staged \o d)
  <2>1. Range(staged) \intersect Range(d) = {}
    BY <1>5, <1>8
  <2> QED BY <1>5, <1>8, <2>1, ConcatIs
<1>10. found \in Seq(M) /\ IsInjective(found)
  BY <1>8, <1>9
<1>11. dedupe_find_results(found) = found
  <2> HIDE DEF found
  <2> QED BY <1>10, NothingDropped DEF M
<1>12. Cut(found, target) = Cut(staged \o d, target)
  <2>1. CASE Len(staged) < target
    BY <2>1
  <2>2. CASE ~(Len(staged) < target)
    <3>1. Len(staged) >= target
      <4>1. Len(staged) \in Nat
        BY <1>8
      <4> QED BY <1>1, <2>2, <4>1
    <3>2. Cut(staged \o d, target) = Cut(staged, target)
      BY <1>1, <1>5, <1>8, <3>1, CutConcat
    <3> QED BY <2>2, <3>2
  <2> QED BY <2>1, <2>2
<1> DEFINE z == l \o e
           y == z \o g
<1>13. z \in Seq(M) /\ Cut(staged, target) = Cut(z, target)
  <2>1. Cut(a \o b, target) = Cut(l \o e, target)
    BY <1>1, <1>2, <1>5, <1>6, CutAgrees
  <2>2. z \in Seq(M)
    BY <1>2, <1>5, ConcatIs
  <2> QED BY <2>1, <2>2 DEF staged
<1> HIDE DEF z
<1>14. y \in Seq(M) /\ Cut(staged \o d, target) = Cut(y, target)
  <2>1. Cut(staged \o d, target) = Cut(z \o g, target)
    BY <1>1, <1>5, <1>6, <1>8, <1>13, CutAgrees
  <2>2. y \in Seq(M)
    BY <1>5, <1>13, ConcatIs
  <2> QED BY <2>1, <2>2
<1> HIDE DEF y, found
<1>15. Cut(found, offset + limit) = Cut(y, offset + limit)
  BY <1>12, <1>14 DEF target
<1>16. Cut(After(found, offset), limit) = Cut(After(y, offset), limit)
  BY <1>10, <1>14, <1>15, PageAgrees
<1>17. y = Live \o Cut(FoundFiles, StageCap) \o Cut(Texts, StageCap)
  BY DEF y, z, l, e, g
<1> QED BY <1>4, <1>11, <1>16, <1>17

EverythingOf(kind) ==
    CASE kind = "symbols" -> Live
      [] kind = "fast" -> Cut(Live, StageCap) \o Cut(FoundFiles, StageCap)
      [] kind = "global" -> Live \o Cut(FoundFiles, StageCap) \o Cut(Texts, StageCap)

\* Everything is a sequence of what can be found.
LEMMA EverythingIs ==
    ASSUME NEW kind \in Kinds
    PROVE  EverythingOf(kind) \in Seq(Findable)
<1> DEFINE a == Cut(FoundFiles, StageCap)
           b == Cut(Texts, StageCap)
           c == Cut(Live, StageCap)
           l == Live
           M == Findable
<1>1. l \in Seq(M) /\ FoundFiles \in Seq(M) /\ Texts \in Seq(M) /\ StageCap \in Nat
  BY FindableAre, SearchAssumption
<1> HIDE DEF M
<1>2. a \in Seq(M) /\ b \in Seq(M)
  BY <1>1, CutIs
<1>3. c \in Seq(M)
  <2> HIDE DEF l
  <2>1. Cut(l, StageCap) \in Seq(M)
    BY <1>1, CutIs
  <2> QED BY <2>1 DEF l
<1> HIDE DEF a, b, c, l
<1>4. c \o a \in Seq(M) /\ l \o a \in Seq(M)
  BY <1>1, <1>2, <1>3
<1> DEFINE y == l \o a
<1> HIDE DEF y
<1>5. y \o b \in Seq(M)
  <2>1. y \in Seq(M)
    BY <1>4 DEF y
  <2> QED BY <1>2, <2>1
<1> QED BY <1>1, <1>4, <1>5 DEF EverythingOf, Kinds, y, a, b, c, l, M

\* Whatever the search, a page is cut from everything at its place.
LEMMA FoundIsSlice ==
    ASSUME identity \in Identities, Distinct, OneLiveRow, NEW kind \in Kinds,
           kind = "fast" => NothingStale /\ RowsByPath,
           NEW limit \in Nat, limit <= StageCap, NEW offset \in Nat
    PROVE  Found(kind, limit, offset) = Cut(After(EverythingOf(kind), offset), limit)
<1>1. CASE kind = "symbols"
  BY <1>1 DEF Found, EverythingOf, search_symbols
<1>2. CASE kind = "fast"
  <2>1. fast_find(limit, offset)
           = Cut(After(Cut(Live, StageCap) \o Cut(FoundFiles, StageCap), offset), limit)
    BY <1>2, FastPage
  <2> QED BY <1>2, <2>1 DEF Found, EverythingOf
<1>3. CASE kind = "global"
  <2>1. global_find(limit, offset)
           = Cut(After(Live \o Cut(FoundFiles, StageCap) \o Cut(Texts, StageCap), offset), limit)
    BY GlobalPage
  <2> QED BY <1>3, <2>1 DEF Found, EverythingOf
<1> QED BY <1>1, <1>2, <1>3 DEF Kinds

\* The pages answered so far, of an index that no longer changes.
PagesOfRequest ==
    \E n \in Nat : pages = [p \in 1..n |-> WithEngine(request.kind, request.limit, (p - 1) * request.limit)]

SearchInv ==
    /\ OneLiveRow
    /\ identity \in Identities
    /\ request \in [kind : Kinds, limit : Limits]
    /\ PagesOfRequest

\* The invariant gives the property.
LEMMA PagesOfInv ==
    ASSUME SearchInv
    PROVE  PagesAddUp
<1> DEFINE kind == request.kind
           limit == request.limit
           V == Findable \union Range(EngineFound)
           all == EverythingOf(kind)
<1>1. kind \in Kinds /\ limit \in Nat /\ identity \in Identities /\ OneLiveRow
  BY SearchAssumption DEF SearchInv
<1>2. PICK n \in Nat : pages = [p \in 1..n |-> WithEngine(kind, limit, (p - 1) * limit)]
  BY DEF SearchInv, PagesOfRequest
<1>3. Everything = all
  BY DEF Everything, EverythingOf
<1> SUFFICES ASSUME limit <= StageCap, Distinct, kind = "fast" => NothingStale /\ RowsByPath
             PROVE  LET own == From("project", FlattenSeq(pages))
                    IN  /\ IsPrefix(own, all)
                        /\ pages # << >> /\ From("engine", pages[Len(pages)]) # << >> => own = all
  BY <1>3 DEF PagesAddUp
<1> HIDE DEF kind, limit
<1>4. all \in Seq(V) /\ Range(EngineFound) \subseteq V
  <2>1. all \in Seq(Findable) /\ Findable \subseteq V
    BY <1>1, EverythingIs
  <2>2. Seq(Findable) \subseteq Seq(V)
    <3> HIDE DEF V
    <3> QED BY <2>1, WiderSeq
  <2> QED BY <2>1, <2>2
<1>5. \A offset \in Nat : Found(kind, limit, offset) = Cut(After(all, offset), limit)
  BY <1>1, FoundIsSlice
<1> HIDE DEF V, all
<1> QED BY <1>1, <1>2, <1>4, <1>5, PagesOfAll

SearchSpec == SearchInit /\ [][SearchNext]_searchVars

\* A function on 1..n is a sequence.
LEMMA FunctionIsSeq ==
    ASSUME NEW V, NEW n \in Nat, NEW f, \A i \in 1..n : f[i] \in V, f = [i \in 1..n |-> f[i]]
    PROVE  f \in Seq(V) /\ Len(f) = n
  OBVIOUS

\* It holds at first ...
LEMMA SearchStarts == SearchInit => SearchInv
<1> SUFFICES ASSUME SearchInit PROVE SearchInv
  OBVIOUS
<1> DEFINE W == Range(Symbols)
           n == Len(Symbols)
<1>1. n \in Nat /\ DOMAIN Symbols = 1..n
  <2>1. Symbols \in Seq(W)
    BY SearchAssumption
  <2> QED BY <2>1
<1>2. PICK saved \in [1..n -> W] : IsInjective(saved) /\ fts = [i \in 1..n |-> LiveRow(saved[i])]
  BY <1>1 DEF SearchInit, LiveRow
<1>3. \A i \in 1..n : fts[i] = LiveRow(saved[i]) /\ saved[i] \in W
  BY <1>2
<1>4. \A i, j \in 1..n : saved[i] = saved[j] => i = j
  BY <1>2 DEF IsInjective
<1>5. OneLiveRow
  <2>1. \A x \in W : LiveRow(x) \in RowShape /\ LiveRow(x).symbol = x
    BY DEF LiveRow, RowShape
  <2>2. fts = [i \in 1..n |-> fts[i]] /\ \A i \in 1..n : fts[i] \in RowShape
    BY <1>2, <1>3, <2>1
  <2>3. fts \in Seq(RowShape) /\ Len(fts) = n
    BY <1>1, <2>2, FunctionIsSeq
  <2>4. \A i, j \in 1..n : fts[i].symbol = fts[j].symbol => i = j
    BY <1>3, <1>4, <2>1
  <2> QED BY <2>3, <2>4 DEF OneLiveRow
<1>6. PagesOfRequest
  <2>1. pages = << >>
    BY DEF SearchInit
  <2>2. pages = [p \in 1..0 |-> WithEngine(request.kind, request.limit, (p - 1) * request.limit)]
    BY <2>1
  <2> QED BY <2>2 DEF PagesOfRequest
<1> QED BY <1>5, <1>6 DEF SearchInit, SearchInv

\* ... and when a file is parsed again: the old rows of the symbol are gone by then ...
LEMMA ReparseKeeps ==
    ASSUME SearchInv, NEW s \in Range(Symbols), NEW kept \in BOOLEAN, Reparse(s, kept)
    PROVE  SearchInv'
<1> DEFINE n == Len(fts)
           now(i) == IF fts[i].symbol = s THEN [fts[i] EXCEPT !.live = FALSE] ELSE fts[i]
           gone == [i \in DOMAIN fts |-> now(i)]
           row == [symbol |-> s, live |-> TRUE]
           more == Append(gone, row)
<1>1. /\ fts \in Seq(RowShape) /\ n \in Nat /\ DOMAIN fts = 1..n
      /\ \A i \in 1..n : fts[i] \in RowShape
      /\ \A i, j \in 1..n : fts[i].live /\ fts[j].live /\ fts[i].symbol = fts[j].symbol => i = j
  BY DEF SearchInv, OneLiveRow
<1>2. fts' = IF kept THEN more ELSE gone
  BY DEF Reparse
<1>3. \A i \in 1..n : /\ now(i) \in RowShape /\ now(i).symbol = fts[i].symbol
                      /\ now(i).live = IF fts[i].symbol = s THEN FALSE ELSE fts[i].live
  BY <1>1 DEF RowShape
<1>4. row \in RowShape
  BY DEF RowShape
<1> HIDE DEF now, row
<1>5. gone \in Seq(RowShape) /\ Len(gone) = n /\ \A i \in 1..n : gone[i] = now(i)
  <2>1. gone = [i \in 1..n |-> now(i)]
    BY <1>1
  <2>2. \A i \in 1..n : gone[i] = now(i) /\ gone[i] \in RowShape
    BY <1>3, <2>1
  <2> HIDE DEF gone, n
  <2>3. gone = [i \in 1..n |-> gone[i]]
    BY <2>1, <2>2
  <2>4. gone \in Seq(RowShape) /\ Len(gone) = n
    BY <1>1, <2>2, <2>3, FunctionIsSeq
  <2> QED BY <2>2, <2>4
<1> HIDE DEF gone, n
<1>6. more \in Seq(RowShape) /\ Len(more) = n + 1 /\ more[n + 1] = row /\ \A i \in 1..n : more[i] = gone[i]
  BY <1>4, <1>5, AppendAt
<1> HIDE DEF more
<1>7. ASSUME NEW i \in 1..n, NEW j \in 1..n, now(i).live, now(j).live, now(i).symbol = now(j).symbol
      PROVE  i = j
  <2>1. fts[i].symbol # s /\ fts[j].symbol # s
    BY <1>3, <1>7
  <2>2. fts[i].live /\ fts[j].live /\ fts[i].symbol = fts[j].symbol
    BY <1>3, <1>7, <2>1
  <2> QED BY <1>1, <2>2
<1>8. \A i \in 1..n : now(i).live => now(i).symbol # s
  BY <1>3
<1>9. row.symbol = s
  BY DEF row
<1>10. OneLiveRow'
  <2>1. CASE ~kept
    <3>1. fts' = gone
      BY <1>2, <2>1
    <3>2. \A i, j \in 1..Len(gone) :
             gone[i].live /\ gone[j].live /\ gone[i].symbol = gone[j].symbol => i = j
      BY <1>5, <1>7
    <3> QED BY <1>5, <3>1, <3>2 DEF OneLiveRow, RowShape
  <2>2. CASE kept
    <3>1. fts' = more
      BY <1>2, <2>2
    <3>2. \A i \in 1..Len(more) : i \in 1..n \/ i = n + 1
      BY <1>1, <1>6
    <3>3. \A i \in 1..n : more[i] = now(i)
      BY <1>5, <1>6
    <3>4. \A i, j \in 1..Len(more) :
             more[i].live /\ more[j].live /\ more[i].symbol = more[j].symbol => i = j
      BY <1>6, <1>7, <1>8, <1>9, <3>2, <3>3
    <3> QED BY <1>6, <3>1, <3>4 DEF OneLiveRow, RowShape
  <2> QED BY <2>1, <2>2
<1>11. PagesOfRequest'
  <2>1. pages' = << >>
    BY DEF Reparse
  <2>2. pages' = [p \in 1..0 |-> WithEngine(request.kind, request.limit, (p - 1) * request.limit)']
    BY <2>1
  <2> QED BY <2>2 DEF PagesOfRequest
<1> QED BY <1>10, <1>11 DEF Reparse, SearchInv

\* Pages depend on the rows and the identities only.
LEMMA SamePages ==
    ASSUME fts' = fts, identity' = identity
    PROVE  \A kind, limit, offset : WithEngine(kind, limit, offset)' = WithEngine(kind, limit, offset)
<1>1. Live' = Live /\ \A n : RankedRows(n)' = RankedRows(n)
  BY DEF Live, RankedRows, RankedBefore
<1>2. ASSUME NEW s PROVE dedupe_find_results(s)' = dedupe_find_results(s)
  BY DEF dedupe_find_results, Identity
<1>3. ASSUME NEW limit, NEW offset PROVE search_symbols(limit, offset)' = search_symbols(limit, offset)
  BY <1>1 DEF search_symbols
<1>4. ASSUME NEW limit PROVE fast_find_symbols(limit)' = fast_find_symbols(limit)
  BY <1>1 DEF fast_find_symbols, Capped
<1>5. ASSUME NEW kind, NEW limit, NEW target PROVE Stages(kind, limit, target)' = Stages(kind, limit, target)
  BY <1>3, <1>4 DEF Stages
<1>6. ASSUME NEW limit, NEW offset PROVE fast_find(limit, offset)' = fast_find(limit, offset)
  BY <1>2, <1>5 DEF fast_find
<1>7. ASSUME NEW limit, NEW offset PROVE global_find(limit, offset)' = global_find(limit, offset)
  BY <1>2, <1>5 DEF global_find
<1>8. ASSUME NEW kind, NEW limit, NEW offset PROVE Found(kind, limit, offset)' = Found(kind, limit, offset)
  BY <1>3, <1>6, <1>7 DEF Found
<1>9. ASSUME NEW kind, NEW limit, NEW offset PROVE WithEngine(kind, limit, offset)' = WithEngine(kind, limit, offset)
  BY <1>8 DEF WithEngine
<1> QED BY <1>9

\* ... and with another page.
LEMMA NextPageKeeps ==
    ASSUME SearchInv, NextPage
    PROVE  SearchInv'
<1> DEFINE page(p) == WithEngine(request.kind, request.limit, (p - 1) * request.limit)
<1>1. PICK n \in Nat : pages = [p \in 1..n |-> page(p)]
  BY DEF SearchInv, PagesOfRequest
<1>2. /\ pages' = Append(pages, WithEngine(request.kind, request.limit, Len(pages) * request.limit))
      /\ fts' = fts /\ identity' = identity /\ request' = request
  BY DEF NextPage
<1>3. Len(pages) = n /\ (n + 1) - 1 = n
  BY <1>1
<1>4. pages' = Append(pages, page(n + 1))
  BY <1>2, <1>3
<1> HIDE DEF page
<1> DEFINE V == {page(p) : p \in 1..(n + 1)}
           x == page(n + 1)
           more == Append(pages, x)
<1>5. (\A p \in 1..n : page(p) \in V /\ pages[p] = page(p)) /\ n + 1 \in 1..(n + 1) /\ x \in V
      /\ pages = [p \in 1..n |-> pages[p]]
  BY <1>1
<1> HIDE DEF V
<1>6. pages \in Seq(V)
  BY <1>5, FunctionIsSeq
<1> HIDE DEF x
<1>7. more \in Seq(V) /\ Len(more) = n + 1 /\ more[n + 1] = x /\ \A p \in 1..n : more[p] = pages[p]
  BY <1>3, <1>5, <1>6, AppendAt
<1> HIDE DEF more
<1>8. DOMAIN more = 1..(n + 1) /\ more = [p \in DOMAIN more |-> more[p]]
  BY <1>7
<1>9. \A p \in 1..(n + 1) : more[p] = page(p)
  <2>1. \A p \in 1..(n + 1) : p \in 1..n \/ p = n + 1
    OBVIOUS
  <2> QED BY <1>5, <1>7, <2>1 DEF x
<1>10. more = [p \in 1..(n + 1) |-> page(p)]
  BY <1>8, <1>9
<1>11. OneLiveRow' /\ (identity \in Identities)' /\ (request \in [kind : Kinds, limit : Limits])'
  BY <1>2 DEF SearchInv, OneLiveRow, RowShape
<1>12. \A kind, limit, offset : WithEngine(kind, limit, offset)' = WithEngine(kind, limit, offset)
  BY <1>2, SamePages
<1>13. PagesOfRequest'
  <2>1. pages' = [p \in 1..(n + 1) |-> page(p)]
    BY <1>4, <1>10 DEF more, x
  <2>2. \A p : page(p) = WithEngine(request.kind, request.limit, (p - 1) * request.limit)'
    BY <1>2, <1>12 DEF page
  <2>3. pages' = [p \in 1..(n + 1) |-> WithEngine(request.kind, request.limit, (p - 1) * request.limit)']
    BY <2>1, <2>2
  <2>4. n + 1 \in Nat
    OBVIOUS
  <2> QED BY <2>3, <2>4 DEF PagesOfRequest
<1> QED BY <1>11, <1>13 DEF SearchInv

(* Whatever matches, and whichever files were parsed again before, the pages of
   search_symbols, fast_find and global_find put together have every match of the project
   once and in order, and results of the Engine only behind the last one, for any size of
   a page up to the limit of a stage. *)
THEOREM PagesAlwaysAddUp == SearchSpec => []PagesAddUp
<1>1. SearchInit => SearchInv
  BY SearchStarts
<1>2. SearchInv /\ [SearchNext]_searchVars => SearchInv'
  <2> SUFFICES ASSUME SearchInv, [SearchNext]_searchVars PROVE SearchInv'
    OBVIOUS
  <2>1. ASSUME NEW s \in Range(Symbols), NEW kept \in BOOLEAN, Reparse(s, kept) PROVE SearchInv'
    BY <2>1, ReparseKeeps
  <2>2. CASE NextPage
    BY <2>2, NextPageKeeps
  <2>3. CASE UNCHANGED searchVars
    <3>1. fts' = fts /\ identity' = identity /\ request' = request /\ pages' = pages
      BY <2>3 DEF searchVars
    <3>2. PICK n \in Nat :
               pages = [p \in 1..n |-> WithEngine(request.kind, request.limit, (p - 1) * request.limit)]
      BY DEF SearchInv, PagesOfRequest
    <3>3. \A kind, limit, offset : WithEngine(kind, limit, offset)' = WithEngine(kind, limit, offset)
      BY <3>1, SamePages
    <3>4. \A p : WithEngine(request.kind, request.limit, (p - 1) * request.limit)'
                   = WithEngine(request.kind, request.limit, (p - 1) * request.limit)
      BY <3>1, <3>3
    <3>5. pages' = [p \in 1..n |-> WithEngine(request.kind, request.limit, (p - 1) * request.limit)']
      BY <3>1, <3>2, <3>4
    <3>6. PagesOfRequest'
      BY <3>5 DEF PagesOfRequest
    <3> QED BY <3>1, <3>6 DEF SearchInv, OneLiveRow, RowShape
  <2> QED BY <2>1, <2>2, <2>3 DEF SearchNext
<1>3. SearchInv => PagesAddUp
  BY PagesOfInv
<1> QED BY <1>1, <1>2, <1>3, PTL DEF SearchSpec

-----------------------------------------------------------------------------
\* What was typed and what a name is made of.

\* A text goes on being one with more characters allowed.
LEMMA MoreChars ==
    ASSUME NEW A, NEW B, A \subseteq B, NEW s \in Seq(A)
    PROVE  s \in Seq(B)
<1>1. \A i \in 1..Len(s) : s[i] \in B
  OBVIOUS
<1> QED BY <1>1

\* What is before the last item.
LEMMA FrontIs ==
    ASSUME NEW V, NEW s \in Seq(V), s # << >>
    PROVE  /\ Front(s) \in Seq(V) /\ Len(Front(s)) = Len(s) - 1 /\ Len(s) \in Nat \ {0}
           /\ \A i \in 1..(Len(s) - 1) : Front(s)[i] = s[i]
           /\ IsPrefix(Front(s), s)
<1> DEFINE f == SubSeq(s, 1, Len(s) - 1)
<1>1. Len(s) \in Nat \ {0}
  OBVIOUS
<1>2. f \in Seq(V) /\ Len(f) = Len(s) - 1 /\ \A i \in 1..(Len(s) - 1) : f[i] = s[i]
  <2> DEFINE n == Len(s) - 1
  <2>1. n \in Nat /\ n < Len(s) /\ ~(Len(s) < n)
    BY <1>1
  <2>2. Cut(s, n) \in Seq(V) /\ Len(Cut(s, n)) = n /\ \A i \in 1..n : Cut(s, n)[i] = s[i]
    <3> HIDE DEF n
    <3> QED BY <2>1, CutIs
  <2>3. Cut(s, n) = f
    BY <2>1 DEF Cut
  <2> QED BY <2>2, <2>3
<1>3. f = Front(s)
  BY DEF Front
<1> HIDE DEF f
<1>4. IsPrefix(f, s)
  <2>1. Len(f) <= Len(s)
    BY <1>1, <1>2
  <2> QED BY <1>2, <2>1, PrefixIs
<1> QED BY <1>1, <1>2, <1>3, <1>4

\* A prefix of a prefix is one.
LEMMA PrefixTrans ==
    ASSUME NEW V, NEW r \in Seq(V), NEW s \in Seq(V), NEW t \in Seq(V), IsPrefix(r, s), IsPrefix(s, t)
    PROVE  IsPrefix(r, t)
<1>1. Len(r) <= Len(s) /\ \A i \in 1..Len(r) : r[i] = s[i]
  BY PrefixIs
<1>2. Len(s) <= Len(t) /\ \A i \in 1..Len(s) : s[i] = t[i]
  BY PrefixIs
<1>3. Len(r) \in Nat /\ Len(s) \in Nat /\ Len(t) \in Nat
  OBVIOUS
<1>4. Len(r) <= Len(t) /\ \A i \in 1..Len(r) : r[i] = t[i]
  <2>1. \A i \in 1..Len(r) : i \in 1..Len(s)
    BY <1>1, <1>3
  <2> QED BY <1>1, <1>2, <1>3, <2>1
<1> QED BY <1>4, PrefixIs

\* A sequence begins with the first of two that it is put together from.
LEMMA PrefixOfConcat ==
    ASSUME NEW V, NEW s \in Seq(V), NEW t \in Seq(V)
    PROVE  IsPrefix(s, s \o t)
<1>1. s \o t \in Seq(V) /\ Len(s) <= Len(s \o t) /\ \A i \in 1..Len(s) : s[i] = (s \o t)[i]
  OBVIOUS
<1> QED BY <1>1, PrefixIs

\* What str::find looks for.
Occurs(p, s) == \E i \in DOMAIN s : IsPrefix(p, SubSeq(s, i, Len(s)))

\* Find returns a place in s if there is one.
LEMMA FindIs ==
    ASSUME NEW V, NEW s \in Seq(V), NEW p
    PROVE  Find(p, s) \in 0..Len(s) /\ (Find(p, s) # 0 <=> Occurs(p, s))
<1> DEFINE at == {i \in DOMAIN s : IsPrefix(p, SubSeq(s, i, Len(s)))}
<1>1. at \in SUBSET Nat /\ at \subseteq 1..Len(s) /\ Len(s) \in Nat
  OBVIOUS
<1>2. Find(p, s) = IF at = {} THEN 0 ELSE CHOOSE i \in at : \A j \in at : i <= j
  BY DEF Find
<1>3. at # {} <=> Occurs(p, s)
  BY DEF Occurs
<1> HIDE DEF at
<1>4. at # {} => Find(p, s) \in at
  <2> HAVE at # {}
  <2>1. \E i \in at : \A j \in at : i <= j
    BY <1>1, NatMin
  <2> QED BY <1>2, <2>1
<1>5. CASE at = {}
  BY <1>1, <1>2, <1>3, <1>5
<1>6. CASE at # {}
  <2>1. Find(p, s) \in 1..Len(s)
    BY <1>1, <1>4, <1>6
  <2>2. Find(p, s) \in 0..Len(s) /\ Find(p, s) # 0
    BY <1>1, <2>1
  <2> QED BY <1>3, <1>6, <2>2
<1> QED BY <1>5, <1>6

\* What begins with p has p in it, ...
LEMMA PrefixOccurs ==
    ASSUME NEW V, NEW s \in Seq(V), NEW p \in Seq(V), p # << >>, IsPrefix(p, s)
    PROVE  Occurs(p, s)
<1>1. Len(p) <= Len(s) /\ Len(p) \in Nat \ {0} /\ Len(s) \in Nat
  BY PrefixIs
<1>2. 1 \in DOMAIN s /\ SubSeq(s, 1, Len(s)) = s
  BY <1>1
<1> QED BY <1>2 DEF Occurs

\* ... and what has p in it has what p begins with in it, ...
LEMMA OccursShorter ==
    ASSUME NEW V, NEW s \in Seq(V), NEW p \in Seq(V), NEW q \in Seq(V), IsPrefix(q, p), Occurs(p, s)
    PROVE  Occurs(q, s)
<1>1. PICK i \in DOMAIN s : IsPrefix(p, SubSeq(s, i, Len(s)))
  BY DEF Occurs
<1>2. SubSeq(s, i, Len(s)) \in Seq(V)
  OBVIOUS
<1>3. IsPrefix(q, SubSeq(s, i, Len(s)))
  BY <1>1, <1>2, PrefixTrans
<1> QED BY <1>3 DEF Occurs

\* ... as has what ends in it.
LEMMA OccursBehind ==
    ASSUME NEW V, NEW a \in Seq(V), NEW s \in Seq(V), NEW p \in Seq(V), p # << >>, IsPrefix(p, s)
    PROVE  Occurs(p, a \o s)
<1> DEFINE c == a \o s
           i == Len(a) + 1
<1>1. Len(p) <= Len(s) /\ Len(p) \in Nat \ {0} /\ Len(s) \in Nat /\ Len(a) \in Nat
  BY PrefixIs
<1>2. c \in Seq(V) /\ Len(c) = Len(a) + Len(s) /\ \A j \in 1..Len(s) : c[Len(a) + j] = s[j]
  OBVIOUS
<1> HIDE DEF c
<1>3. i \in DOMAIN c /\ i \in 1..Len(c)
  BY <1>1, <1>2
<1>4. SubSeq(c, i, Len(c)) = s
  <2> DEFINE t == SubSeq(c, Len(a) + 1, Len(c))
  <2>1. t \in Seq(V) /\ Len(t) = Len(s) /\ \A j \in 1..Len(t) : t[j] = c[Len(a) + j]
    <3>1. Len(a) < Len(c) /\ Len(c) - Len(a) = Len(s)
      BY <1>1, <1>2
    <3>2. t \in Seq(V) /\ Len(t) = (IF Len(a) < Len(c) THEN Len(c) - Len(a) ELSE 0)
          /\ \A j \in 1..Len(t) : t[j] = c[Len(a) + j]
      BY <1>1, <1>2, AfterIs
    <3> HIDE DEF t
    <3> QED BY <3>1, <3>2
  <2> HIDE DEF t
  <2>2. t = s
    BY <1>2, <2>1, SameSeq
  <2> QED BY <2>2 DEF t
<1>5. Occurs(p, c)
  BY <1>3, <1>4 DEF Occurs
<1> QED BY <1>5 DEF c

\* A flattened sequence is a sequence.
LEMMA FlattenType ==
    ASSUME NEW V, NEW q \in Seq(Seq(V))
    PROVE  FlattenSeq(q) \in Seq(V) /\ (q = << >> => FlattenSeq(q) = << >>)
<1>1. PICK f : FlatRun(V, q, f)
  BY FlattenIsLoop
<1>2. Len(q) \in 0..Len(q) /\ (q = << >> => Len(q) = 0)
  OBVIOUS
<1> QED BY <1>1, <1>2 DEF FlatRun

\* The last sequence comes last.
LEMMA FlattenLast ==
    ASSUME NEW V, NEW q \in Seq(Seq(V)), q # << >>
    PROVE  FlattenSeq(q) = FlattenSeq(Front(q)) \o q[Len(q)]
<1> DEFINE n == Len(q) - 1
           r == Front(q)
<1>1. r \in Seq(Seq(V)) /\ Len(r) = n /\ n + 1 = Len(q) /\ n \in Nat /\ \A i \in 1..n : r[i] = q[i]
  BY FrontIs
<1> HIDE DEF r
<1>2. PICK f : FlatRun(V, q, f)
  BY FlattenIsLoop
<1>3. PICK g : FlatRun(V, r, g)
  BY <1>1, FlattenIsLoop
<1>4. f[n] = g[n]
  <2>1. \A i \in 1..n : i \in 1..Len(q)
    BY <1>1
  <2>2. \A i \in 1..n : f[i - 1] = g[i - 1] => f[i] = g[i]
    BY <1>1, <1>2, <1>3, <2>1 DEF FlatRun
  <2>3. f[0] = g[0]
    BY <1>2, <1>3 DEF FlatRun
  <2> HIDE DEF n
  <2> QED BY <1>1, <2>2, <2>3, SameRuns
<1>5. f[Len(q)] = f[n] \o q[Len(q)]
  <2>1. Len(q) \in 1..Len(q)
    BY <1>1
  <2> QED BY <1>2, <2>1 DEF FlatRun
<1> QED BY <1>1, <1>2, <1>3, <1>4, <1>5 DEF FlatRun, r

\* Putting sequences together is associative.
LEMMA ConcatAssoc ==
    ASSUME NEW V, NEW x \in Seq(V), NEW y \in Seq(V), NEW z \in Seq(V)
    PROVE  (x \o y) \o z = x \o (y \o z)
<1> SUFFICES ASSUME NEW b \in Seq(V), b = x \o y, NEW c \in Seq(V), c = y \o z,
                    NEW l \in Seq(V), l = b \o z, NEW r \in Seq(V), r = x \o c
             PROVE  l = r
  <2>1. x \o y \in Seq(V) /\ y \o z \in Seq(V)
    OBVIOUS
  <2>2. ASSUME NEW b \in Seq(V), NEW c \in Seq(V) PROVE b \o z \in Seq(V) /\ x \o c \in Seq(V)
    OBVIOUS
  <2> QED BY <2>1, <2>2
<1>0. Len(x) \in Nat /\ Len(y) \in Nat /\ Len(z) \in Nat
  OBVIOUS
<1>1. /\ Len(b) = Len(x) + Len(y)
      /\ \A i \in 1..Len(x) : b[i] = x[i]
      /\ \A i \in 1..Len(y) : b[Len(x) + i] = y[i]
  OBVIOUS
<1>2. /\ Len(c) = Len(y) + Len(z)
      /\ \A i \in 1..Len(y) : c[i] = y[i]
      /\ \A i \in 1..Len(z) : c[Len(y) + i] = z[i]
  OBVIOUS
<1>3. /\ Len(l) = Len(b) + Len(z)
      /\ \A i \in 1..Len(b) : l[i] = b[i]
      /\ \A i \in 1..Len(z) : l[Len(b) + i] = z[i]
  OBVIOUS
<1>4. /\ Len(r) = Len(x) + Len(c)
      /\ \A i \in 1..Len(x) : r[i] = x[i]
      /\ \A i \in 1..Len(c) : r[Len(x) + i] = c[i]
  OBVIOUS
<1>5. ASSUME NEW i \in 1..Len(l) PROVE l[i] = r[i]
  <2>0. i \in Nat \ {0} /\ i <= Len(x) + Len(y) + Len(z)
    BY <1>0, <1>1, <1>3
  <2>1. CASE i <= Len(x)
    <3>1. i \in 1..Len(x) /\ i \in 1..Len(b)
      BY <1>0, <1>1, <2>0, <2>1
    <3> QED BY <1>1, <1>3, <1>4, <3>1
  <2>2. CASE i > Len(x) /\ i <= Len(x) + Len(y)
    <3> DEFINE j == i - Len(x)
    <3>1. i \in 1..Len(b) /\ j \in 1..Len(y) /\ j \in 1..Len(c) /\ i = Len(x) + j
      BY <1>0, <1>1, <1>2, <2>0, <2>2
    <3> HIDE DEF j
    <3>2. l[i] = b[i] /\ b[Len(x) + j] = y[j] /\ r[Len(x) + j] = c[j] /\ c[j] = y[j]
      BY <1>1, <1>2, <1>3, <1>4, <3>1
    <3> QED BY <3>1, <3>2
  <2>3. CASE i > Len(x) + Len(y)
    <3> DEFINE k == i - (Len(x) + Len(y))
               j == Len(y) + k
    <3>1. k \in 1..Len(z) /\ j \in 1..Len(c) /\ i = Len(x) + j /\ i = Len(b) + k
      BY <1>0, <1>1, <1>2, <2>0, <2>3
    <3>2. j = Len(y) + k
      OBVIOUS
    <3> HIDE DEF j, k
    <3>3. l[Len(b) + k] = z[k] /\ r[Len(x) + j] = c[j] /\ c[Len(y) + k] = z[k]
      BY <1>2, <1>3, <1>4, <3>1
    <3> QED BY <3>1, <3>2, <3>3
  <2> QED BY <1>0, <2>0, <2>1, <2>2, <2>3
<1>6. l = r
  <2>1. Len(l) = Len(r)
    BY <1>0, <1>1, <1>2, <1>3, <1>4
  <2>2. \A i \in 1..Len(l) : l[i] = r[i]
    BY <1>5
  <2> QED BY <2>1, <2>2, SameSeq, Zenon
<1> QED BY <1>6

\* The sequences from the i-th on are what is flattened last.
LEMMA FlattenFrom ==
    ASSUME NEW V, NEW q \in Seq(Seq(V)), NEW i \in 1..Len(q)
    PROVE  LET b == FlattenSeq(SubSeq(q, i, Len(q)))
           IN  b \in Seq(V) /\ \E a \in Seq(V) : FlattenSeq(q) = a \o b
<1> DEFINE a == i - 1
           r == SubSeq(q, a + 1, Len(q))
           n == Len(q) - a
<1>1. a \in Nat /\ a + 1 = i /\ a < Len(q) /\ n \in Nat /\ a \in 0..Len(q) /\ Len(q) = a + n
  OBVIOUS
<1>2. r \in Seq(Seq(V)) /\ Len(r) = n /\ \A k \in 1..n : r[k] = q[a + k]
  <2>1. r \in Seq(Seq(V)) /\ Len(r) = (IF a < Len(q) THEN Len(q) - a ELSE 0)
        /\ \A k \in 1..Len(r) : r[k] = q[a + k]
    <3> HIDE DEF a
    <3> QED BY <1>1, AfterIs
  <2>2. Len(r) = n
    <3> HIDE DEF r
    <3> QED BY <1>1, <2>1
  <2> HIDE DEF r
  <2> QED BY <2>1, <2>2
<1> HIDE DEF r, a, n
<1>3. PICK f : FlatRun(V, q, f)
  BY FlattenIsLoop
<1>4. PICK g : FlatRun(V, r, g)
  BY <1>2, FlattenIsLoop
<1> DEFINE S == {k \in 0..n : f[a + k] = f[a] \o g[k]}
<1>5. 0 \in S
  <2>1. f[a] \in Seq(V) /\ a + 0 = a /\ 0 \in 0..n
    BY <1>1, <1>3 DEF FlatRun
  <2>2. f[a] \o << >> = f[a]
    BY <2>1
  <2>3. g[0] = << >>
    BY <1>4 DEF FlatRun
  <2> QED BY <2>1, <2>2, <2>3
<1>6. ASSUME NEW k \in 1..n, k - 1 \in S PROVE k \in S
  <2>1. a + k \in 1..Len(q) /\ (a + k) - 1 = a + (k - 1) /\ k - 1 \in 0..n /\ k \in 0..n /\ k \in 1..Len(q)
    BY <1>1
  <2>2. f[a + k] = f[a + (k - 1)] \o q[a + k]
    BY <1>3, <2>1 DEF FlatRun
  <2>3. g[k] = g[k - 1] \o q[a + k]
    BY <1>2, <1>4 DEF FlatRun
  <2>4. f[a + (k - 1)] = f[a] \o g[k - 1]
    BY <1>6
  <2>5. f[a] \in Seq(V) /\ g[k - 1] \in Seq(V) /\ q[a + k] \in Seq(V)
    <3>1. f \in [0..Len(q) -> Seq(V)] /\ g \in [0..n -> Seq(V)]
      BY <1>2, <1>3, <1>4 DEF FlatRun
    <3>2. q[a + k] \in Seq(V)
      BY <2>1
    <3> QED BY <1>1, <2>1, <3>1, <3>2
  <2>6. (f[a] \o g[k - 1]) \o q[a + k] = f[a] \o (g[k - 1] \o q[a + k])
    <3> DEFINE x == f[a]
               y == g[k - 1]
               z == q[a + k]
    <3>1. x \in Seq(V) /\ y \in Seq(V) /\ z \in Seq(V)
      BY <2>5
    <3> HIDE DEF x, y, z
    <3>2. (x \o y) \o z = x \o (y \o z)
      BY <3>1, ConcatAssoc
    <3> QED BY <3>2 DEF x, y, z
  <2> QED BY <2>1, <2>2, <2>3, <2>4, <2>6
<1>7. n \in S
  <2> HIDE DEF S
  <2>1. \A k \in 0..n : k \in S
    BY <1>1, <1>5, <1>6, NatInd
  <2> QED BY <1>1, <2>1
<1>8. /\ FlattenSeq(q) = f[a + n] /\ FlattenSeq(r) = g[n]
      /\ f[a] \in Seq(V) /\ g[n] \in Seq(V)
  <2>1. n \in 0..n
    BY <1>1
  <2> QED BY <1>1, <1>2, <1>3, <1>4, <2>1 DEF FlatRun
<1>9. FlattenSeq(q) = f[a] \o FlattenSeq(r)
  BY <1>7, <1>8
<1> QED BY <1>1, <1>8, <1>9 DEF r

\* The first sequence comes first.
LEMMA FlattenFirst ==
    ASSUME NEW V, NEW q \in Seq(Seq(V)), q # << >>
    PROVE  IsPrefix(q[1], FlattenSeq(q))
<1> DEFINE n == Len(q)
<1>1. n \in Nat \ {0} /\ 1 \in 1..n /\ q[1] \in Seq(V) /\ n \in 0..n
  OBVIOUS
<1>2. PICK f : FlatRun(V, q, f)
  BY FlattenIsLoop
<1> DEFINE S == {k \in 0..n : k # 0 => IsPrefix(q[1], f[k])}
<1>3. 0 \in S
  BY <1>1
<1>4. ASSUME NEW k \in 1..n, k - 1 \in S PROVE k \in S
  <2>1. k \in 0..n /\ k - 1 \in 0..n /\ q[k] \in Seq(V)
    BY <1>1
  <2>2. f[k] = f[k - 1] \o q[k] /\ f[k - 1] \in Seq(V) /\ f[k] \in Seq(V) /\ f[0] = << >>
    BY <1>2, <2>1 DEF FlatRun
  <2>3. CASE k = 1
    <3>0. k - 1 = 0
      BY <2>3
    <3>1. f[k] = << >> \o q[1]
      BY <2>2, <2>3, <3>0
    <3>2. << >> \o q[1] = q[1] /\ q[1] \o << >> = q[1]
      <4> DEFINE w == q[1]
      <4>1. w \in Seq(V)
        BY <1>1
      <4> HIDE DEF w
      <4>2. << >> \o w = w /\ w \o << >> = w
        BY <4>1
      <4> QED BY <4>2 DEF w
    <3>3. IsPrefix(q[1], q[1] \o << >>)
      BY <1>1, EmptyIs, PrefixOfConcat
    <3> QED BY <2>1, <3>1, <3>2, <3>3
  <2>4. CASE k # 1
    <3>1. IsPrefix(q[1], f[k - 1])
      BY <1>4, <2>4
    <3>2. IsPrefix(f[k - 1], f[k])
      BY <2>1, <2>2, PrefixOfConcat
    <3>3. IsPrefix(q[1], f[k])
      BY <1>1, <2>2, <3>1, <3>2, PrefixTrans
    <3> QED BY <2>1, <3>3
  <2> QED BY <2>3, <2>4
<1>5. n \in S
  <2> HIDE DEF S, n
  <2>1. \A k \in 0..n : k \in S
    BY <1>1, <1>3, <1>4, NatInd
  <2> QED BY <1>1, <2>1
<1> QED BY <1>1, <1>2, <1>5 DEF FlatRun

\* A word more, and a character more of the last word.
Begun(q, x) == Append(q, <<x>>)
Continued(q, x) == [q EXCEPT ![Len(q)] = Append(@, x)]

\* Either puts the character behind what is flattened.
LEMMA FlattenGrows ==
    ASSUME NEW V, NEW q \in Seq(Seq(V)), NEW x \in V
    PROVE  /\ FlattenSeq(Begun(q, x)) = Append(FlattenSeq(q), x) /\ Len(Begun(q, x)) = Len(q) + 1
           /\ q # << >> => FlattenSeq(Continued(q, x)) = Append(FlattenSeq(q), x) /\ Len(Continued(q, x)) = Len(q)
<1>1. ASSUME NEW t \in Seq(V) PROVE t \o <<x>> = Append(t, x)
  OBVIOUS
<1>2. FlattenSeq(Begun(q, x)) = Append(FlattenSeq(q), x) /\ Len(Begun(q, x)) = Len(q) + 1
  <2> SUFFICES ASSUME NEW e, e = Append(q, <<x>>)
               PROVE  FlattenSeq(e) = Append(FlattenSeq(q), x) /\ Len(e) = Len(q) + 1
    BY DEF Begun
  <2>1. /\ e \in Seq(Seq(V)) /\ e # << >> /\ Len(e) = Len(q) + 1 /\ Len(q) \in Nat
        /\ e[Len(e)] = <<x>> /\ \A i \in 1..Len(q) : e[i] = q[i]
    OBVIOUS
  <2>2. Front(e) \in Seq(Seq(V)) /\ Len(Front(e)) = Len(q) /\ \A i \in 1..Len(q) : Front(e)[i] = q[i]
    <3>1. Len(e) - 1 = Len(q)
      BY <2>1
    <3>2. Front(e) \in Seq(Seq(V)) /\ Len(Front(e)) = Len(e) - 1
          /\ \A i \in 1..(Len(e) - 1) : Front(e)[i] = e[i]
      BY <2>1, FrontIs
    <3> QED BY <2>1, <3>1, <3>2
  <2>3. Front(e) = q
    <3> SUFFICES ASSUME NEW f, f = Front(e) PROVE f = q
      OBVIOUS
    <3>1. f \in Seq(Seq(V)) /\ Len(f) = Len(q) /\ \A i \in 1..Len(f) : f[i] = q[i]
      BY <2>2
    <3> QED BY <3>1, SameSeq, Zenon
  <2>4. FlattenSeq(e) = FlattenSeq(q) \o <<x>>
    BY <2>1, <2>3, FlattenLast
  <2>5. FlattenSeq(q) \in Seq(V)
    BY FlattenType
  <2> QED BY <1>1, <2>1, <2>4, <2>5
<1>3. ASSUME q # << >>
      PROVE  FlattenSeq(Continued(q, x)) = Append(FlattenSeq(q), x) /\ Len(Continued(q, x)) = Len(q)
  <2> DEFINE n == Len(q)
             last == Append(q[n], x)
  <2> SUFFICES ASSUME NEW e, e = [q EXCEPT ![n] = Append(@, x)]
               PROVE  FlattenSeq(e) = Append(FlattenSeq(q), x) /\ Len(e) = n
    BY DEF Continued
  <2>0. n \in Nat \ {0} /\ n \in 1..n /\ q[n] \in Seq(V) /\ last \in Seq(V)
    BY <1>3
  <2>1. /\ e \in Seq(Seq(V)) /\ e # << >> /\ Len(e) = n /\ e[n] = last
        /\ \A i \in 1..(n - 1) : e[i] = q[i]
    BY <1>3, <2>0
  <2>2. /\ Front(e) \in Seq(Seq(V)) /\ Len(Front(e)) = n - 1 /\ \A i \in 1..(n - 1) : Front(e)[i] = e[i]
        /\ Front(q) \in Seq(Seq(V)) /\ Len(Front(q)) = n - 1 /\ \A i \in 1..(n - 1) : Front(q)[i] = q[i]
    BY <1>3, <2>1, FrontIs
  <2>3. Front(e) = Front(q)
    <3> SUFFICES ASSUME NEW f, f = Front(e), NEW g, g = Front(q) PROVE f = g
      OBVIOUS
    <3>1. f \in Seq(Seq(V)) /\ g \in Seq(Seq(V)) /\ Len(f) = Len(g) /\ \A i \in 1..Len(f) : f[i] = g[i]
      BY <2>1, <2>2
    <3> QED BY <3>1, SameSeq, Zenon
  <2>4. FlattenSeq(e) = FlattenSeq(Front(q)) \o last /\ FlattenSeq(q) = FlattenSeq(Front(q)) \o q[n]
    BY <1>3, <2>1, <2>3, FlattenLast
  <2>5. ASSUME NEW t \in Seq(V), NEW u \in Seq(V) PROVE t \o Append(u, x) = Append(t \o u, x)
    OBVIOUS
  <2>6. FlattenSeq(Front(q)) \in Seq(V)
    BY <2>2, FlattenType
  <2>7. FlattenSeq(Front(q)) \o Append(q[n], x) = Append(FlattenSeq(Front(q)) \o q[n], x)
    BY <2>0, <2>5, <2>6
  <2> QED BY <2>1, <2>4, <2>7
<1> QED BY <1>2, <1>3

\* Letters in lower case and underscores.
Chars == Letters \union {"_"}
SplitStates == {w \in [words : Seq(Seq(Chars)), new : BOOLEAN, small : BOOLEAN] : w.new \/ w.words # << >>}
SplitStart == [words |-> << >>, new |-> TRUE, small |-> FALSE]

\* A character is an underscore or a letter in one of the cases.
LEMMA CharIs ==
    ASSUME NEW c \in Characters
    PROVE  /\ c = Underscore => c[1] = "_" /\ c[1] \notin Letters
           /\ c # Underscore => c[1] \in Letters /\ c[1] # "_"
           /\ c[1] \in Chars
<1>1. "_" \notin Letters
  BY MatchingAssumption
<1>2. CASE c = Underscore
  <2>1. c[1] = "_"
    BY <1>2 DEF Underscore
  <2> QED BY <1>1, <1>2, <2>1 DEF Chars
<1>3. CASE c # Underscore
  <2>1. c \in Letters \X {"lower", "upper"}
    BY <1>3 DEF Characters
  <2>2. c[1] \in Letters
    BY <2>1
  <2> QED BY <1>1, <1>3, <2>2 DEF Chars
<1> QED BY <1>2, <1>3

\* What Split does with a character: nothing, begin a word or continue the last.
LEMMA SplitIs ==
    ASSUME NEW w \in SplitStates, NEW c \in Characters
    PROVE  /\ Split(w, c) \in SplitStates
           /\ c = Underscore => Split(w, c).words = w.words
           /\ c # Underscore => \/ Split(w, c).words = Begun(w.words, c[1])
                                \/ w.words # << >> /\ Split(w, c).words = Continued(w.words, c[1])
<1> DEFINE q == w.words
           more == Append(q, <<c[1]>>)
           last == [q EXCEPT ![Len(q)] = Append(@, c[1])]
           small == (c[2] = "lower")
<1>1. q \in Seq(Seq(Chars)) /\ w.new \in BOOLEAN /\ w.small \in BOOLEAN /\ (w.new \/ q # << >>)
  BY DEF SplitStates
<1>2. c[1] \in Chars /\ small \in BOOLEAN
  BY CharIs
<1>3. more \in Seq(Seq(Chars)) /\ more # << >>
  <2>1. ASSUME NEW r \in Seq(Seq(Chars)), NEW y \in Seq(Chars)
        PROVE  Append(r, y) \in Seq(Seq(Chars)) /\ Append(r, y) # << >>
    <3>1. Append(r, y) \in Seq(Seq(Chars)) /\ Len(Append(r, y)) = Len(r) + 1 /\ Len(r) \in Nat
      OBVIOUS
    <3>2. Len(Append(r, y)) # 0
      BY <3>1
    <3> QED BY <3>1, <3>2, EmptyIs
  <2>2. ASSUME NEW x \in Chars PROVE <<x>> \in Seq(Chars)
    OBVIOUS
  <2>3. <<c[1]>> \in Seq(Chars)
    BY <1>2, <2>2
  <2> QED BY <1>1, <2>1, <2>3
<1>4. q # << >> => last \in Seq(Seq(Chars)) /\ last # << >>
  BY <1>1, <1>2
<1>5. CASE c = Underscore
  <2>1. Split(w, c) = [words |-> q, new |-> TRUE, small |-> FALSE]
    BY <1>5 DEF Split
  <2>2. Split(w, c).words = w.words
    BY <2>1
  <2>3. Split(w, c) \in SplitStates
    BY <1>1, <2>1 DEF SplitStates
  <2> QED BY <1>5, <2>2, <2>3
<1>6. CASE c # Underscore /\ (w.new \/ (c[2] = "upper" /\ w.small))
  <2>1. Split(w, c) = [words |-> more, new |-> FALSE, small |-> small]
    BY <1>6 DEF Split
  <2> HIDE DEF more, small
  <2>2. Split(w, c).words = more
    BY <2>1
  <2>3. Split(w, c) \in SplitStates
    BY <1>2, <1>3, <2>1 DEF SplitStates
  <2> QED BY <1>6, <2>2, <2>3 DEF more, Begun
<1>7. CASE c # Underscore /\ ~(w.new \/ (c[2] = "upper" /\ w.small))
  <2>1. Split(w, c) = [words |-> last, new |-> FALSE, small |-> small]
    BY <1>7 DEF Split
  <2>2. q # << >>
    BY <1>1, <1>7
  <2> HIDE DEF last, small
  <2>3. Split(w, c).words = last
    BY <2>1
  <2>4. Split(w, c) \in SplitStates
    BY <1>2, <1>4, <2>1, <2>2 DEF SplitStates
  <2> QED BY <1>7, <2>2, <2>3, <2>4 DEF last, Continued
<1> QED BY <1>5, <1>6, <1>7

\* Lower, character by character.
LEMMA LowerIs ==
    ASSUME NEW s \in Seq(Characters)
    PROVE  /\ Lower(s) \in Seq(Chars) /\ Len(Lower(s)) = Len(s)
           /\ \A i \in 1..Len(s) : Lower(s)[i] = s[i][1]
           /\ s # << >> => Lower(Front(s)) = Front(Lower(s)) /\ Lower(s) # << >>
<1>1. ASSUME NEW t \in Seq(Characters)
      PROVE  /\ Lower(t) \in Seq(Chars) /\ Len(Lower(t)) = Len(t)
             /\ \A i \in 1..Len(t) : Lower(t)[i] = t[i][1]
  <2>1. DOMAIN t = 1..Len(t) /\ Len(t) \in Nat
    OBVIOUS
  <2>2. ASSUME NEW i \in 1..Len(t) PROVE t[i][1] \in Chars
    <3>1. t[i] \in Characters
      OBVIOUS
    <3> QED BY <3>1, CharIs
  <2>3. Lower(t) = [i \in 1..Len(t) |-> t[i][1]]
    BY <2>1 DEF Lower
  <2> QED BY <2>1, <2>2, <2>3
<1>2. ASSUME s # << >> PROVE Lower(Front(s)) = Front(Lower(s)) /\ Lower(s) # << >>
  <2>1. /\ Front(s) \in Seq(Characters) /\ Len(Front(s)) = Len(s) - 1 /\ Len(s) \in Nat \ {0}
        /\ \A i \in 1..(Len(s) - 1) : Front(s)[i] = s[i]
    BY <1>2, FrontIs
  <2>2. Lower(s) \in Seq(Chars) /\ Len(Lower(s)) = Len(s) /\ \A i \in 1..Len(s) : Lower(s)[i] = s[i][1]
    BY <1>1
  <2>3. Lower(s) # << >>
    BY <2>1, <2>2, EmptyIs
  <2>4. /\ Lower(Front(s)) \in Seq(Chars) /\ Len(Lower(Front(s))) = Len(s) - 1
        /\ \A i \in 1..(Len(s) - 1) : Lower(Front(s))[i] = Front(s)[i][1]
    BY <1>1, <2>1
  <2>5. /\ Front(Lower(s)) \in Seq(Chars) /\ Len(Front(Lower(s))) = Len(s) - 1
        /\ \A i \in 1..(Len(s) - 1) : Front(Lower(s))[i] = Lower(s)[i]
    <3>1. /\ Front(Lower(s)) \in Seq(Chars) /\ Len(Front(Lower(s))) = Len(Lower(s)) - 1
          /\ \A i \in 1..(Len(Lower(s)) - 1) : Front(Lower(s))[i] = Lower(s)[i]
      BY <2>2, <2>3, FrontIs
    <3> QED BY <2>2, <3>1
  <2>6. Len(Lower(Front(s))) = Len(Front(Lower(s)))
        /\ \A i \in 1..Len(Lower(Front(s))) : Lower(Front(s))[i] = Front(Lower(s))[i]
    <3>1. ASSUME NEW i \in 1..(Len(s) - 1) PROVE Lower(Front(s))[i] = Front(Lower(s))[i]
      <4>1. i \in 1..Len(s)
        BY <2>1
      <4>2. Lower(Front(s))[i] = Front(s)[i][1] /\ Front(s)[i] = s[i]
        BY <2>1, <2>4
      <4>3. Front(Lower(s))[i] = Lower(s)[i] /\ Lower(s)[i] = s[i][1]
        BY <2>2, <2>5, <4>1
      <4> QED BY <4>2, <4>3
    <3>2. Len(Lower(Front(s))) = Len(s) - 1 /\ Len(Front(Lower(s))) = Len(s) - 1
      BY <2>4, <2>5
    <3> QED BY <3>1, <3>2
  <2> QED BY <2>3, <2>4, <2>5, <2>6, SameSeq, Zenon
<1> QED BY <1>1, <1>2

SplitRun(s, m) ==
    /\ m \in [0..Len(s) -> SplitStates] /\ m[0] = SplitStart /\ split_identifier_words(s) = m[Len(s)].words
    /\ \A i \in 1..Len(s) : m[i] = Split(m[i - 1], s[i])

\* split_identifier_words is the last result of its loop.
LEMMA SplitIsLoop ==
    ASSUME NEW s \in Seq(Characters)
    PROVE  \E m : SplitRun(s, m)
<1> DEFINE n == Len(s)
           A == SplitStates
           step == [x \in A \X (1..n) |-> Split(x[1], s[x[2]])]
           r == CHOOSE split : split = [i \in 0..n |->
                    IF i = 0 THEN [words |-> << >>, new |-> TRUE, small |-> FALSE] ELSE Split(split[i - 1], s[i])]
<1>1. n \in Nat /\ SplitStart \in A /\ \A i \in 1..n : s[i] \in Characters
  <2>1. << >> \in Seq(Seq(Chars))
    OBVIOUS
  <2> QED BY <2>1 DEF SplitStart, SplitStates
<1>2. split_identifier_words(s) = r[n].words
  BY DEF split_identifier_words
<1>3. step \in Steps(A, n)
  <2> SUFFICES ASSUME NEW w \in A, NEW i \in 1..n PROVE Split(w, s[i]) \in A
    BY DEF Steps
  <2> QED BY <1>1, SplitIs
<1>4. PICK acc \in [0..n -> A] : acc[0] = SplitStart /\ \A i \in 1..n : acc[i] = step[<<acc[i - 1], i>>]
  <2>1. \E acc : IsRun(A, SplitStart, n, step, acc)
    <3> HIDE DEF step, n, A
    <3> QED BY <1>1, <1>3, LoopExists
  <2> HIDE DEF step, A
  <2> QED BY <2>1 DEF IsRun
<1>5. \A i \in 1..n : acc[i] = Split(acc[i - 1], s[i])
  <2> TAKE i \in 1..n
  <2>1. acc[i - 1] \in A
    BY <1>1
  <2> QED BY <1>4, <2>1
<1>6. acc = [i \in 0..n |-> IF i = 0 THEN [words |-> << >>, new |-> TRUE, small |-> FALSE]
                                     ELSE Split(acc[i - 1], s[i])]
  <2> \A i \in 0..n : i # 0 => i \in 1..n
    OBVIOUS
  <2> HIDE DEF step, n, A
  <2> QED BY <1>4, <1>5 DEF SplitStart
<1>7. r = [i \in 0..n |-> IF i = 0 THEN [words |-> << >>, new |-> TRUE, small |-> FALSE]
                                   ELSE Split(r[i - 1], s[i])]
  <2> HIDE DEF n
  <2> QED BY <1>6
<1> HIDE DEF r, step
<1>8. r[0] = SplitStart /\ \A i \in 1..n : r[i] = Split(r[i - 1], s[i])
  <2>1. 0 \in 0..n /\ \A i \in 1..n : i \in 0..n /\ i # 0
    BY <1>1
  <2> HIDE DEF n
  <2> QED BY <1>7, <2>1 DEF SplitStart
<1>9. r[n] = acc[n]
  <2> HIDE DEF n
  <2>1. \A i \in 1..n : r[i - 1] = acc[i - 1] => r[i] = acc[i]
    BY <1>5, <1>8
  <2>2. r[0] = acc[0]
    BY <1>4, <1>8
  <2> QED BY <1>1, <2>1, <2>2, SameRuns
<1>10. SplitRun(s, acc)
  BY <1>2, <1>4, <1>5, <1>9 DEF SplitRun
<1> QED BY <1>10

\* One character more leaves the words, begins one or continues the last.
LEMMA SplitMore ==
    ASSUME NEW s \in Seq(Characters), s # << >>
    PROVE  \E w \in SplitStates : /\ split_identifier_words(Front(s)) = w.words
                                  /\ split_identifier_words(s) = Split(w, s[Len(s)]).words
<1> DEFINE n == Len(s) - 1
           r == Front(s)
<1>1. r \in Seq(Characters) /\ Len(r) = n /\ n + 1 = Len(s) /\ n \in Nat /\ \A i \in 1..n : r[i] = s[i]
  BY FrontIs
<1> HIDE DEF r
<1>2. PICK f : SplitRun(s, f)
  BY SplitIsLoop
<1>3. PICK g : SplitRun(r, g)
  BY <1>1, SplitIsLoop
<1>4. f[n] = g[n]
  <2>1. \A i \in 1..n : i \in 1..Len(s)
    BY <1>1
  <2>2. \A i \in 1..n : f[i - 1] = g[i - 1] => f[i] = g[i]
    BY <1>1, <1>2, <1>3, <2>1 DEF SplitRun
  <2>3. f[0] = g[0]
    BY <1>2, <1>3 DEF SplitRun
  <2> HIDE DEF n
  <2> QED BY <1>1, <2>2, <2>3, SameRuns
<1>5. f[Len(s)] = Split(f[n], s[Len(s)]) /\ f[n] \in SplitStates
  <2>1. Len(s) \in 1..Len(s) /\ n \in 0..Len(s)
    BY <1>1
  <2> QED BY <1>2, <2>1 DEF SplitRun
<1> QED BY <1>1, <1>2, <1>3, <1>4, <1>5 DEF SplitRun, r

\* The words put together are what compact_identifier keeps.
LEMMA WordsAre ==
    ASSUME NEW s \in Seq(Characters)
    PROVE  LET words == split_identifier_words(s)
           IN  /\ words \in Seq(Seq(Chars)) /\ Len(words) <= Len(s)
               /\ compact_identifier(s) \in Seq(Chars) /\ Len(compact_identifier(s)) <= Len(s)
               /\ FlattenSeq(words) = compact_identifier(s)
<1> DEFINE n == Len(s)
           t == Lower(s)
<1>1. n \in Nat /\ t \in Seq(Chars) /\ Len(t) = n /\ \A i \in 1..n : s[i] \in Characters /\ t[i] = s[i][1]
  BY LowerIs
<1> HIDE DEF t
<1>2. PICK m : SplitRun(s, m)
  BY SplitIsLoop
<1>3. PICK kept : KeepRun(Chars, t, Letters, kept)
  BY <1>1, KeepIsLoop
<1> DEFINE S == {i \in 0..n : /\ FlattenSeq(m[i].words) = kept[i]
                              /\ Len(m[i].words) <= i /\ Len(kept[i]) <= i}
<1>4. 0 \in S
  <2>1. m[0].words = << >>
    BY <1>2 DEF SplitRun, SplitStart
  <2>2. kept[0] = << >> /\ 0 \in 0..n
    BY <1>1, <1>3 DEF KeepRun
  <2>3. FlattenSeq(<< >>) = << >>
    <3>1. << >> \in Seq(Seq(Chars))
      OBVIOUS
    <3> QED BY <3>1, FlattenType
  <2> QED BY <2>1, <2>2, <2>3, EmptyIs
<1>5. ASSUME NEW i \in 1..n, i - 1 \in S PROVE i \in S
  <2> DEFINE w == m[i - 1]
             c == s[i]
             q == w.words
  <2>1. /\ i \in 0..n /\ i - 1 \in 0..n /\ m[i] = Split(w, c) /\ w \in SplitStates /\ c \in Characters
        /\ kept[i] = (IF t[i] \in Letters THEN Append(kept[i - 1], t[i]) ELSE kept[i - 1]) /\ t[i] = c[1]
    <3>1. i \in 0..n /\ i - 1 \in 0..n
      BY <1>1
    <3>2. m[i] = Split(w, c) /\ w \in SplitStates
      BY <1>2, <3>1 DEF SplitRun
    <3>3. kept[i] = (IF t[i] \in Letters THEN Append(kept[i - 1], t[i]) ELSE kept[i - 1])
      BY <1>1, <1>3 DEF KeepRun
    <3> QED BY <1>1, <3>1, <3>2, <3>3
  <2>2. q \in Seq(Seq(Chars)) /\ FlattenSeq(q) = kept[i - 1] /\ Len(q) <= i - 1 /\ Len(q) \in Nat
    BY <1>5, <2>1 DEF SplitStates
  <2> HIDE DEF w, c
  <2>3. FlattenSeq(m[i].words) = kept[i] /\ Len(m[i].words) \in {Len(q), Len(q) + 1}
    <3>1. CASE c = Underscore
      <4>1. m[i].words = q /\ kept[i] = kept[i - 1]
        BY <2>1, <3>1, SplitIs, CharIs
      <4> QED BY <2>2, <4>1
    <3>2. CASE c # Underscore
      <4>1. kept[i] = Append(FlattenSeq(q), c[1]) /\ c[1] \in Chars
        BY <2>1, <2>2, <3>2, CharIs
      <4>2. m[i].words = Begun(q, c[1]) \/ (q # << >> /\ m[i].words = Continued(q, c[1]))
        BY <2>1, <3>2, SplitIs
      <4> HIDE DEF q
      <4> QED BY <2>2, <4>1, <4>2, FlattenGrows
    <3> QED BY <3>1, <3>2
  <2> HIDE DEF q
  <2>4. Len(m[i].words) <= i
    BY <2>2, <2>3
  <2>5. Len(kept[i]) <= i
    <3>1. kept[i - 1] \in Seq(Chars) /\ t[i] \in Chars /\ Len(kept[i - 1]) <= i - 1
      <4>1. kept \in [0..n -> Seq(Chars)]
        BY <1>1, <1>3 DEF KeepRun
      <4>2. kept[i - 1] \in Seq(Chars)
        <5> HIDE DEF n
        <5> QED BY <2>1, <4>1
      <4>3. t[i] \in Chars
        BY <2>1, CharIs
      <4>4. Len(kept[i - 1]) <= i - 1
        BY <1>5
      <4> QED BY <4>2, <4>3, <4>4
    <3>2. Len(kept[i]) \in {Len(kept[i - 1]), Len(kept[i - 1]) + 1} /\ Len(kept[i - 1]) \in Nat
      BY <2>1, <3>1
    <3> QED BY <3>1, <3>2
  <2> QED BY <2>1, <2>3, <2>4, <2>5
<1>6. n \in S
  <2> HIDE DEF S, n
  <2>1. \A i \in 0..n : i \in S
    BY <1>1, <1>4, <1>5, NatInd
  <2> QED BY <1>1, <2>1
<1>7. compact_identifier(s) = kept[n] /\ kept[n] \in Seq(Chars)
  <2>1. n \in 0..n
    BY <1>1
  <2> QED BY <1>1, <1>3, <2>1 DEF KeepRun, compact_identifier, t
<1>8. split_identifier_words(s) = m[n].words /\ m[n] \in SplitStates
  <2>1. n \in 0..n
    BY <1>1
  <2> QED BY <1>2, <2>1 DEF SplitRun
<1> QED BY <1>6, <1>7, <1>8 DEF SplitStates

\* What compact_identifier keeps without the last character begins what it keeps.
LEMMA CompactFront ==
    ASSUME NEW s \in Seq(Characters), s # << >>
    PROVE  IsPrefix(compact_identifier(Front(s)), compact_identifier(s))
<1> DEFINE c == s[Len(s)]
<1>1. PICK w \in SplitStates : /\ split_identifier_words(Front(s)) = w.words
                               /\ split_identifier_words(s) = Split(w, c).words
  BY SplitMore
<1>2. c \in Characters /\ Front(s) \in Seq(Characters)
  BY FrontIs
<1> DEFINE a == compact_identifier(Front(s))
           b == compact_identifier(s)
<1>3. a \in Seq(Chars) /\ b \in Seq(Chars) /\ a = FlattenSeq(w.words) /\ b = FlattenSeq(Split(w, c).words)
      /\ w.words \in Seq(Seq(Chars))
  BY <1>1, <1>2, WordsAre
<1> HIDE DEF a, b, c
<1>4. CASE b = a
  <2>1. Len(a) <= Len(b) /\ \A i \in 1..Len(a) : a[i] = b[i]
    BY <1>3, <1>4
  <2> QED BY <1>3, <2>1, PrefixIs DEF a, b
<1>5. CASE c # Underscore
  <2>1. b = Append(a, c[1]) /\ c[1] \in Chars
    <3>1. c[1] \in Chars
      BY <1>2, CharIs
    <3>2. \/ Split(w, c).words = Begun(w.words, c[1])
          \/ w.words # << >> /\ Split(w, c).words = Continued(w.words, c[1])
      BY <1>2, <1>5, SplitIs
    <3> QED BY <1>3, <3>1, <3>2, FlattenGrows
  <2>2. Len(a) <= Len(b) /\ \A i \in 1..Len(a) : a[i] = b[i]
    BY <1>3, <2>1
  <2> QED BY <1>3, <2>2, PrefixIs DEF a, b
<1>6. CASE c = Underscore
  BY <1>2, <1>3, <1>4, <1>6, SplitIs
<1> QED BY <1>5, <1>6 DEF a, b

\* A name without underscores is kept as it is.
LEMMA CompactAll ==
    ASSUME NEW s \in Seq(Characters), Underscore \notin Range(s)
    PROVE  compact_identifier(s) = Lower(s)
<1> DEFINE n == Len(s)
           t == Lower(s)
<1>1. n \in Nat /\ t \in Seq(Chars) /\ Len(t) = n /\ \A i \in 1..n : s[i] \in Characters /\ t[i] = s[i][1]
  BY LowerIs
<1>2. \A i \in 1..n : t[i] \in Letters
  <2> TAKE i \in 1..n
  <2>1. s[i] # Underscore
    BY RangeIs
  <2> QED BY <1>1, <2>1, CharIs
<1>3. compact_identifier(s) = KeepIn(t, Letters)
  BY DEF compact_identifier
<1> HIDE DEF t
<1>4. PICK kept : KeepRun(Chars, t, Letters, kept)
  BY <1>1, KeepIsLoop
<1> DEFINE S == {i \in 0..n : kept[i] = Cut(t, i)}
<1>5. 0 \in S
  BY <1>1, <1>4, CutOf DEF KeepRun
<1>6. ASSUME NEW i \in 1..n, i - 1 \in S PROVE i \in S
  <2>1. kept[i] = Append(kept[i - 1], t[i]) /\ i \in 0..n /\ i \in 1..Len(t)
    <3>1. i \in 0..n /\ i \in 1..Len(t) /\ t[i] \in Letters
      BY <1>1, <1>2
    <3> QED BY <1>4, <3>1 DEF KeepRun
  <2>2. Cut(t, i) = Append(Cut(t, i - 1), t[i])
    BY <1>1, <2>1, CutStep
  <2> QED BY <1>6, <2>1, <2>2
<1>7. n \in S
  <2> HIDE DEF S, n
  <2>1. \A i \in 0..n : i \in S
    BY <1>1, <1>5, <1>6, NatInd
  <2> QED BY <1>1, <2>1
<1>8. Cut(t, n) = t
  BY <1>1, CutOf
<1> QED BY <1>1, <1>3, <1>4, <1>7, <1>8 DEF KeepRun, t

\* The least of some numbers is one of them.
LEMMA LeastIs ==
    ASSUME NEW S \in SUBSET Nat, S # {}
    PROVE  LeastOr(S) \in S
<1>1. \E x \in S : \A y \in S : x <= y
  BY NatMin
<1>2. LeastOr(S) = CHOOSE r \in S : \A q \in S : r <= q
  BY DEF LeastOr
<1> QED BY <1>1, <1>2

\* The words typed can be laid on those of a name if and only if there is a rank, and
\* ranks are no higher than ten times the words and the words skipped.
LEMMA OrderedIs ==
    ASSUME NEW V, NEW words \in Seq(V), NEW typed \in Seq(V), Len(typed) >= 2
    PROVE  /\ Layouts(words, typed) = {} => ordered_word_match_rank(words, typed) = MATCH_NONE
           /\ Layouts(words, typed) # {} => ordered_word_match_rank(words, typed) \in 0..(11 * Len(words))
<1> DEFINE n == Len(typed)
           L == {Rank(at, n) : at \in Layouts(words, typed)}
<1>1. ordered_word_match_rank(words, typed) = LeastOr(L)
  BY GreedyIsBest
<1>2. ASSUME NEW at \in Layouts(words, typed) PROVE Rank(at, n) \in 0..(11 * Len(words))
  <2>1. /\ n \in Nat /\ 1 \in 1..n /\ n \in 1..n
        /\ \A i \in 1..n : at[i] \in 1..Len(words)
        /\ \A i, j \in 1..n : i < j => at[i] < at[j]
    <3>1. DOMAIN typed = 1..n /\ DOMAIN words = 1..Len(words) /\ n \in Nat
      OBVIOUS
    <3>2. at \in [1..n -> 1..Len(words)] /\ \A i, j \in 1..n : i < j => at[i] < at[j]
      BY <3>1, Zenon DEF Layouts
    <3>3. 1 \in 1..n /\ n \in 1..n
      BY <3>1
    <3> QED BY <3>1, <3>2, <3>3
  <2> DEFINE S == {i \in 0..n : i # 0 => at[i] >= at[1] + i - 1}
  <2>2. 0 \in S
    BY <2>1
  <2>3. ASSUME NEW i \in 1..n, i - 1 \in S PROVE i \in S
    <3>1. at[1] \in Nat /\ at[i] \in Nat /\ i \in 0..n
      BY <2>1
    <3>2. CASE i = 1
      BY <3>1, <3>2
    <3>3. CASE i # 1
      <4>1. i - 1 \in 1..n /\ i - 1 < i
        BY <2>1, <3>3
      <4>2. at[i - 1] < at[i] /\ at[i - 1] \in Nat
        BY <2>1, <4>1
      <4>3. at[i - 1] >= at[1] + (i - 1) - 1
        BY <2>3, <4>1
      <4> QED BY <3>1, <4>1, <4>2, <4>3
    <3> QED BY <3>2, <3>3
  <2>4. n \in S
    <3> HIDE DEF S, n
    <3>1. \A i \in 0..n : i \in S
      BY <2>1, <2>2, <2>3, NatInd
    <3> QED BY <2>1, <3>1
  <2>5. at[n] >= at[1] + n - 1 /\ at[1] \in 1..Len(words) /\ at[n] \in 1..Len(words) /\ Len(words) \in Nat
    BY <2>1, <2>4
  <2>6. Rank(at, n) = (at[1] - 1) * 10 + at[n] - at[1] - (n - 1)
    BY DEF Rank
  <2> HIDE DEF n
  <2> QED BY <2>1, <2>5, <2>6
<1> HIDE DEF n
<1>3. CASE Layouts(words, typed) = {}
  BY <1>1, <1>3 DEF LeastOr
<1>4. CASE Layouts(words, typed) # {}
  <2>1. L \in SUBSET Nat /\ L # {} /\ L \subseteq 0..(11 * Len(words))
    BY <1>2, <1>4
  <2> HIDE DEF L
  <2> QED BY <1>1, <1>4, <2>1, LeastIs
<1> QED BY <1>3, <1>4

\* Every rest of the words is a text.
LEMMA JoinedIs ==
    ASSUME NEW words \in Seq(Seq(Chars)), NEW i \in 1..Len(words)
    PROVE  Joined(words, i) \in Seq(Chars) /\ \E a \in Seq(Chars) : FlattenSeq(words) = a \o Joined(words, i)
BY FlattenFrom DEF Joined

InWord(candidate, prefix) ==
    {i \in DOMAIN split_identifier_words(candidate) :
        IsPrefix(Lower(prefix), split_identifier_words(candidate)[i])}
InTail(candidate, prefix) ==
    {i \in DOMAIN split_identifier_words(candidate) :
        IsPrefix(Lower(prefix), Joined(split_identifier_words(candidate), i))}
Anchored(candidate, prefix) ==
    has_multi_word_head_anchor(split_identifier_words(candidate), split_identifier_words(prefix))
Laid(candidate, prefix) ==
    /\ Len(split_identifier_words(prefix)) >= 2
    /\ Layouts(split_identifier_words(candidate), split_identifier_words(prefix)) # {}
Compacted(candidate, prefix) ==
    /\ compact_identifier(prefix) # << >>
    /\ \/ IsPrefix(compact_identifier(prefix), compact_identifier(candidate))
       \/ Occurs(compact_identifier(prefix), compact_identifier(candidate))

(* A name matches in one of these ways; those in the words' order, or as a text, have the
   ranks 0 and 20 to 79, and no others do if there are less than 19 words. *)
LEMMA RankIs ==
    ASSUME NEW candidate \in Seq(Characters), NEW prefix \in Seq(Characters), Len(candidate) <= MaxName
    PROVE  LET rank == completion_match_rank(candidate, prefix)
               begins == IsPrefix(Lower(prefix), Lower(candidate))
               inside == \/ InTail(candidate, prefix) # {} \/ Laid(candidate, prefix)
                         \/ Occurs(Lower(prefix), Lower(candidate))
           IN  /\ Matches(candidate, prefix) <=>
                    \/ begins \/ 1 \in InTail(candidate, prefix) \/ InWord(candidate, prefix) # {}
                    \/ Anchored(candidate, prefix) /\ (inside \/ Compacted(candidate, prefix))
               /\ rank \in {0} \union 20..79 /\ Len(split_identifier_words(candidate)) < 19
                    => begins \/ (Anchored(candidate, prefix) /\ inside)
               /\ rank = 0 => begins
<1> DEFINE words == split_identifier_words(candidate)
           typed == split_identifier_words(prefix)
           c == Lower(candidate)
           p == Lower(prefix)
           cc == compact_identifier(candidate)
           cp == compact_identifier(prefix)
           rank == completion_match_rank(candidate, prefix)
           begins == IsPrefix(p, c)
           inWord == InWord(candidate, prefix)
           inTail == InTail(candidate, prefix)
           anchored == Anchored(candidate, prefix)
           ordered == ordered_word_match_rank(words, typed)
           laid == Laid(candidate, prefix)
           found == Find(p, c)
           short == IsPrefix(cp, cc)
           shortFound == Find(cp, cc)
           least == LeastOr(inWord)
           leastTail == LeastOr(inTail)
           nothing == (cp = << >>)
<1>1. rank = IF begins THEN 0
             ELSE IF 1 \in inTail THEN 1
             ELSE IF inWord # {} THEN 1 + least
             ELSE IF anchored /\ inTail # {} THEN 9 + leastTail
             ELSE IF anchored /\ ordered # MATCH_NONE THEN 20 + ordered
             ELSE IF ~anchored THEN MATCH_NONE
             ELSE IF found # 0 THEN 39 + found
             ELSE IF nothing THEN MATCH_NONE
             ELSE IF short THEN 80
             ELSE IF shortFound # 0 THEN 99 + shortFound
             ELSE MATCH_NONE
  BY DEF completion_match_rank, InWord, InTail, Anchored
<1>2. /\ words \in Seq(Seq(Chars)) /\ Len(words) <= Len(candidate) /\ cc \in Seq(Chars)
      /\ Len(cc) <= Len(candidate) /\ typed \in Seq(Seq(Chars)) /\ cp \in Seq(Chars)
      /\ c \in Seq(Chars) /\ p \in Seq(Chars) /\ Len(c) = Len(candidate)
  BY WordsAre, LowerIs
<1>3. /\ MATCH_NONE \in Nat /\ MATCH_NONE > 100 + 11 * MaxName /\ MaxName \in Nat
      /\ Len(words) \in Nat /\ Len(words) <= MaxName /\ Len(candidate) \in Nat
  <2>1. Len(words) \in Nat /\ Len(candidate) \in Nat /\ Len(words) <= Len(candidate)
    BY <1>2
  <2> HIDE DEF words
  <2>2. MATCH_NONE \in Nat /\ MATCH_NONE > 100 + 11 * MaxName /\ MaxName \in Nat
    BY MatchingAssumption
  <2>3. Len(words) <= MaxName
    BY <2>1, <2>2
  <2> QED BY <2>1, <2>2, <2>3
<1>4. /\ inWord # {} => least \in 1..Len(words)
      /\ inTail # {} => leastTail \in 1..Len(words)
  <2>1. inWord \subseteq 1..Len(words) /\ inTail \subseteq 1..Len(words)
    BY <1>2 DEF InWord, InTail
  <2> HIDE DEF inWord, inTail, words
  <2>2. inWord \in SUBSET Nat /\ inTail \in SUBSET Nat
    BY <2>1
  <2> QED BY <2>1, <2>2, LeastIs
<1>5. /\ laid => ordered \in 0..(11 * Len(words))
      /\ ~laid => ordered = MATCH_NONE
  <2>1. CASE Len(typed) >= 2
    BY <1>2, <2>1, OrderedIs DEF Laid
  <2>2. CASE ~(Len(typed) >= 2)
    <3>1. Len(typed) < 2
      BY <1>2, <2>2
    <3> QED BY <2>2, <3>1 DEF Laid, ordered_word_match_rank
  <2> QED BY <2>1, <2>2
<1>6. /\ found \in 0..Len(candidate) /\ (found # 0 <=> Occurs(p, c))
      /\ shortFound \in 0..Len(cc) /\ (shortFound # 0 <=> Occurs(cp, cc))
  BY <1>2, FindIs
<1>7. Compacted(candidate, prefix) <=> ~nothing /\ (short \/ shortFound # 0)
  BY <1>6 DEF Compacted
<1>8. /\ Matches(candidate, prefix) <=> rank # MATCH_NONE
      /\ 1 \in inTail => inTail # {}
  BY DEF Matches
<1>9. Len(cc) \in Nat /\ Len(cc) <= MaxName
  BY <1>2, <1>3
<1> HIDE DEF rank, begins, inWord, inTail, anchored, ordered, laid, found, short, shortFound, least, leastTail,
             nothing, words, typed, cc, cp
<1>10. \/ begins /\ rank = 0
       \/ 1 \in inTail /\ rank = 1
       \/ inWord # {} /\ rank = 1 + least
       \/ anchored /\ inTail # {} /\ rank = 9 + leastTail
       \/ anchored /\ ordered # MATCH_NONE /\ rank = 20 + ordered
       \/ anchored /\ found # 0 /\ rank = 39 + found
       \/ anchored /\ ~nothing /\ short /\ rank = 80
       \/ anchored /\ ~nothing /\ shortFound # 0 /\ rank = 99 + shortFound
       \/ /\ rank = MATCH_NONE /\ ~begins /\ 1 \notin inTail /\ inWord = {}
          /\ anchored => inTail = {} /\ ordered = MATCH_NONE /\ found = 0 /\ (nothing \/ (~short /\ shortFound = 0))
  BY <1>1
<1> DEFINE matches == \/ begins \/ 1 \in inTail \/ inWord # {}
                      \/ anchored /\ \/ inTail # {} \/ laid \/ found # 0
                                     \/ ~nothing /\ (short \/ shortFound # 0)
           inOrder == begins \/ (anchored /\ (inTail # {} \/ laid \/ found # 0))
           band == rank \in {0} \union 20..79 /\ Len(words) < 19
<1>11. (rank # MATCH_NONE <=> matches) /\ (band => inOrder)
  <2>1. CASE begins /\ rank = 0
    <3>1. rank = 0
      BY <1>4, <1>5, <1>6, <2>1
    <3>2. rank # MATCH_NONE
      BY <1>3, <1>9, <3>1
    <3>3. matches /\ inOrder
      BY <2>1
    <3> QED BY <3>2, <3>3
  <2>2. CASE 1 \in inTail /\ rank = 1
    <3>1. rank = 1
      BY <1>4, <1>5, <1>6, <2>2
    <3>2. rank # MATCH_NONE /\ ~band
      BY <1>3, <1>9, <3>1
    <3>3. matches
      BY <2>2
    <3> QED BY <3>2, <3>3
  <2>3. CASE inWord # {} /\ rank = 1 + least
    <3>1. rank = 1 + least /\ least \in 1..Len(words)
      BY <1>4, <1>5, <1>6, <2>3
    <3>2. rank # MATCH_NONE /\ ~band
      BY <1>3, <1>9, <3>1
    <3>3. matches
      BY <2>3
    <3> QED BY <3>2, <3>3
  <2>4. CASE anchored /\ inTail # {} /\ rank = 9 + leastTail
    <3>1. rank = 9 + leastTail /\ leastTail \in 1..Len(words)
      BY <1>4, <1>5, <1>6, <2>4
    <3>2. rank # MATCH_NONE
      BY <1>3, <1>9, <3>1
    <3>3. matches /\ inOrder
      BY <2>4
    <3> QED BY <3>2, <3>3
  <2>5. CASE anchored /\ ordered # MATCH_NONE /\ rank = 20 + ordered
    <3>1. rank = 20 + ordered /\ ordered \in 0..(11 * Len(words)) /\ laid
      BY <1>4, <1>5, <1>6, <2>5
    <3>2. rank # MATCH_NONE
      BY <1>3, <1>9, <3>1
    <3>3. matches /\ inOrder
      BY <2>5, <3>1
    <3> QED BY <3>2, <3>3
  <2>6. CASE anchored /\ found # 0 /\ rank = 39 + found
    <3>1. rank = 39 + found /\ found \in 0..Len(candidate)
      BY <1>4, <1>5, <1>6, <2>6
    <3>2. rank # MATCH_NONE
      BY <1>3, <1>9, <3>1
    <3>3. matches /\ inOrder
      BY <2>6
    <3> QED BY <3>2, <3>3
  <2>7. CASE anchored /\ ~nothing /\ short /\ rank = 80
    <3>1. rank = 80
      BY <1>4, <1>5, <1>6, <2>7
    <3>2. rank # MATCH_NONE /\ ~band
      BY <1>3, <1>9, <3>1
    <3>3. matches
      BY <2>7
    <3> QED BY <3>2, <3>3
  <2>8. CASE anchored /\ ~nothing /\ shortFound # 0 /\ rank = 99 + shortFound
    <3>1. rank = 99 + shortFound /\ shortFound \in 0..Len(cc)
      BY <1>4, <1>5, <1>6, <2>8
    <3>2. rank # MATCH_NONE /\ ~band
      BY <1>3, <1>9, <3>1
    <3>3. matches
      BY <2>8
    <3> QED BY <3>2, <3>3
  <2>9. CASE
       /\ rank = MATCH_NONE /\ ~begins /\ 1 \notin inTail /\ inWord = {}
       /\ anchored => inTail = {} /\ ordered = MATCH_NONE /\ found = 0 /\ (nothing \/ (~short /\ shortFound = 0))
    <3>1. ~band
      BY <1>3, <2>9
    <3>2. laid => ordered # MATCH_NONE
      BY <1>3, <1>5
    <3>3. ~matches
      BY <2>9, <3>2
    <3> QED BY <2>9, <3>1, <3>3
  <2> HIDE DEF matches, inOrder, band
  <2> QED BY <1>10, <2>1, <2>2, <2>3, <2>4, <2>5, <2>6, <2>7, <2>8, <2>9
<1>12. rank = 0 => begins
  <2> HAVE rank = 0
  <2>1. ordered # MATCH_NONE => ordered \in 0..(11 * Len(words))
    BY <1>5
  <2> QED BY <1>3, <1>4, <1>6, <1>10, <2>1
<1> QED BY <1>6, <1>7, <1>8, <1>11, <1>12
        DEF rank, begins, inWord, inTail, anchored, laid, words, c, p

\* An element of a list of words is a word.
LEMMA WordOf ==
    ASSUME NEW q \in Seq(Seq(Chars)), NEW i \in 1..Len(q)
    PROVE  q[i] \in Seq(Chars)
  OBVIOUS

\* Without the last character there are as many words or one less, each begins one of
\* those that were there.
LEMMA WordsFewer ==
    ASSUME NEW s \in Seq(Characters), s # << >>
    PROVE  LET words == split_identifier_words(s)
               fewer == split_identifier_words(Front(s))
           IN  /\ fewer \in Seq(Seq(Chars)) /\ words \in Seq(Seq(Chars))
               /\ Len(words) - 1 <= Len(fewer) /\ Len(fewer) <= Len(words)
               /\ \A i \in 1..Len(fewer) : IsPrefix(fewer[i], words[i])
<1> DEFINE c == s[Len(s)]
<1>1. PICK w \in SplitStates : /\ split_identifier_words(Front(s)) = w.words
                               /\ split_identifier_words(s) = Split(w, c).words
  BY SplitMore
<1>2. c \in Characters /\ Front(s) \in Seq(Characters)
  BY FrontIs
<1> DEFINE q == w.words
           r == Split(w, c).words
<1>3. q \in Seq(Seq(Chars)) /\ r \in Seq(Seq(Chars)) /\ c[1] \in Chars
  BY <1>1, <1>2, SplitIs, CharIs DEF SplitStates
<1>4. r = q \/ r = Begun(q, c[1]) \/ (q # << >> /\ r = Continued(q, c[1]))
  BY <1>2, SplitIs
<1> HIDE DEF q, r
<1>5. ASSUME NEW t \in Seq(Chars) PROVE IsPrefix(t, t)
  <2>1. Len(t) <= Len(t) /\ \A i \in 1..Len(t) : t[i] = t[i]
    OBVIOUS
  <2> QED BY <2>1, PrefixIs
<1>6. Len(q) \in Nat /\ \A i \in 1..Len(q) : q[i] \in Seq(Chars)
  BY <1>3
<1> DEFINE Good(t) == /\ Len(t) - 1 <= Len(q) /\ Len(q) <= Len(t)
                      /\ \A i \in 1..Len(q) : IsPrefix(q[i], t[i])
<1>7. CASE r = q
  <2>1. Good(q)
    BY <1>5, <1>6
  <2> QED BY <1>1, <1>3, <1>7, <2>1 DEF q, r
<1>8. CASE r = Begun(q, c[1])
  <2>1. Len(r) = Len(q) + 1
    BY <1>3, <1>8, FlattenGrows
  <2>2. \A i \in 1..Len(q) : r[i] = q[i]
    BY <1>3, <1>8 DEF Begun
  <2>3. Good(r)
    BY <1>5, <1>6, <2>1, <2>2
  <2> QED BY <1>1, <1>3, <2>3 DEF q, r
<1>9. CASE q # << >> /\ r = Continued(q, c[1])
  <2> DEFINE n == Len(q)
             x == q[n]
  <2>1. n \in 1..n /\ x \in Seq(Chars)
    BY <1>3, <1>9
  <2>2. Len(r) = n /\ r[n] = Append(x, c[1]) /\ \A i \in 1..n : i # n => r[i] = q[i]
    BY <1>3, <1>9, <2>1 DEF Continued
  <2>3. IsPrefix(x, Append(x, c[1]))
    <3> HIDE DEF x
    <3> SUFFICES ASSUME NEW y, y = Append(x, c[1]) PROVE IsPrefix(x, y)
      OBVIOUS
    <3>1. y \in Seq(Chars) /\ Len(x) <= Len(y) /\ \A i \in 1..Len(x) : x[i] = y[i]
      BY <1>3, <2>1
    <3> QED BY <2>1, <3>1, PrefixIs
  <2> HIDE DEF x
  <2>4. ASSUME NEW i \in 1..n PROVE IsPrefix(q[i], r[i])
    <3>1. CASE i = n
      BY <2>2, <2>3, <3>1 DEF x
    <3>2. CASE i # n
      BY <1>5, <1>6, <2>2, <3>2
    <3> QED BY <3>1, <3>2
  <2>5. Good(r)
    BY <1>6, <2>2, <2>4
  <2> QED BY <1>1, <1>3, <2>5 DEF q, r
<1> QED BY <1>4, <1>7, <1>8, <1>9

\* If the words typed can be laid on those of a name, so can fewer or shorter ones.
LEMMA FewerLaid ==
    ASSUME NEW words \in Seq(Seq(Chars)), NEW typed \in Seq(Seq(Chars)), NEW fewer \in Seq(Seq(Chars)),
           Len(fewer) <= Len(typed), \A i \in 1..Len(fewer) : IsPrefix(fewer[i], typed[i]),
           Layouts(words, typed) # {}
    PROVE  Layouts(words, fewer) # {}
<1> DEFINE n == Len(typed)
           m == Len(fewer)
<1>1. n \in Nat /\ m \in Nat /\ DOMAIN typed = 1..n /\ DOMAIN fewer = 1..m /\ \A i \in 1..m : i \in 1..n
  OBVIOUS
<1>2. PICK at \in Layouts(words, typed) : TRUE
  OBVIOUS
<1>3. /\ at \in [1..n -> DOMAIN words]
      /\ \A i \in 1..n : IsPrefix(typed[i], words[at[i]])
      /\ \A i, j \in 1..n : i < j => at[i] < at[j]
  BY <1>1, <1>2 DEF Layouts
<1> DEFINE to == [i \in 1..m |-> at[i]]
<1>4. \A i \in 1..m : to[i] = at[i]
  OBVIOUS
<1>5. to \in [1..m -> DOMAIN words]
  BY <1>1, <1>3
<1> HIDE DEF to
<1>6. ASSUME NEW i \in 1..m PROVE IsPrefix(fewer[i], words[to[i]])
  <2>1. fewer[i] \in Seq(Chars) /\ typed[i] \in Seq(Chars) /\ words[at[i]] \in Seq(Chars)
    <3>1. i \in 1..Len(fewer) /\ i \in 1..Len(typed)
      BY <1>1
    <3>2. at[i] \in DOMAIN words
      BY <1>1, <1>3
    <3>3. at[i] \in 1..Len(words)
      BY <3>2
    <3> QED BY <3>1, <3>3, WordOf
  <2>2. IsPrefix(fewer[i], typed[i]) /\ IsPrefix(typed[i], words[at[i]])
    BY <1>1, <1>3
  <2>3. IsPrefix(fewer[i], words[at[i]])
    BY <2>1, <2>2, PrefixTrans
  <2> QED BY <1>4, <2>3
<1>7. \A i, j \in 1..m : i < j => to[i] < to[j]
  BY <1>1, <1>3, <1>4
<1>8. to \in Layouts(words, fewer)
  BY <1>1, <1>5, <1>6, <1>7 DEF Layouts
<1> QED BY <1>8

\* A name that matches goes on matching when the last character typed is deleted.
LEMMA DeletingKeeps ==
    ASSUME NEW candidate \in Seq(Characters), Len(candidate) <= MaxName,
           NEW prefix \in Seq(Characters), prefix # << >>,
           Matches(candidate, prefix), compact_identifier(Front(prefix)) # << >>
    PROVE  Matches(candidate, Front(prefix))
<1> DEFINE words == split_identifier_words(candidate)
           typed == split_identifier_words(prefix)
           c == Lower(candidate)
           p == Lower(prefix)
           cc == compact_identifier(candidate)
           cp == compact_identifier(prefix)
           shorter == Front(prefix)
           fewer == split_identifier_words(shorter)
           q == Lower(shorter)
           cq == compact_identifier(shorter)
<1>1. /\ shorter \in Seq(Characters) /\ words \in Seq(Seq(Chars)) /\ typed \in Seq(Seq(Chars))
      /\ cc \in Seq(Chars) /\ cp \in Seq(Chars) /\ cq \in Seq(Chars) /\ FlattenSeq(words) = cc
      /\ FlattenSeq(fewer) = cq
      /\ c \in Seq(Chars) /\ p \in Seq(Chars) /\ q \in Seq(Chars)
  BY FrontIs, WordsAre, LowerIs
<1>2. IsPrefix(q, p)
  <2>1. p # << >> /\ q = Front(p)
    BY LowerIs
  <2> QED BY <1>1, <2>1, FrontIs
<1>3. IsPrefix(cq, cp)
  BY CompactFront
<1>4. /\ fewer \in Seq(Seq(Chars)) /\ Len(typed) - 1 <= Len(fewer) /\ Len(fewer) <= Len(typed)
      /\ \A i \in 1..Len(fewer) : IsPrefix(fewer[i], typed[i])
  BY WordsFewer
<1> DEFINE Inside == InTail(candidate, prefix) # {} \/ Laid(candidate, prefix) \/ Occurs(p, c)
           Stays == InTail(candidate, shorter) # {} \/ Laid(candidate, shorter) \/ Occurs(q, c)
<1>5. \/ IsPrefix(p, c) \/ 1 \in InTail(candidate, prefix) \/ InWord(candidate, prefix) # {}
      \/ Anchored(candidate, prefix) /\ (Inside \/ Compacted(candidate, prefix))
  BY RankIs
<1>6. ASSUME \/ IsPrefix(q, c) \/ 1 \in InTail(candidate, shorter) \/ InWord(candidate, shorter) # {}
             \/ Anchored(candidate, shorter) /\ (Stays \/ Compacted(candidate, shorter))
      PROVE  Matches(candidate, shorter)
  BY <1>1, <1>6, RankIs
<1> HIDE DEF words, typed, c, p, cc, cp, shorter, fewer, q, cq
<1>7. IsPrefix(p, c) => IsPrefix(q, c)
  BY <1>1, <1>2, PrefixTrans
<1>8. InTail(candidate, prefix) \subseteq InTail(candidate, shorter)
  <2> SUFFICES ASSUME NEW i \in DOMAIN words, IsPrefix(p, Joined(words, i)) PROVE IsPrefix(q, Joined(words, i))
    BY DEF InTail, words, p, q
  <2>1. Joined(words, i) \in Seq(Chars)
    BY <1>1, JoinedIs
  <2> QED BY <1>1, <1>2, <2>1, PrefixTrans
<1>9. InWord(candidate, prefix) \subseteq InWord(candidate, shorter)
  <2> SUFFICES ASSUME NEW i \in DOMAIN words, IsPrefix(p, words[i]) PROVE IsPrefix(q, words[i])
    BY DEF InWord, words, p, q
  <2>1. words[i] \in Seq(Chars)
    BY <1>1
  <2> QED BY <1>1, <1>2, <2>1, PrefixTrans
<1>10. Occurs(p, c) => Occurs(q, c)
  BY <1>1, <1>2, OccursShorter
<1>11. ASSUME Anchored(candidate, prefix) PROVE Anchored(candidate, shorter)
  <2>1. has_multi_word_head_anchor(words, typed)
    BY <1>11 DEF Anchored, words, typed
  <2>2. ASSUME ~(Len(fewer) < 2) PROVE words # << >> /\ IsPrefix(fewer[1], words[1])
    <3>1. Len(fewer) \in Nat /\ Len(typed) \in Nat
      BY <1>1, <1>4
    <3>2. 1 \in 1..Len(fewer) /\ 1 \in 1..Len(typed) /\ ~(Len(typed) < 2)
      BY <1>4, <2>2, <3>1
    <3>3. words # << >> /\ IsPrefix(typed[1], words[1])
      BY <2>1, <3>2 DEF has_multi_word_head_anchor
    <3>4. fewer[1] \in Seq(Chars) /\ typed[1] \in Seq(Chars) /\ words[1] \in Seq(Chars)
      <4>1. Len(words) # 0 /\ Len(words) \in Nat
        BY <1>1, <3>3
      <4>2. 1 \in 1..Len(words)
        BY <4>1
      <4> QED BY <1>1, <1>4, <3>2, <4>2, WordOf
    <3>5. IsPrefix(fewer[1], typed[1])
      BY <1>4, <3>2
    <3> QED BY <3>3, <3>4, <3>5, PrefixTrans
  <2>3. has_multi_word_head_anchor(words, fewer)
    BY <2>2 DEF has_multi_word_head_anchor
  <2> QED BY <2>3 DEF Anchored, words, fewer, shorter
<1>12. ASSUME Anchored(candidate, prefix), Laid(candidate, prefix)
       PROVE  Laid(candidate, shorter) \/ Compacted(candidate, shorter)
  <2>1. Len(typed) >= 2 /\ Layouts(words, typed) # {}
    BY <1>12 DEF Laid, typed, words
  <2>2. Len(fewer) \in Nat /\ Len(typed) \in Nat
    BY <1>1, <1>4
  <2>3. CASE Len(fewer) >= 2
    <3>1. Layouts(words, fewer) # {}
      BY <1>1, <1>4, <2>1, FewerLaid
    <3> QED BY <2>3, <3>1 DEF Laid, fewer, words, shorter
  <2>4. CASE ~(Len(fewer) >= 2)
    <3>1. Len(fewer) = 1 /\ 1 \in 1..Len(fewer) /\ 1 \in 1..Len(typed) /\ ~(Len(typed) < 2) /\ Len(fewer) # 0
      <4>1. Len(typed) - 1 <= Len(fewer)
        BY <1>4
      <4>2. Len(fewer) = 1
        <5>1. Len(typed) >= 2
          BY <2>1
        <5>2. ASSUME NEW m \in Nat, NEW n \in Nat, n >= 2, n - 1 <= m, ~(m >= 2) PROVE m = 1
          BY <5>2
        <5> QED BY <2>2, <2>4, <4>1, <5>1, <5>2
      <4> QED BY <2>1, <2>2, <4>2
    <3>2. words # << >> /\ IsPrefix(typed[1], words[1])
      BY <1>12, <3>1 DEF has_multi_word_head_anchor, Anchored, words, typed
    <3>3. fewer # << >> /\ fewer[1] \in Seq(Chars) /\ typed[1] \in Seq(Chars) /\ words[1] \in Seq(Chars)
      <4>1. Len(words) # 0 /\ Len(words) \in Nat
        BY <1>1, <3>2
      <4>2. 1 \in 1..Len(words)
        BY <4>1
      <4>3. fewer # << >>
        BY <3>1, EmptyIs
      <4> QED BY <1>1, <1>4, <3>1, <4>2, <4>3, WordOf
    <3>4. cq = fewer[1]
      <4>1. FlattenSeq(fewer) = FlattenSeq(Front(fewer)) \o fewer[1]
        BY <1>4, <3>1, <3>3, FlattenLast
      <4>2. Front(fewer) \in Seq(Seq(Chars)) /\ Len(Front(fewer)) = 0
        <5>1. Front(fewer) \in Seq(Seq(Chars)) /\ Len(Front(fewer)) = Len(fewer) - 1
          BY <1>4, <3>3, FrontIs
        <5> QED BY <3>1, <5>1
      <4>3. Front(fewer) = << >>
        BY <4>2
      <4>4. FlattenSeq(Front(fewer)) = << >>
        BY <4>2, <4>3, FlattenType
      <4>5. ASSUME NEW t \in Seq(Chars) PROVE << >> \o t = t
        OBVIOUS
      <4> QED BY <1>1, <3>3, <4>1, <4>4, <4>5
    <3>5. IsPrefix(fewer[1], typed[1]) /\ IsPrefix(words[1], cc)
      BY <1>1, <1>4, <3>1, <3>2, FlattenFirst
    <3>6. IsPrefix(fewer[1], words[1])
      BY <3>2, <3>3, <3>5, PrefixTrans
    <3>7. IsPrefix(fewer[1], cc)
      BY <1>1, <3>3, <3>5, <3>6, PrefixTrans
    <3> QED BY <3>4, <3>7 DEF Compacted, cq, cc, shorter
  <2> QED BY <2>3, <2>4
<1>13. Compacted(candidate, prefix) => Compacted(candidate, shorter)
  <2>1. IsPrefix(cp, cc) => IsPrefix(cq, cc)
    BY <1>1, <1>3, PrefixTrans
  <2>2. Occurs(cp, cc) => Occurs(cq, cc)
    BY <1>1, <1>3, OccursShorter
  <2> QED BY <2>1, <2>2 DEF Compacted, cq, cp, cc, shorter
<1>14. Matches(candidate, shorter)
  BY <1>5, <1>6, <1>7, <1>8, <1>9, <1>10, <1>11, <1>12, <1>13
<1> QED BY <1>14 DEF shorter

\* A pattern that begins a name is found at its beginning.
LEMMA LikeIs ==
    ASSUME NEW V, NEW s \in Seq(V), NEW p \in Seq(V), IsPrefix(p, s)
    PROVE  Like(p, s)
<1>1. Len(p) <= Len(s) /\ \A i \in 1..Len(p) : p[i] = s[i]
  BY PrefixIs
<1>2. DOMAIN p = 1..Len(p)
  OBVIOUS
<1> QED BY <1>1, <1>2 DEF Like

\* The patterns are two.
LEMMA PatternsAre ==
    ASSUME NEW prefix, prefix # << >>
    PROVE  LET patterns == global_search_patterns(prefix)
           IN  /\ Len(patterns) = 2 /\ DOMAIN patterns = 1..2 /\ Range(patterns) = {patterns[1], patterns[2]}
               /\ patterns[1] = Pattern(Lower(prefix), FALSE, StrongLimit)
               /\ patterns[2] = IF Len(split_identifier_words(prefix)) >= 2
                                THEN Pattern(split_identifier_words(prefix)[1], FALSE, WeakLimit)
                                ELSE Pattern(Lower(prefix), TRUE, WeakLimit)
<1> DEFINE strong == Pattern(Lower(prefix), FALSE, StrongLimit)
           weak == IF Len(split_identifier_words(prefix)) >= 2
                   THEN Pattern(split_identifier_words(prefix)[1], FALSE, WeakLimit)
                   ELSE Pattern(Lower(prefix), TRUE, WeakLimit)
<1>1. global_search_patterns(prefix) = <<strong, weak>>
  BY DEF global_search_patterns
<1> HIDE DEF strong, weak
<1>2. /\ Len(<<strong, weak>>) = 2 /\ DOMAIN <<strong, weak>> = 1..2
      /\ <<strong, weak>>[1] = strong /\ <<strong, weak>>[2] = weak
  OBVIOUS
<1>3. Range(<<strong, weak>>) = {strong, weak}
  <2>1. <<strong, weak>> \in Seq({strong, weak})
    OBVIOUS
  <2>2. Range(<<strong, weak>>) = {<<strong, weak>>[i] : i \in 1..2}
    BY <1>2, <2>1, RangeIs
  <2> QED BY <1>2, <2>2
<1> QED BY <1>1, <1>2, <1>3 DEF strong, weak

\* Begins with what was typed, or matches in the words' order or contains it.
ToBeFound(candidate, prefix) ==
    LET rank == completion_match_rank(candidate, prefix)
    IN  \/ rank = 0
        \/ /\ rank \in 20..79 /\ Len(split_identifier_words(candidate)) < 19
           /\ Underscore \notin Range(candidate)

\* The patterns find what matches in the words' order or contains what was typed, and
\* the first one what begins with it.
LEMMA PatternsFind ==
    ASSUME NEW candidate \in Seq(Characters), Len(candidate) <= MaxName,
           NEW prefix \in Seq(Characters), prefix # << >>,
           ToBeFound(candidate, prefix)
    PROVE  LET patterns == global_search_patterns(prefix)
               rank == completion_match_rank(candidate, prefix)
           IN  /\ IsLike(candidate, patterns[1]) \/ (rank # 0 /\ IsLike(candidate, patterns[2]))
               /\ Matches(candidate, prefix)
<1> DEFINE words == split_identifier_words(candidate)
           typed == split_identifier_words(prefix)
           c == Lower(candidate)
           p == Lower(prefix)
           rank == completion_match_rank(candidate, prefix)
           patterns == global_search_patterns(prefix)
           found == IsLike(candidate, patterns[1]) \/ (rank # 0 /\ IsLike(candidate, patterns[2]))
<1>1. /\ words \in Seq(Seq(Chars)) /\ typed \in Seq(Seq(Chars))
      /\ c \in Seq(Chars) /\ p \in Seq(Chars) /\ p # << >>
      /\ Underscore \notin Range(candidate) => FlattenSeq(words) = c
  BY WordsAre, LowerIs, CompactAll
<1>2. \/ IsPrefix(p, c)
      \/ /\ Anchored(candidate, prefix) /\ Underscore \notin Range(candidate) /\ rank # 0
         /\ InTail(candidate, prefix) # {} \/ Laid(candidate, prefix) \/ Occurs(p, c)
  <2>1. rank \in {0} \union 20..79 /\ (rank = 0 \/ Underscore \notin Range(candidate))
        /\ (rank # 0 => Len(words) < 19)
    BY DEF ToBeFound
  <2>2. /\ rank \in {0} \union 20..79 /\ Len(words) < 19
              => \/ IsPrefix(p, c)
                 \/ /\ Anchored(candidate, prefix)
                    /\ InTail(candidate, prefix) # {} \/ Laid(candidate, prefix) \/ Occurs(p, c)
        /\ rank = 0 => IsPrefix(p, c)
    BY RankIs
  <2> HIDE DEF rank, words, p, c
  <2> QED BY <2>1, <2>2
<1>3. /\ Like(p, c) => found
      /\ rank # 0 /\ Len(typed) >= 2 /\ Like(typed[1], c) => found
      /\ rank # 0 /\ ~(Len(typed) >= 2) /\ (\E i \in DOMAIN c : Like(p, SubSeq(c, i, Len(c)))) => found
  <2>1. /\ patterns[1] = Pattern(p, FALSE, StrongLimit)
        /\ patterns[2] = IF Len(typed) >= 2 THEN Pattern(typed[1], FALSE, WeakLimit)
                         ELSE Pattern(p, TRUE, WeakLimit)
    BY PatternsAre
  <2> HIDE DEF patterns
  <2> QED BY <2>1 DEF IsLike, Pattern
<1>r. rank = 0 \/ rank \in 20..79
  BY DEF ToBeFound
<1>m. Matches(candidate, prefix)
  <2>1. MATCH_NONE \in Nat /\ MATCH_NONE > 100 + 11 * MaxName /\ MaxName \in Nat
    BY MatchingAssumption
  <2> HIDE DEF rank
  <2>2. rank \in Nat /\ rank < 100
    <3>1. CASE rank = 0
      BY <3>1
    <3>2. CASE rank \in 20..79
      BY <3>2
    <3> QED BY <1>r, <3>1, <3>2
  <2>3. MATCH_NONE > 100
    <3> DEFINE more == 11 * MaxName
    <3>1. more \in Nat /\ MATCH_NONE > 100 + more
      BY <2>1
    <3> HIDE DEF more
    <3> QED BY <2>1, <3>1
  <2>4. rank # MATCH_NONE
    BY <2>1, <2>2, <2>3
  <2> QED BY <2>4 DEF Matches, rank
<1> HIDE DEF words, typed, c, p, rank, found
<1>4. ASSUME IsPrefix(p, c) PROVE found
  BY <1>1, <1>3, <1>4, LikeIs
<1>5. ASSUME Anchored(candidate, prefix), Len(typed) >= 2, Underscore \notin Range(candidate), rank # 0
      PROVE  found
  <2>1. ~(Len(typed) < 2) /\ 1 \in 1..Len(typed) /\ Len(typed) \in Nat
    BY <1>1, <1>5
  <2>2. words # << >> /\ IsPrefix(typed[1], words[1])
    BY <1>5, <2>1 DEF Anchored, has_multi_word_head_anchor, words, typed
  <2>3. Len(words) # 0 /\ Len(words) \in Nat
    BY <1>1, <2>2
  <2>4. 1 \in 1..Len(words)
    BY <2>3
  <2>5. typed[1] \in Seq(Chars) /\ words[1] \in Seq(Chars)
    BY <1>1, <2>1, <2>4
  <2>6. IsPrefix(words[1], c)
    BY <1>1, <1>5, <2>2, FlattenFirst
  <2>7. IsPrefix(typed[1], c)
    BY <1>1, <2>2, <2>5, <2>6, PrefixTrans
  <2> QED BY <1>1, <1>3, <1>5, <2>5, <2>7, LikeIs
<1>6. ASSUME ~(Len(typed) >= 2), Occurs(p, c), rank # 0 PROVE found
  <2>1. PICK i \in DOMAIN c : IsPrefix(p, SubSeq(c, i, Len(c)))
    BY <1>6 DEF Occurs
  <2>2. SubSeq(c, i, Len(c)) \in Seq(Chars)
    BY <1>1
  <2>3. Like(p, SubSeq(c, i, Len(c)))
    BY <1>1, <2>1, <2>2, LikeIs
  <2> QED BY <1>3, <1>6, <2>3
<1>7. ASSUME InTail(candidate, prefix) # {}, Underscore \notin Range(candidate) PROVE Occurs(p, c)
  <2>1. PICK i \in DOMAIN words : IsPrefix(p, Joined(words, i))
    BY <1>7 DEF InTail, words, p
  <2>2. i \in 1..Len(words)
    BY <1>1
  <2>3. Joined(words, i) \in Seq(Chars)
    BY <1>1, <2>2, JoinedIs
  <2>4. PICK a \in Seq(Chars) : c = a \o Joined(words, i)
    BY <1>1, <1>7, <2>2, JoinedIs
  <2>5. Occurs(p, a \o Joined(words, i))
    BY <1>1, <2>1, <2>3, OccursBehind
  <2> QED BY <2>4, <2>5
<1>8. Laid(candidate, prefix) => Len(typed) >= 2
  BY DEF Laid, typed
<1>9. found
  BY <1>2, <1>4, <1>5, <1>6, <1>7, <1>8
<1> QED BY <1>9, <1>m DEF found, rank

\* KeepIn makes nothing longer.
LEMMA KeepLen ==
    ASSUME NEW V, NEW s \in Seq(V), NEW S
    PROVE  Len(KeepIn(s, S)) <= Len(s)
<1> DEFINE n == Len(s)
<1>1. n \in Nat /\ n \in 0..n
  OBVIOUS
<1>2. PICK kept : KeepRun(V, s, S, kept)
  BY KeepIsLoop
<1> DEFINE good == {i \in 0..n : Len(kept[i]) <= i}
<1>3. 0 \in good
  <2>1. kept[0] = << >> /\ 0 \in 0..n
    BY <1>1, <1>2 DEF KeepRun
  <2> QED BY <2>1, EmptyIs
<1>4. ASSUME NEW i \in 1..n, i - 1 \in good PROVE i \in good
  <2>1. i - 1 \in 0..n /\ i \in 0..n /\ i \in Nat
    BY <1>1
  <2>2. kept[i - 1] \in Seq(V) /\ (kept[i] = Append(kept[i - 1], s[i]) \/ kept[i] = kept[i - 1]) /\ s[i] \in V
    <3>1. s[i] \in V
      BY <1>1
    <3> HIDE DEF good
    <3> QED BY <1>2, <2>1, <3>1 DEF KeepRun
  <2>3. Len(kept[i - 1]) \in Nat /\ Len(kept[i]) <= Len(kept[i - 1]) + 1
    BY <2>2
  <2> QED BY <1>4, <2>1, <2>2, <2>3
<1>5. n \in good
  <2> HIDE DEF good, n
  <2> QED BY <1>1, <1>3, <1>4, NatInd
<1>6. KeepIn(s, S) = kept[n]
  BY <1>2 DEF KeepRun
<1> QED BY <1>5, <1>6

\* One item more that is pushed: it is there, and of the first k none is lost.
LEMMA PushOne ==
    ASSUME NEW V, NEW q \in Seq(V), NEW x \in V, NEW k \in Nat
    PROVE  LET p == push_unique_result(q, x)
           IN  /\ p \in Seq(V) /\ Len(p) <= Len(q) + 1 /\ x \in Range(p)
               /\ Range(Cut(q, k)) \subseteq Range(Cut(p, k))
<1> DEFINE a == Append(q, x)
<1>1. /\ a \in Seq(V) /\ Len(a) = Len(q) + 1 /\ Len(q) \in Nat /\ x \in Range(a) /\ Range(q) \subseteq Range(a)
  BY AppendIs
<1>2. Range(Cut(q, k)) \subseteq Range(Cut(a, k))
  <2>1. a = q \o <<x>> /\ <<x>> \in Seq(V)
    OBVIOUS
  <2>2. CASE Len(q) >= k
    <3> DEFINE one == <<x>>
    <3>0. one \in Seq(V)
      BY <2>1
    <3> HIDE DEF one
    <3>1. Cut(q \o one, k) = Cut(q, k)
      BY <2>2, <3>0, CutConcat
    <3> USE DEF one
    <3> QED BY <2>1, <3>1
  <2>3. CASE ~(Len(q) >= k)
    <3>1. Len(a) <= k /\ Len(q) <= k
      BY <1>1, <2>3
    <3> HIDE DEF a
    <3>2. Cut(a, k) = a /\ Cut(q, k) = q
      BY <1>1, <3>1, CutOf
    <3> QED BY <1>1, <3>2
  <2> QED BY <2>2, <2>3
<1> HIDE DEF a
<1>3. CASE x \in Range(q)
  <2>1. push_unique_result(q, x) = q
    BY <1>3 DEF push_unique_result
  <2> QED BY <1>1, <1>3, <2>1
<1>4. CASE x \notin Range(q)
  <2>1. push_unique_result(q, x) = a
    BY <1>4 DEF push_unique_result, a
  <2> QED BY <1>1, <1>2, <2>1
<1> QED BY <1>3, <1>4

\* The first items pushed are among the first results.
LEMMA FirstPushed ==
    ASSUME NEW V, NEW s \in Seq(V), NEW t \in Seq(V), NEW k \in Nat, Len(s) <= k
    PROVE  Range(s) \subseteq Range(Cut(PushEach(<< >>, s \o t), k))
<1> DEFINE items == s \o t
           n == Len(items)
           l == Len(s)
<1>1. /\ items \in Seq(V) /\ n \in Nat /\ l \in Nat /\ l <= n /\ \A i \in 1..l : items[i] = s[i]
  OBVIOUS
<1>2. PICK pushed : PushRun(V, << >>, items, pushed)
  <2> HIDE DEF items
  <2> QED BY <1>1, EmptyIs, PushIsLoop
<1> HIDE DEF items
<1> DEFINE Good(i) == /\ \A j \in 1..l : j <= i => s[j] \in Range(Cut(pushed[i], k))
                      /\ i <= l => Len(pushed[i]) <= i
           good == {i \in 0..n : Good(i)}
<1>3. 0 \in good
  <2>1. pushed[0] = << >> /\ 0 \in 0..n
    BY <1>1, <1>2 DEF PushRun
  <2>2. Len(pushed[0]) <= 0 /\ \A j \in 1..l : ~(j <= 0)
    BY <1>1, <2>1, EmptyIs
  <2> QED BY <2>1, <2>2
<1>4. ASSUME NEW i \in 1..n, i - 1 \in good PROVE i \in good
  <2>1. i - 1 \in 0..n /\ i \in 0..n /\ i \in Nat /\ i - 1 \in Nat
    BY <1>1
  <2> DEFINE q == pushed[i - 1]
             p == pushed[i]
  <2>2. q \in Seq(V) /\ items[i] \in V /\ p = push_unique_result(q, items[i])
    <3>1. items[i] \in V
      BY <1>1
    <3> HIDE DEF good
    <3> QED BY <1>2, <2>1, <3>1 DEF PushRun
  <2>g. Good(i - 1)
    BY <1>4
  <2>h. /\ \A j \in 1..l : j <= i - 1 => s[j] \in Range(Cut(q, k))
        /\ i - 1 <= l => Len(q) <= i - 1
    BY <2>g
  <2> HIDE DEF p, q, Good
  <2>3. /\ p \in Seq(V) /\ Len(p) <= Len(q) + 1 /\ items[i] \in Range(p)
        /\ Range(Cut(q, k)) \subseteq Range(Cut(p, k))
    BY <2>2, PushOne
  <2>4. Len(p) \in Nat /\ Len(q) \in Nat
    BY <2>2, <2>3
  <2>5. i <= l => Len(p) <= i
    BY <1>1, <2>1, <2>3, <2>4, <2>h
  <2>6. ASSUME NEW j \in 1..l, j <= i PROVE s[j] \in Range(Cut(p, k))
    <3>1. CASE j <= i - 1
      BY <2>3, <2>h, <3>1
    <3>2. CASE j = i
      <4>1. Len(p) <= k
        BY <1>1, <2>1, <2>4, <2>5, <3>2
      <4>2. Cut(p, k) = p
        BY <2>3, <4>1, CutOf
      <4> QED BY <1>1, <2>3, <3>2, <4>2
    <3> QED BY <1>1, <2>1, <2>6, <3>1, <3>2
  <2> QED BY <2>1, <2>5, <2>6 DEF Good, p
<1>5. n \in good
  <2>1. n \in 0..n
    BY <1>1
  <2> HIDE DEF good, n
  <2> QED BY <1>1, <1>3, <1>4, <2>1, NatInd
<1>6. \A j \in 1..l : s[j] \in Range(Cut(pushed[n], k))
  BY <1>1, <1>5
<1>7. pushed[n] = PushEach(<< >>, items)
  BY <1>2 DEF PushRun
<1>8. Range(s) = {s[j] : j \in 1..l}
  BY RangeIs
<1> QED BY <1>6, <1>7, <1>8 DEF items

\* What is pushed where nothing was.
LEMMA PushAll ==
    ASSUME NEW V, NEW items \in Seq(V)
    PROVE  /\ PushEach(<< >>, items) \in Seq(V) /\ IsInjective(PushEach(<< >>, items))
           /\ Range(PushEach(<< >>, items)) = Range(items)
<1> DEFINE e == << >>
<1>1. e \in Seq(V) /\ IsInjective(e) /\ Range(e) = {}
  BY EmptyIs
<1> HIDE DEF e
<1>2. /\ PushEach(e, items) \in Seq(V) /\ IsInjective(PushEach(e, items))
      /\ Range(PushEach(e, items)) = Range(e) \union Range(items)
  <2> DEFINE all == PushEach(e, items)
             more == Range(e) \union Range(items)
  <2>1. all \in Seq(V) /\ IsInjective(all)
    BY <1>1, PushIs
  <2>2. Range(all) = more
    <3>1. ASSUME NEW x PROVE x \in Range(all) <=> x \in Range(e) \/ x \in Range(items)
      BY <1>1, PushIs
    <3> HIDE DEF all
    <3> QED BY <3>1
  <2> QED BY <2>1, <2>2
<1> QED BY <1>1, <1>2 DEF e

\* What is listed: every name that matches of the rows of a pattern within its limit, if
\* the list is long enough for all or, with the first pattern, for as many rows.
LEMMA TypesListed ==
    ASSUME NEW V, typeNames \in Seq(V), NEW prefix, prefix # << >>,
           NEW name \in Range(typeNames), Matches(name, prefix)
    PROVE  LET patterns == global_search_patterns(prefix)
               listed == Range(append_global_type_items(prefix))
           IN  /\ IsLike(name, patterns[1]) /\ Len(RowsLike(patterns[1])) <= StrongLimit => name \in listed
               /\ (IsLike(name, patterns[1]) \/ IsLike(name, patterns[2])) /\ WithinLimits(prefix)
                     => name \in listed
<1> DEFINE patterns == global_search_patterns(prefix)
           matching == {n \in Range(typeNames) : Matches(n, prefix)}
           Of(p) == KeepIn(Cut(RowsLike(p), p.limit), matching)
           found == [i \in DOMAIN patterns |-> Of(patterns[i])]
           r1 == Of(patterns[1])
           r2 == Of(patterns[2])
           all == PushEach(<< >>, r1 \o r2)
           k == MaxGlobal
<1>1. /\ DOMAIN patterns = 1..2 /\ Range(patterns) = {patterns[1], patterns[2]}
      /\ patterns[1].limit = StrongLimit /\ patterns[2].limit = WeakLimit
  <2>1. /\ DOMAIN patterns = 1..2 /\ Range(patterns) = {patterns[1], patterns[2]}
        /\ patterns[1] = Pattern(Lower(prefix), FALSE, StrongLimit)
        /\ \/ patterns[2] = Pattern(split_identifier_words(prefix)[1], FALSE, WeakLimit)
           \/ patterns[2] = Pattern(Lower(prefix), TRUE, WeakLimit)
    BY PatternsAre
  <2> HIDE DEF patterns
  <2> QED BY <2>1 DEF Pattern
<1>l. StrongLimit \in Nat /\ WeakLimit \in Nat /\ k \in Nat /\ StrongLimit <= k
  BY LimitsAssumption
<1>2. append_global_type_items(prefix) = Cut(PushEach(<< >>, FlattenSeq(found)), k)
  BY DEF append_global_type_items
<1>w. WithinLimits(prefix) =>
        /\ Len(RowsLike(patterns[1])) <= StrongLimit /\ Len(RowsLike(patterns[2])) <= WeakLimit
        /\ Cardinality(matching) <= k
  BY <1>1 DEF WithinLimits
<1> HIDE DEF patterns
<1>3. ASSUME NEW p, p.limit \in Nat
      PROVE  /\ RowsLike(p) \in Seq(V) /\ Of(p) \in Seq(V) /\ Range(Of(p)) \subseteq matching
             /\ Len(Of(p)) <= p.limit /\ Len(Of(p)) \in Nat
             /\ IsLike(name, p) /\ Len(RowsLike(p)) <= p.limit => name \in Range(Of(p))
  <2> DEFINE S == {n \in Range(typeNames) : IsLike(n, p)}
             rows == RowsLike(p)
             cut == Cut(rows, p.limit)
  <2>1. rows \in Seq(V) /\ Range(rows) = Range(typeNames) \intersect S
    <3>1. rows = KeepIn(typeNames, S)
      BY DEF RowsLike
    <3> HIDE DEF S, rows
    <3> QED BY <3>1, KeepIs
  <2>2. IsLike(name, p) => name \in Range(rows)
    BY <2>1
  <2> HIDE DEF rows
  <2>3. cut \in Seq(V) /\ Len(cut) = (IF Len(rows) < p.limit THEN Len(rows) ELSE p.limit)
    BY <1>3, <2>1, CutIs
  <2>4. Len(rows) <= p.limit => cut = rows
    BY <1>3, <2>1, CutOf
  <2>5. Len(cut) <= p.limit /\ Len(cut) \in Nat
    BY <1>3, <2>1, <2>3
  <2>6. name \in matching
    OBVIOUS
  <2> HIDE DEF cut, matching
  <2>7. /\ KeepIn(cut, matching) \in Seq(V) /\ Range(KeepIn(cut, matching)) = Range(cut) \intersect matching
        /\ Len(KeepIn(cut, matching)) <= Len(cut)
    BY <2>3, KeepIs, KeepLen
  <2>8. Of(p) = KeepIn(cut, matching)
    BY DEF cut, rows
  <2> HIDE DEF Of
  <2>9. Len(Of(p)) \in Nat
    BY <2>7, <2>8
  <2> QED BY <1>3, <2>1, <2>2, <2>4, <2>5, <2>6, <2>7, <2>8, <2>9 DEF rows
<1>m. name \in matching /\ matching \subseteq Range(typeNames) /\ IsFiniteSet(Range(typeNames))
  BY CountIs
<1> HIDE DEF matching
<1>4. /\ r1 \in Seq(V) /\ r2 \in Seq(V) /\ Range(r1) \subseteq matching /\ Range(r2) \subseteq matching
      /\ Len(r1) <= StrongLimit /\ Len(r1) \in Nat
      /\ IsLike(name, patterns[1]) /\ Len(RowsLike(patterns[1])) <= StrongLimit => name \in Range(r1)
      /\ IsLike(name, patterns[2]) /\ Len(RowsLike(patterns[2])) <= WeakLimit => name \in Range(r2)
  <2> HIDE DEF Of
  <2> QED BY <1>1, <1>l, <1>3
<1>5. FlattenSeq(found) = r1 \o r2
  <2> HIDE DEF Of
  <2>1. /\ found \in Seq(Seq(V)) /\ Len(found) = 2 /\ found[1] = r1 /\ found[2] = r2
    <3> HIDE DEF r1, r2
    <3>1. found = [i \in 1..2 |-> IF i = 1 THEN r1 ELSE r2]
      <4> USE DEF r1, r2
      <4> QED BY <1>1
    <3> HIDE DEF found
    <3>2. ASSUME NEW x \in Seq(V), NEW y \in Seq(V), NEW z, z = [i \in 1..2 |-> IF i = 1 THEN x ELSE y]
          PROVE  z \in Seq(Seq(V)) /\ Len(z) = 2 /\ z[1] = x /\ z[2] = y
      BY <3>2
    <3> QED BY <1>4, <3>1, <3>2
  <2> HIDE DEF found, r1, r2
  <2>2. PICK flat : FlatRun(V, found, flat)
    BY <2>1, FlattenIsLoop
  <2>3. flat[0] = << >> /\ FlattenSeq(found) = flat[2] /\ flat[1] = flat[0] \o r1 /\ flat[2] = flat[1] \o r2
    <3>1. Len(found) = 2 /\ 1 \in 1..2 /\ 2 \in 1..2 /\ 1 - 1 = 0 /\ 2 - 1 = 1
      BY <2>1
    <3>2. /\ flat[0] = << >> /\ FlattenSeq(found) = flat[Len(found)]
          /\ \A i \in 1..Len(found) : flat[i] = flat[i - 1] \o found[i]
      BY <2>2 DEF FlatRun
    <3>3. flat[1] = flat[1 - 1] \o found[1] /\ flat[2] = flat[2 - 1] \o found[2]
      BY <3>1, <3>2
    <3> QED BY <2>1, <3>1, <3>2, <3>3
  <2>4. << >> \o r1 = r1
    BY <1>4
  <2> QED BY <2>3, <2>4
<1> HIDE DEF found, r1, r2
<1>6. Range(r1) \subseteq Range(Cut(all, k))
  <2>1. Len(r1) <= k
    BY <1>l, <1>4
  <2> QED BY <1>l, <1>4, <2>1, FirstPushed
<1>7. ASSUME Cardinality(matching) <= k PROVE Range(Cut(all, k)) = Range(r1) \union Range(r2)
  <2>1. r1 \o r2 \in Seq(V) /\ Range(r1 \o r2) = Range(r1) \union Range(r2)
    BY <1>4, ConcatIs
  <2>2. all \in Seq(V) /\ IsInjective(all) /\ Range(all) = Range(r1) \union Range(r2)
    <3> DEFINE items == r1 \o r2
    <3>1. items \in Seq(V)
      BY <2>1
    <3> HIDE DEF items
    <3>2. /\ PushEach(<< >>, items) \in Seq(V) /\ IsInjective(PushEach(<< >>, items))
          /\ Range(PushEach(<< >>, items)) = Range(items)
      BY <3>1, PushAll
    <3> QED BY <2>1, <3>2 DEF items
  <2> HIDE DEF all
  <2>3. Len(all) \in Nat
    BY <2>2
  <2>4. Len(all) = Cardinality(Range(all))
    BY <2>2, CountIs
  <2>5. Range(all) \subseteq matching /\ IsFiniteSet(matching)
    BY <1>4, <1>m, <2>2, FS_Subset
  <2>6. Cardinality(Range(all)) <= Cardinality(matching) /\ Cardinality(matching) \in Nat
    BY <2>5, FS_Subset, FS_CardinalityType
  <2>7. Len(all) <= k
    BY <1>7, <1>l, <2>3, <2>4, <2>6
  <2>8. Cut(all, k) = all
    BY <1>l, <2>2, <2>7, CutOf
  <2> QED BY <2>2, <2>8
<1> HIDE DEF all
<1>8. append_global_type_items(prefix) = Cut(all, k)
  BY <1>2, <1>5 DEF all
<1> HIDE DEF k
<1> QED BY <1>4, <1>6, <1>7, <1>8, <1>w DEF patterns

\* Names are made of characters, and none is longer than MaxName.
NamesInv == /\ typeNames \in Seq(Seq(Characters))
            /\ \A i \in 1..Len(typeNames) : Len(typeNames[i]) <= MaxName

\* The property holds of any such names.
LEMMA MatchingOfNames ==
    ASSUME NamesInv
    PROVE  MatchingIsSound
<1>1. Typed \subseteq Seq(Characters)
  BY DEF Typed, BoundedSeq, SeqOf
<1> DEFINE Sound(name, prefix) ==
        LET prefix_words == split_identifier_words(prefix)
            n == Len(prefix_words)
            listed == Range(append_global_type_items(prefix))
            words == split_identifier_words(name)
            rank == completion_match_rank(name, prefix)
        IN  /\ n >= 2 => ordered_word_match_rank(words, prefix_words)
                            = LeastOr({Rank(at, n) : at \in Layouts(words, prefix_words)})
            /\ compact_identifier(Front(prefix)) # << >> /\ rank # MATCH_NONE
                  => Matches(name, Front(prefix))
            /\ rank = 0 /\ Len(RowsLike(global_search_patterns(prefix)[1])) <= StrongLimit
                  => name \in listed
            /\ rank \in 20..79 /\ Len(words) < 19 /\ Underscore \notin Range(name)
                  => (WithinLimits(prefix) => name \in listed)
<1>2. ASSUME NEW prefix \in Seq(Characters), prefix # << >>, NEW name \in Range(typeNames)
      PROVE  Sound(name, prefix)
  <2>1. name \in Seq(Characters) /\ Len(name) <= MaxName
    BY RangeIs DEF NamesInv
  <2>2. split_identifier_words(name) \in Seq(Seq(Chars)) /\ split_identifier_words(prefix) \in Seq(Seq(Chars))
    BY <1>2, <2>1, WordsAre
  <2> DEFINE rank == completion_match_rank(name, prefix)
             patterns == global_search_patterns(prefix)
             listed == Range(append_global_type_items(prefix))
             band == rank \in 20..79 /\ Len(split_identifier_words(name)) < 19 /\ Underscore \notin Range(name)
  <2>3. rank = 0 \/ band => /\ IsLike(name, patterns[1]) \/ (rank # 0 /\ IsLike(name, patterns[2]))
                            /\ Matches(name, prefix)
    BY <1>2, <2>1, PatternsFind DEF ToBeFound
  <2>4. Matches(name, prefix) =>
            /\ IsLike(name, patterns[1]) /\ Len(RowsLike(patterns[1])) <= StrongLimit => name \in listed
            /\ (IsLike(name, patterns[1]) \/ IsLike(name, patterns[2])) /\ WithinLimits(prefix)
                  => name \in listed
    BY <1>2, TypesListed DEF NamesInv
  <2>5. rank = 0 /\ Len(RowsLike(patterns[1])) <= StrongLimit => name \in listed
    <3> HIDE DEF listed, patterns
    <3> QED BY <2>3, <2>4
  <2>6. band => (WithinLimits(prefix) => name \in listed)
    <3> HIDE DEF listed, patterns, band
    <3> QED BY <2>3, <2>4
  <2>7. compact_identifier(Front(prefix)) # << >> /\ rank # MATCH_NONE => Matches(name, Front(prefix))
    BY <1>2, <2>1, DeletingKeeps DEF Matches
  <2>8. Len(split_identifier_words(prefix)) >= 2 =>
            ordered_word_match_rank(split_identifier_words(name), split_identifier_words(prefix))
              = LeastOr({Rank(at, Len(split_identifier_words(prefix))) :
                           at \in Layouts(split_identifier_words(name), split_identifier_words(prefix))})
    BY <2>2, GreedyIsBest
  <2> QED BY <2>5, <2>6, <2>7, <2>8
<1> QED BY <1>1, <1>2 DEF MatchingIsSound

(* For names and typed texts of any length and any limits: the words typed are laid on a
   name in the best way, deleting the last character typed loses no name that matched, and
   the list has every name that begins with what was typed if no more rows than the first
   limit do, and within all limits every name without underscores that matches in the
   words' order or contains what was typed (completion_match_rank, global_search_patterns,
   append_global_type_items). *)
THEOREM MatchingAlwaysSound == MatchingSpec => []MatchingIsSound
<1>a. MaxName \in Nat /\ MaxName >= 1
  <2>1. MaxName \in Nat \ {0}
    BY MatchingAssumption
  <2> QED BY <2>1
<1>1. NamesInit => NamesInv
  BY DEF NamesInit, NamesInv
<1>2. NamesInv /\ [NamesNext]_typeNames => NamesInv'
  <2> SUFFICES ASSUME NamesInv, [NamesNext]_typeNames PROVE NamesInv'
    OBVIOUS
  <2> USE DEF NamesInv
  <2>1. CASE AddName
    <3>1. PICK c \in Characters : typeNames' = Append(typeNames, <<c>>)
      BY <2>1 DEF AddName
    <3>2. <<c>> \in Seq(Characters) /\ Len(<<c>>) = 1
      OBVIOUS
    <3> QED BY <1>a, <3>1, <3>2
  <2>2. CASE AddCharacter
    <3> DEFINE n == Len(typeNames)
    <3>1. n \in Nat /\ n # 0 /\ Last(typeNames) = typeNames[n] /\ Len(typeNames[n]) < MaxName
      BY <2>2 DEF AddCharacter, Last
    <3>2. PICK c \in Characters : typeNames' = [typeNames EXCEPT ![n] = Append(@, c)]
      BY <2>2 DEF AddCharacter
    <3>3. n \in 1..n /\ typeNames[n] \in Seq(Characters)
      BY <3>1
    <3> DEFINE longer == Append(typeNames[n], c)
    <3>4. longer \in Seq(Characters) /\ Len(longer) <= MaxName
      BY <1>a, <3>1, <3>3
    <3>5. typeNames' = [typeNames EXCEPT ![n] = longer]
      BY <3>2
    <3> HIDE DEF longer
    <3> QED BY <3>3, <3>4, <3>5
  <2>3. CASE UNCHANGED typeNames
    BY <2>3
  <2> QED BY <2>1, <2>2, <2>3 DEF NamesNext
<1>3. NamesInv => MatchingIsSound
  BY MatchingOfNames
<1> QED BY <1>1, <1>2, <1>3, PTL DEF MatchingSpec

-----------------------------------------------------------------------------
\* Modules and what they need.

\* The modules discovered.
ModulesInv == modules \in Seq(ModuleDefs)

\* The dependencies of a name.
Deps(n) == Range(LookedUp(n))

\* They are names.
LEMMA LookedUpIs ==
    ASSUME ModulesInv, NEW n
    PROVE  LookedUp(n) \in Seq(ModuleNames) /\ Deps(n) \subseteq ModuleNames
<1> DEFINE at == {i \in DOMAIN modules : modules[i].name = n}
           last == CHOOSE i \in at : \A j \in at : j <= i
<1>1. CASE at = {}
  <2>1. LookedUp(n) = << >>
    BY <1>1 DEF LookedUp
  <2>2. << >> \in Seq(ModuleNames)
    OBVIOUS
  <2>3. LookedUp(n) \in Seq(ModuleNames)
    BY <2>1, <2>2
  <2> QED BY <2>3, RangeIs DEF Deps
<1>2. CASE at # {}
  <2>1. at \in SUBSET (1..Len(modules)) /\ Len(modules) \in Nat
    BY DEF ModulesInv
  <2>2. \E i \in at : \A j \in at : j <= i
    <3> HIDE DEF at
    <3> DEFINE n0 == Len(modules)
    <3>2. n0 \in Nat /\ at \in SUBSET (1..n0) /\ at # {}
      BY <1>2, <2>1
    <3> HIDE DEF n0
    <3>1. Largest(at) \in at /\ \A j \in at : j <= Largest(at)
      BY <3>2, LargestRow
    <3> QED BY <3>1
  <2>3. last \in at
    <3> HIDE DEF at
    <3> QED BY <2>2
  <2>4. last \in 1..Len(modules)
    BY <2>1, <2>3
  <2>5. modules[last] \in ModuleDefs
    <3> HIDE DEF last
    <3> QED BY <2>4 DEF ModulesInv
  <2>6. modules[last].deps \in Seq(ModuleNames)
    <3> HIDE DEF last
    <3> QED BY <2>5, ModulesAssumption
  <2>7. LookedUp(n) = modules[last].deps
    BY <1>2 DEF LookedUp
  <2> QED BY <2>6, <2>7, RangeIs DEF Deps
<1> QED BY <1>1, <1>2

\* What a name needs is the least closed set with its dependencies.
LEMMA DeepIs ==
    ASSUME ModulesInv, NEW n
    PROVE  /\ DeepOf(n) \subseteq ModuleNames /\ Deps(n) \subseteq DeepOf(n)
           /\ \A m \in DeepOf(n) : Deps(m) \subseteq DeepOf(n)
           /\ \A ns \in SUBSET ModuleNames :
                  Deps(n) \subseteq ns /\ (\A m \in ns : Deps(m) \subseteq ns) => DeepOf(n) \subseteq ns
<1>1. DeepOf(n) = {m \in ModuleNames : \A ns \in SUBSET ModuleNames :
                      Deps(n) \subseteq ns /\ (\A j \in ns : Deps(j) \subseteq ns) => m \in ns}
  BY DEF DeepOf, Deps, Closed
<1>2. \A m : Deps(m) \subseteq ModuleNames
  BY LookedUpIs
<1> QED BY <1>1, <1>2

\* What is needed by what a name needs, it needs too.
LEMMA DeepTrans ==
    ASSUME ModulesInv, NEW n, NEW m \in DeepOf(n)
    PROVE  DeepOf(m) \subseteq DeepOf(n)
BY DeepIs

\* Of what a name needs, each is a dependency of it, or needed by one.
LEMMA DeepOfDeps ==
    ASSUME ModulesInv, NEW n, NEW x \in DeepOf(n)
    PROVE  \E d \in Deps(n) : x = d \/ x \in DeepOf(d)
<1> DEFINE ns == {y \in ModuleNames : \E d \in Deps(n) : y = d \/ y \in DeepOf(d)}
<1>1. Deps(n) \subseteq ns
  BY LookedUpIs
<1>2. ASSUME NEW m \in ns PROVE Deps(m) \subseteq ns
  <2>1. PICK d \in Deps(n) : m = d \/ m \in DeepOf(d)
    OBVIOUS
  <2>2. Deps(m) \subseteq DeepOf(d)
    BY <2>1, DeepIs
  <2> QED BY <2>2, LookedUpIs
<1>3. ns \in SUBSET ModuleNames
  OBVIOUS
<1> HIDE DEF ns
<1>4. DeepOf(n) \subseteq ns
  BY <1>1, <1>2, <1>3, DeepIs
<1> QED BY <1>4 DEF ns

\* What a cycle hides.
Hidden(n) == UNION {DeepOf(m) : m \in Cyclic(n)}

\* A name on a cycle hides all it needs, and what a dependency hides is hidden.
LEMMA HiddenIs ==
    ASSUME ModulesInv, NEW n
    PROVE  /\ n \in DeepOf(n) => DeepOf(n) \subseteq Hidden(n)
           /\ \A m \in DeepOf(n) : Hidden(m) \subseteq Hidden(n)
<1>1. n \in DeepOf(n) => n \in Cyclic(n)
  BY DEF Cyclic
<1>2. ASSUME NEW m \in DeepOf(n) PROVE Cyclic(m) \subseteq Cyclic(n)
  <2>1. {m} \union DeepOf(m) \subseteq DeepOf(n)
    BY <1>2, DeepTrans
  <2> QED BY <2>1 DEF Cyclic
<1> QED BY <1>1, <1>2 DEF Hidden

-----------------------------------------------------------------------------
\* The loops of resolve_deep.

\* A memo has sets of names for some names.
LEMMA MemoIs ==
    ASSUME NEW ns \in SUBSET ModuleNames, NEW memo \in [ns -> SUBSET ModuleNames]
    PROVE  memo \in Memos /\ DOMAIN memo = ns
BY DEF Memos

\* And nothing else.
LEMMA MemoHas ==
    ASSUME NEW memo \in Memos
    PROVE  DOMAIN memo \in SUBSET ModuleNames /\ \A n \in DOMAIN memo : memo[n] \in SUBSET ModuleNames
<1>1. PICK ns \in SUBSET ModuleNames : memo \in [ns -> SUBSET ModuleNames]
  BY DEF Memos
<1> QED BY <1>1

\* The body of the loop yields an outcome.
LEMMA NestedIs ==
    ASSUME NEW s \in Outcomes, NEW dep \in ModuleNames, NEW stack \in SUBSET ModuleNames,
           NEW nested \in [DeepCalls -> Outcomes]
    PROVE  /\ [name |-> dep, memo |-> s.memo, stack |-> stack] \in DeepCalls
           /\ Nested(s, dep, stack, nested) \in Outcomes
<1> DEFINE c == [name |-> dep, memo |-> s.memo, stack |-> stack]
<1>1. s.memo \in Memos /\ s.deep \in SUBSET ModuleNames
  BY DEF Outcomes
<1>2. c \in DeepCalls
  BY <1>1 DEF DeepCalls
<1>3. Nested(s, dep, stack, nested) =
          [memo |-> nested[c].memo, deep |-> s.deep \union {dep} \union nested[c].deep]
  BY DEF Nested
<1> HIDE DEF c
<1>4. nested[c] \in Outcomes
  BY <1>2
<1>5. nested[c].memo \in Memos /\ nested[c].deep \in SUBSET ModuleNames
  BY <1>4 DEF Outcomes
<1>6. s.deep \union {dep} \union nested[c].deep \in SUBSET ModuleNames
  BY <1>1, <1>5
<1>7. Nested(s, dep, stack, nested) \in Outcomes
  BY <1>3, <1>5, <1>6 DEF Outcomes
<1> QED BY <1>2, <1>7 DEF c

AllRun(deps, memo, stack, nested, all) ==
    /\ all \in [0..Len(deps) -> Outcomes] /\ all[0] = [memo |-> memo, deep |-> {}]
    /\ AllNested(deps, memo, stack, nested) = all[Len(deps)]
    /\ \A i \in 1..Len(deps) : all[i] = Nested(all[i - 1], deps[i], stack, nested)

\* AllNested is the last result of its loop.
LEMMA AllNestedIsLoop ==
    ASSUME NEW deps \in Seq(ModuleNames), NEW memo \in Memos, NEW stack \in SUBSET ModuleNames,
           NEW nested \in [DeepCalls -> Outcomes]
    PROVE  \E all : AllRun(deps, memo, stack, nested, all)
<1> DEFINE n == Len(deps)
           A == Outcomes
           base == [memo |-> memo, deep |-> {}]
           step == [x \in A \X (1..n) |-> Nested(x[1], deps[x[2]], stack, nested)]
           r == CHOOSE all : all = [i \in 0..n |-> IF i = 0 THEN base
                                                   ELSE Nested(all[i - 1], deps[i], stack, nested)]
<1>1. n \in Nat /\ \A i \in 1..n : deps[i] \in ModuleNames
  OBVIOUS
<1>2. base \in A
  BY DEF Outcomes
<1>3. AllNested(deps, memo, stack, nested) = r[n]
  BY DEF AllNested
<1>4. step \in Steps(A, n)
  <2>1. ASSUME NEW x \in A \X (1..n) PROVE Nested(x[1], deps[x[2]], stack, nested) \in A
    <3>1. x[1] \in Outcomes /\ x[2] \in 1..n
      OBVIOUS
    <3>2. deps[x[2]] \in ModuleNames
      BY <1>1, <3>1
    <3> QED BY <3>1, <3>2, NestedIs
  <2> HIDE DEF A, n
  <2> QED BY <2>1 DEF Steps
<1> HIDE DEF A, base
<1>5. PICK acc : IsRun(A, base, n, step, acc)
  <2> HIDE DEF step, n
  <2> QED BY <1>1, <1>2, <1>4, LoopExists
<1>6. acc \in [0..n -> A] /\ acc[0] = base /\ \A i \in 1..n : acc[i] = step[<<acc[i - 1], i>>]
  BY <1>5 DEF IsRun
<1>7. ASSUME NEW i \in 1..n PROVE acc[i] = Nested(acc[i - 1], deps[i], stack, nested)
  <2>1. i - 1 \in 0..n
    BY <1>1
  <2>2. acc[i - 1] \in A
    BY <1>6, <2>1
  <2>3. <<acc[i - 1], i>> \in A \X (1..n)
    BY <2>2
  <2>4. step[<<acc[i - 1], i>>] = Nested(acc[i - 1], deps[i], stack, nested)
    <3> HIDE DEF n
    <3> QED BY <2>3
  <2> QED BY <1>6, <2>4
<1>8. acc = [i \in 0..n |-> IF i = 0 THEN base ELSE Nested(acc[i - 1], deps[i], stack, nested)]
  <2> \A i \in 0..n : i # 0 => i \in 1..n
    OBVIOUS
  <2> HIDE DEF step, n
  <2> QED BY <1>6, <1>7
<1>9. r = [i \in 0..n |-> IF i = 0 THEN base ELSE Nested(r[i - 1], deps[i], stack, nested)]
  <2> HIDE DEF n
  <2> QED BY <1>8
<1> HIDE DEF r, step
<1>10. r[0] = base /\ \A i \in 1..n : r[i] = Nested(r[i - 1], deps[i], stack, nested)
  <2>1. 0 \in 0..n /\ \A i \in 1..n : i \in 0..n /\ i # 0
    BY <1>1
  <2> HIDE DEF n
  <2> QED BY <1>9, <2>1
<1>11. r[n] = acc[n]
  <2> HIDE DEF n
  <2>1. \A i \in 1..n : r[i - 1] = acc[i - 1] => r[i] = acc[i]
    BY <1>7, <1>10
  <2>2. r[0] = acc[0] /\ n \in Nat
    BY <1>1, <1>6, <1>10
  <2> QED BY <2>1, <2>2, SameRuns
<1>12. AllRun(deps, memo, stack, nested, acc)
  BY <1>3, <1>6, <1>7, <1>11 DEF AllRun, A, base
<1> QED BY <1>12

\* A call yields an outcome; one of a name that is new, that of its dependencies, with
\* what it found for the name in the memo.
LEMMA ResolveCallIs ==
    ASSUME ModulesInv, NEW c \in DeepCalls, NEW nested \in [DeepCalls -> Outcomes]
    PROVE  LET r == ResolveCall(c, nested)
               all == AllNested(LookedUp(c.name), c.memo, c.stack \union {c.name}, nested)
           IN  /\ r \in Outcomes
               /\ c.name \in DOMAIN c.memo => r = [memo |-> c.memo, deep |-> c.memo[c.name]]
               /\ c.name \notin DOMAIN c.memo /\ c.name \in c.stack => r = [memo |-> c.memo, deep |-> {}]
               /\ c.name \notin DOMAIN c.memo /\ c.name \notin c.stack
                      => /\ all \in Outcomes /\ r.deep = all.deep
                         /\ DOMAIN r.memo = DOMAIN all.memo \union {c.name}
                         /\ \A n \in DOMAIN r.memo :
                                r.memo[n] = IF n = c.name THEN all.deep ELSE all.memo[n]
<1> DEFINE r == ResolveCall(c, nested)
           deps == LookedUp(c.name)
           stack == c.stack \union {c.name}
           all == AllNested(deps, c.memo, stack, nested)
<1>1. c.name \in ModuleNames /\ c.memo \in Memos /\ c.stack \in SUBSET ModuleNames
  BY DEF DeepCalls
<1>2. CASE c.name \in DOMAIN c.memo
  <2>1. r = [memo |-> c.memo, deep |-> c.memo[c.name]]
    BY <1>2 DEF ResolveCall
  <2>2. c.memo[c.name] \in SUBSET ModuleNames
    BY <1>1, <1>2, MemoHas
  <2>3. r \in Outcomes
    BY <1>1, <2>1, <2>2 DEF Outcomes
  <2> QED BY <1>2, <2>1, <2>3
<1>3. CASE c.name \notin DOMAIN c.memo /\ c.name \in c.stack
  <2>1. r = [memo |-> c.memo, deep |-> {}]
    BY <1>3 DEF ResolveCall
  <2>3. r \in Outcomes
    BY <1>1, <2>1 DEF Outcomes
  <2> QED BY <1>3, <2>1, <2>3
<1>4. CASE c.name \notin DOMAIN c.memo /\ c.name \notin c.stack
  <2>1. deps \in Seq(ModuleNames) /\ stack \in SUBSET ModuleNames
    BY <1>1, LookedUpIs
  <2>2. all \in Outcomes
    <3> HIDE DEF deps, stack
    <3>1. PICK run : AllRun(deps, c.memo, stack, nested, run)
      BY <1>1, <2>1, AllNestedIsLoop
    <3>2. Len(deps) \in 0..Len(deps)
      BY <2>1
    <3> QED BY <3>1, <3>2 DEF AllRun
  <2>3. r = [all EXCEPT !.memo = [n \in DOMAIN @ \union {c.name} |-> IF n = c.name THEN all.deep ELSE @[n]]]
    BY <1>4 DEF ResolveCall
  <2> DEFINE memo == [n \in DOMAIN all.memo \union {c.name} |-> IF n = c.name THEN all.deep ELSE all.memo[n]]
  <2> HIDE DEF all, r
  <2>4. all.memo \in Memos /\ all.deep \in SUBSET ModuleNames
    BY <2>2 DEF Outcomes
  <2>5. r = [memo |-> memo, deep |-> all.deep]
    BY <2>2, <2>3 DEF Outcomes
  <2>6. memo \in [DOMAIN all.memo \union {c.name} -> SUBSET ModuleNames]
    BY <2>4, MemoHas
  <2>7. DOMAIN all.memo \union {c.name} \in SUBSET ModuleNames
    BY <1>1, <2>4, MemoHas
  <2>8. memo \in Memos
    <3> HIDE DEF memo
    <3> QED BY <2>6, <2>7, MemoIs
  <2>9. r \in Outcomes
    BY <2>4, <2>5, <2>8 DEF Outcomes
  <2>10. r.memo = memo /\ r.deep = all.deep
    BY <2>5
  <2>11. DOMAIN r.memo = DOMAIN all.memo \union {c.name}
    BY <2>10
  <2>12. \A n \in DOMAIN r.memo : r.memo[n] = IF n = c.name THEN all.deep ELSE all.memo[n]
    BY <2>10
  <2> QED BY <1>4, <2>2, <2>9, <2>10, <2>11, <2>12 DEF all, r
<1> QED BY <1>2, <1>3, <1>4

DeepRun(deep) ==
    /\ deep \in [0..MaxDepth -> [DeepCalls -> Outcomes]] /\ resolve_deep = deep[MaxDepth]
    /\ \A k \in 1..MaxDepth : deep[k] = [c \in DeepCalls |-> ResolveCall(c, deep[k - 1])]

\* There are as many levels as names, and one more.
LEMMA DepthIs == MaxDepth \in Nat /\ MaxDepth = Cardinality(ModuleNames) + 1 /\ Cardinality(ModuleNames) \in Nat
<1>1. IsFiniteSet(ModuleNames)
  BY ModulesAssumption
<1>2. Cardinality(ModuleNames) \in Nat
  BY <1>1, FS_CardinalityType
<1> QED BY <1>2 DEF MaxDepth

\* resolve_deep is the last level.
LEMMA DeepIsLoop ==
    ASSUME ModulesInv
    PROVE  \E deep : DeepRun(deep)
<1> DEFINE n == MaxDepth
           A == [DeepCalls -> Outcomes]
           base == [c \in DeepCalls |-> [memo |-> c.memo, deep |-> {}]]
           Level(f) == [c \in DeepCalls |-> ResolveCall(c, f)]
           step == [x \in A \X (1..n) |-> Level(x[1])]
           r == CHOOSE deep : deep = [k \in 0..n |-> IF k = 0 THEN base ELSE Level(deep[k - 1])]
<1>1. n \in Nat
  BY DepthIs
<1>2. base \in A
  <2>1. ASSUME NEW c \in DeepCalls PROVE [memo |-> c.memo, deep |-> {}] \in Outcomes
    BY DEF DeepCalls, Outcomes
  <2> QED BY <2>1
<1>3. resolve_deep = r[n]
  BY DEF resolve_deep
<1>4. step \in Steps(A, n)
  <2>1. ASSUME NEW x \in A \X (1..n) PROVE Level(x[1]) \in A
    <3>1. x[1] \in A
      OBVIOUS
    <3>2. \A c \in DeepCalls : ResolveCall(c, x[1]) \in Outcomes
      BY <3>1, ResolveCallIs
    <3> QED BY <3>2
  <2> HIDE DEF A, n, Level
  <2> QED BY <2>1 DEF Steps
<1> HIDE DEF A, base, Level
<1>5. PICK acc : IsRun(A, base, n, step, acc)
  <2> HIDE DEF step, n
  <2> QED BY <1>1, <1>2, <1>4, LoopExists
<1>6. acc \in [0..n -> A] /\ acc[0] = base /\ \A k \in 1..n : acc[k] = step[<<acc[k - 1], k>>]
  BY <1>5 DEF IsRun
<1>7. ASSUME NEW k \in 1..n PROVE acc[k] = Level(acc[k - 1])
  <2>1. k - 1 \in 0..n
    BY <1>1
  <2>2. acc[k - 1] \in A
    BY <1>6, <2>1
  <2>3. <<acc[k - 1], k>> \in A \X (1..n)
    BY <2>2
  <2>4. step[<<acc[k - 1], k>>] = Level(acc[k - 1])
    <3> HIDE DEF n
    <3> QED BY <2>3
  <2> QED BY <1>6, <2>4
<1>8. acc = [k \in 0..n |-> IF k = 0 THEN base ELSE Level(acc[k - 1])]
  <2> \A k \in 0..n : k # 0 => k \in 1..n
    BY <1>1
  <2> HIDE DEF step, n
  <2> QED BY <1>6, <1>7
<1>9. r = [k \in 0..n |-> IF k = 0 THEN base ELSE Level(r[k - 1])]
  <2> HIDE DEF n
  <2> QED BY <1>8
<1> HIDE DEF r, step
<1>10. r[0] = base /\ \A k \in 1..n : r[k] = Level(r[k - 1])
  <2>1. 0 \in 0..n /\ \A k \in 1..n : k \in 0..n /\ k # 0
    BY <1>1
  <2> HIDE DEF n
  <2> QED BY <1>9, <2>1
<1>11. r[n] = acc[n]
  <2> HIDE DEF n
  <2>1. \A k \in 1..n : r[k - 1] = acc[k - 1] => r[k] = acc[k]
    BY <1>7, <1>10
  <2>2. r[0] = acc[0] /\ n \in Nat
    BY <1>1, <1>6, <1>10
  <2> QED BY <2>1, <2>2, SameRuns
<1>12. DeepRun(acc)
  BY <1>3, <1>6, <1>7, <1>11 DEF DeepRun, A, Level
<1> QED BY <1>12

-----------------------------------------------------------------------------
\* What a call finds.

(* A memo is right if it lacks nothing of what its names need but what a cycle hides. It
   is followed up if dependencies of its names are there too, or on the stack. *)
MemoRight(memo) == \A m \in DOMAIN memo : /\ Deps(m) \subseteq memo[m] /\ memo[m] \subseteq DeepOf(m)
                                          /\ DeepOf(m) \ memo[m] \subseteq Hidden(m)
Followed(memo, stack) == \A m \in DOMAIN memo : Deps(m) \subseteq DOMAIN memo \union stack

\* A call is made with such a memo, for what all on the stack need.
Given(c) == /\ c \in DeepCalls /\ MemoRight(c.memo) /\ Followed(c.memo, c.stack)
            /\ \A n \in c.stack : c.name \in DeepOf(n)

\* It keeps the memo so, and finds what the name needs but what a cycle hides, and the
\* dependencies of whatever it adds to the memo.
Yields(c, r) ==
    /\ r \in Outcomes /\ MemoRight(r.memo) /\ Followed(r.memo, c.stack)
    /\ DOMAIN c.memo \subseteq DOMAIN r.memo /\ c.name \in DOMAIN r.memo \union c.stack
    /\ r.deep \subseteq DeepOf(c.name) /\ DeepOf(c.name) \ r.deep \subseteq Hidden(c.name)
    /\ c.name \in c.stack \/ Deps(c.name) \subseteq r.deep
    /\ \A m \in DOMAIN r.memo \ DOMAIN c.memo : Deps(m) \subseteq r.deep

\* What the loop over the dependencies of c.name has found after i of them.
SoFar(c, i, s) ==
    LET stack == c.stack \union {c.name}
    IN  /\ s \in Outcomes /\ MemoRight(s.memo) /\ Followed(s.memo, stack)
        /\ DOMAIN c.memo \subseteq DOMAIN s.memo /\ s.deep \subseteq DeepOf(c.name)
        /\ \A m \in DOMAIN s.memo \ DOMAIN c.memo : Deps(m) \subseteq s.deep
        /\ \A j \in 1..i :
              LET d == LookedUp(c.name)[j]
              IN  /\ d \in s.deep /\ d \in DOMAIN s.memo \union stack
                  /\ DeepOf(d) \ s.deep \subseteq Hidden(d)

\* One dependency more.
LEMMA SoFarMore ==
    ASSUME ModulesInv, NEW c, Given(c), NEW i \in 1..Len(LookedUp(c.name)), NEW s, SoFar(c, i - 1, s),
           NEW nested \in [DeepCalls -> Outcomes],
           \A d \in DeepCalls : Given(d) /\ d.stack = c.stack \union {c.name} => Yields(d, nested[d])
    PROVE  SoFar(c, i, Nested(s, LookedUp(c.name)[i], c.stack \union {c.name}, nested))
<1> DEFINE deps == LookedUp(c.name)
           dep == deps[i]
           stack == c.stack \union {c.name}
           d == [name |-> dep, memo |-> s.memo, stack |-> stack]
           found == nested[d]
           t == Nested(s, dep, stack, nested)
<1>1. /\ c \in DeepCalls /\ c.name \in ModuleNames /\ stack \in SUBSET ModuleNames
      /\ deps \in Seq(ModuleNames) /\ i \in Nat /\ i - 1 \in Nat /\ Deps(c.name) \subseteq DeepOf(c.name)
  BY LookedUpIs, DeepIs DEF Given, DeepCalls
<1>2. dep \in ModuleNames /\ dep \in Deps(c.name)
  <2> HIDE DEF deps
  <2>1. dep \in {deps[j] : j \in 1..Len(deps)}
    BY DEF deps
  <2>2. dep \in Range(deps)
    BY <1>1, <2>1, RangeIs
  <2> QED BY <1>1, <2>2 DEF Deps, deps
<1>3. /\ s \in Outcomes /\ MemoRight(s.memo) /\ Followed(s.memo, stack)
      /\ DOMAIN c.memo \subseteq DOMAIN s.memo /\ s.deep \subseteq DeepOf(c.name)
      /\ \A m \in DOMAIN s.memo \ DOMAIN c.memo : Deps(m) \subseteq s.deep
      /\ \A j \in 1..(i - 1) : /\ deps[j] \in s.deep /\ deps[j] \in DOMAIN s.memo \union stack
                               /\ DeepOf(deps[j]) \ s.deep \subseteq Hidden(deps[j])
  BY DEF SoFar
<1>4. ASSUME NEW n \in stack PROVE dep \in DeepOf(n)
  <2>1. CASE n = c.name
    BY <1>1, <1>2, <2>1
  <2>2. CASE n \in c.stack
    <3>1. c.name \in DeepOf(n)
      BY <2>2 DEF Given
    <3>2. Deps(c.name) \subseteq DeepOf(n)
      BY <3>1, DeepIs
    <3> QED BY <1>2, <3>2
  <2> QED BY <2>1, <2>2
<1>5. t = [memo |-> found.memo, deep |-> s.deep \union {dep} \union found.deep]
  BY DEF Nested
<1>6. d \in DeepCalls /\ t \in Outcomes
  <2> HIDE DEF dep, stack
  <2> QED BY <1>1, <1>2, <1>3, NestedIs
<1>7. d.name = dep /\ d.memo = s.memo /\ d.stack = stack
  OBVIOUS
<1> HIDE DEF d, dep, stack, t, deps
<1>8. Yields(d, found)
  <2>1. Given(d)
    BY <1>3, <1>4, <1>6, <1>7 DEF Given
  <2> QED BY <1>6, <1>7, <2>1 DEF stack
<1>9. /\ found \in Outcomes /\ MemoRight(found.memo) /\ Followed(found.memo, stack)
      /\ DOMAIN s.memo \subseteq DOMAIN found.memo /\ dep \in DOMAIN found.memo \union stack
      /\ found.deep \subseteq DeepOf(dep) /\ DeepOf(dep) \ found.deep \subseteq Hidden(dep)
      /\ \A m \in DOMAIN found.memo \ DOMAIN s.memo : Deps(m) \subseteq found.deep
  BY <1>7, <1>8 DEF Yields
<1> HIDE DEF found
<1>10. t.memo = found.memo /\ t.deep = s.deep \union {dep} \union found.deep
  BY <1>5
<1>11. DeepOf(dep) \subseteq DeepOf(c.name) /\ dep \in DeepOf(c.name)
  BY <1>1, <1>2, DeepTrans
<1>12. ASSUME NEW j \in 1..i
       PROVE  /\ deps[j] \in t.deep /\ deps[j] \in DOMAIN t.memo \union stack
              /\ DeepOf(deps[j]) \ t.deep \subseteq Hidden(deps[j])
  <2>1. CASE j = i
    BY <1>9, <1>10, <2>1 DEF dep
  <2>2. CASE j # i
    <3>1. j \in 1..(i - 1)
      BY <1>1, <2>2
    <3>2. /\ deps[j] \in s.deep /\ deps[j] \in DOMAIN s.memo \union stack
          /\ DeepOf(deps[j]) \ s.deep \subseteq Hidden(deps[j])
      BY <1>3, <3>1
    <3> QED BY <1>9, <1>10, <3>2
  <2> QED BY <2>1, <2>2
<1>13. MemoRight(t.memo) /\ Followed(t.memo, stack) /\ DOMAIN c.memo \subseteq DOMAIN t.memo
  BY <1>3, <1>9, <1>10
<1>14. t.deep \subseteq DeepOf(c.name)
  BY <1>3, <1>9, <1>10, <1>11
<1>15. \A m \in DOMAIN t.memo \ DOMAIN c.memo : Deps(m) \subseteq t.deep
  BY <1>3, <1>9, <1>10
<1>16. SoFar(c, i, t)
  BY <1>6, <1>12, <1>13, <1>14, <1>15 DEF SoFar, deps, stack
<1> QED BY <1>16 DEF t, dep, deps, stack

\* All of them.
LEMMA SoFarAll ==
    ASSUME ModulesInv, NEW c, Given(c), NEW nested \in [DeepCalls -> Outcomes],
           \A d \in DeepCalls : Given(d) /\ d.stack = c.stack \union {c.name} => Yields(d, nested[d])
    PROVE  SoFar(c, Len(LookedUp(c.name)),
                 AllNested(LookedUp(c.name), c.memo, c.stack \union {c.name}, nested))
<1> DEFINE deps == LookedUp(c.name)
           stack == c.stack \union {c.name}
           n == Len(deps)
<1>1. /\ c \in DeepCalls /\ c.name \in ModuleNames /\ stack \in SUBSET ModuleNames
      /\ c.memo \in Memos /\ deps \in Seq(ModuleNames) /\ n \in Nat
  BY LookedUpIs DEF Given, DeepCalls
<1>2. PICK all : AllRun(deps, c.memo, stack, nested, all)
  <2> HIDE DEF deps, stack
  <2> QED BY <1>1, AllNestedIsLoop
<1>3. /\ all \in [0..n -> Outcomes] /\ all[0] = [memo |-> c.memo, deep |-> {}]
      /\ AllNested(deps, c.memo, stack, nested) = all[n]
      /\ \A i \in 1..n : all[i] = Nested(all[i - 1], deps[i], stack, nested)
  <2> HIDE DEF deps, stack
  <2> QED BY <1>2 DEF AllRun
<1> DEFINE good == {i \in 0..n : SoFar(c, i, all[i])}
<1>4. 0 \in good
  <2> DEFINE s == [memo |-> c.memo, deep |-> {}]
  <2>1. s.memo = c.memo /\ s.deep = {}
    OBVIOUS
  <2>2. s \in Outcomes
    BY <1>1 DEF Outcomes
  <2> HIDE DEF s
  <2>3. MemoRight(c.memo) /\ Followed(c.memo, c.stack)
    BY DEF Given
  <2>4. Followed(c.memo, stack)
    BY <2>3 DEF Followed
  <2>5. SoFar(c, 0, s)
    BY <2>1, <2>2, <2>3, <2>4 DEF SoFar
  <2>6. all[0] = s
    BY <1>3 DEF s
  <2>7. SoFar(c, 0, all[0])
    BY <2>5, <2>6
  <2> QED BY <1>1, <2>7
<1>5. ASSUME NEW i \in 1..n, i - 1 \in good PROVE i \in good
  <2>1. SoFar(c, i - 1, all[i - 1]) /\ i \in 0..n
    BY <1>1, <1>5
  <2>2. SoFar(c, i, Nested(all[i - 1], deps[i], stack, nested))
    BY <2>1, SoFarMore
  <2>3. SoFar(c, i, all[i])
    <3> HIDE DEF deps, stack
    <3> QED BY <1>3, <2>2
  <2> QED BY <2>1, <2>3
<1>6. n \in good
  <2> HIDE DEF good, n
  <2>1. \A i \in 0..n : i \in good
    BY <1>1, <1>4, <1>5, NatInd
  <2> QED BY <1>1, <2>1
<1>7. SoFar(c, n, all[n])
  BY <1>6
<1> QED BY <1>3, <1>7

\* A call finds what it should when those it makes do.
LEMMA CallYields ==
    ASSUME ModulesInv, NEW c, Given(c), NEW nested \in [DeepCalls -> Outcomes],
           c.name \notin c.stack =>
               \A d \in DeepCalls : Given(d) /\ d.stack = c.stack \union {c.name} => Yields(d, nested[d])
    PROVE  Yields(c, ResolveCall(c, nested))
<1> DEFINE r == ResolveCall(c, nested)
           deps == LookedUp(c.name)
           stack == c.stack \union {c.name}
           all == AllNested(deps, c.memo, stack, nested)
<1>1. c \in DeepCalls /\ MemoRight(c.memo) /\ Followed(c.memo, c.stack)
      /\ \A n \in c.stack : c.name \in DeepOf(n)
  BY DEF Given
<1>2. /\ r \in Outcomes
      /\ c.name \in DOMAIN c.memo => r = [memo |-> c.memo, deep |-> c.memo[c.name]]
      /\ c.name \notin DOMAIN c.memo /\ c.name \in c.stack => r = [memo |-> c.memo, deep |-> {}]
      /\ c.name \notin DOMAIN c.memo /\ c.name \notin c.stack
             => /\ all \in Outcomes /\ r.deep = all.deep
                /\ DOMAIN r.memo = DOMAIN all.memo \union {c.name}
                /\ \A n \in DOMAIN r.memo : r.memo[n] = IF n = c.name THEN all.deep ELSE all.memo[n]
  BY <1>1, ResolveCallIs
<1>3. CASE c.name \in DOMAIN c.memo
  <2>1. r.memo = c.memo /\ r.deep = c.memo[c.name]
    BY <1>2, <1>3
  <2> HIDE DEF r
  <2>2. /\ Deps(c.name) \subseteq r.deep /\ r.deep \subseteq DeepOf(c.name)
        /\ DeepOf(c.name) \ r.deep \subseteq Hidden(c.name)
    BY <1>1, <1>3, <2>1 DEF MemoRight
  <2>3. Yields(c, r)
    BY <1>1, <1>2, <1>3, <2>1, <2>2 DEF Yields
  <2> QED BY <2>3 DEF r
<1>4. CASE c.name \notin DOMAIN c.memo /\ c.name \in c.stack
  <2>1. r.memo = c.memo /\ r.deep = {}
    BY <1>2, <1>4
  <2> HIDE DEF r
  <2>2. DeepOf(c.name) \subseteq Hidden(c.name)
    BY <1>1, <1>4, HiddenIs
  <2>3. Yields(c, r)
    BY <1>1, <1>2, <1>4, <2>1, <2>2 DEF Yields
  <2> QED BY <2>3 DEF r
<1>5. CASE c.name \notin DOMAIN c.memo /\ c.name \notin c.stack
  <2> DEFINE n == Len(deps)
  <2>1. SoFar(c, n, all)
    BY <1>5, SoFarAll
  <2>2. /\ r.deep = all.deep /\ DOMAIN r.memo = DOMAIN all.memo \union {c.name}
        /\ \A m \in DOMAIN r.memo : r.memo[m] = IF m = c.name THEN all.deep ELSE all.memo[m]
    BY <1>2, <1>5
  <2> HIDE DEF all, n, r
  <2>3. /\ MemoRight(all.memo) /\ Followed(all.memo, stack)
        /\ DOMAIN c.memo \subseteq DOMAIN all.memo /\ all.deep \subseteq DeepOf(c.name)
        /\ \A m \in DOMAIN all.memo \ DOMAIN c.memo : Deps(m) \subseteq all.deep
        /\ \A j \in 1..n : /\ deps[j] \in all.deep /\ deps[j] \in DOMAIN all.memo \union stack
                           /\ DeepOf(deps[j]) \ all.deep \subseteq Hidden(deps[j])
    BY <2>1 DEF SoFar
  <2> HIDE DEF deps
  <2>4. deps \in Seq(ModuleNames) /\ Deps(c.name) = {deps[j] : j \in 1..n}
    BY LookedUpIs, RangeIs DEF Deps, deps, n
  <2>5. ASSUME NEW d \in Deps(c.name)
        PROVE  d \in all.deep /\ d \in DOMAIN all.memo \union stack /\ DeepOf(d) \ all.deep \subseteq Hidden(d)
    BY <2>3, <2>4
  <2>6. ASSUME NEW x \in DeepOf(c.name), x \notin all.deep PROVE x \in Hidden(c.name)
    <3>1. PICK d \in Deps(c.name) : x = d \/ x \in DeepOf(d)
      BY DeepOfDeps
    <3>2. x \in Hidden(d)
      BY <2>5, <2>6, <3>1
    <3>3. d \in DeepOf(c.name)
      BY DeepIs
    <3> QED BY <3>2, <3>3, HiddenIs
  <2>7. MemoRight(r.memo)
    <3> SUFFICES ASSUME NEW m \in DOMAIN r.memo
                 PROVE  /\ Deps(m) \subseteq r.memo[m] /\ r.memo[m] \subseteq DeepOf(m)
                        /\ DeepOf(m) \ r.memo[m] \subseteq Hidden(m)
      BY DEF MemoRight
    <3>1. CASE m = c.name
      BY <2>2, <2>3, <2>5, <2>6, <3>1
    <3>2. CASE m # c.name
      BY <2>2, <2>3, <3>2 DEF MemoRight
    <3> QED BY <3>1, <3>2
  <2>8. Followed(r.memo, c.stack)
    <3> SUFFICES ASSUME NEW m \in DOMAIN r.memo PROVE Deps(m) \subseteq DOMAIN r.memo \union c.stack
      BY DEF Followed
    <3>1. DOMAIN all.memo \union stack = DOMAIN r.memo \union c.stack
      BY <2>2
    <3>2. CASE m = c.name
      BY <2>5, <3>1, <3>2
    <3>3. CASE m # c.name
      BY <2>2, <2>3, <3>1, <3>3 DEF Followed
    <3> QED BY <3>2, <3>3
  <2>9. \A m \in DOMAIN r.memo \ DOMAIN c.memo : Deps(m) \subseteq r.deep
    BY <2>2, <2>3, <2>5
  <2>10. r \in Outcomes
    BY <1>2 DEF r
  <2>11. Yields(c, r)
    BY <2>2, <2>3, <2>5, <2>6, <2>7, <2>8, <2>9, <2>10 DEF Yields
  <2> QED BY <2>11 DEF r
<1> QED BY <1>3, <1>4, <1>5

\* Every level finds what it should for stacks that leave enough levels, as a stack of all
\* names cuts every call.
LEMMA LevelsYield ==
    ASSUME ModulesInv, NEW deep, DeepRun(deep), NEW k \in 0..MaxDepth, NEW c, Given(c),
           Cardinality(c.stack) + k >= MaxDepth
    PROVE  Yields(c, deep[k][c])
<1> DEFINE Enough(d, i) == Given(d) /\ Cardinality(d.stack) + i >= MaxDepth
           good == {i \in 0..MaxDepth : \A d \in DeepCalls : Enough(d, i) => Yields(d, deep[i][d])}
<1>1. MaxDepth \in Nat /\ MaxDepth = Cardinality(ModuleNames) + 1 /\ Cardinality(ModuleNames) \in Nat
  BY DepthIs
<1>2. IsFiniteSet(ModuleNames)
  BY ModulesAssumption
<1>3. ASSUME NEW d \in DeepCalls
      PROVE  /\ d.stack \in SUBSET ModuleNames /\ IsFiniteSet(d.stack) /\ Cardinality(d.stack) \in Nat
             /\ Cardinality(d.stack) <= Cardinality(ModuleNames) /\ d.name \in ModuleNames
  <2>1. d.stack \in SUBSET ModuleNames /\ d.name \in ModuleNames
    BY DEF DeepCalls
  <2>2. IsFiniteSet(d.stack) /\ Cardinality(d.stack) <= Cardinality(ModuleNames)
    BY <1>2, <2>1, FS_Subset
  <2> QED BY <2>1, <2>2, FS_CardinalityType
<1>4. /\ \A i \in 0..MaxDepth : deep[i] \in [DeepCalls -> Outcomes]
      /\ \A i \in 1..MaxDepth : deep[i] = [d \in DeepCalls |-> ResolveCall(d, deep[i - 1])]
  BY DEF DeepRun
<1>5. 0 \in good
  <2>1. ASSUME NEW d \in DeepCalls, Cardinality(d.stack) + 0 >= MaxDepth PROVE FALSE
    BY <1>1, <1>3, <2>1
  <2> QED BY <1>1, <2>1
<1>6. ASSUME NEW i \in 1..MaxDepth, i - 1 \in good PROVE i \in good
  <2>1. i \in 0..MaxDepth /\ i - 1 \in 0..MaxDepth /\ i \in Nat
    BY <1>1
  <2>2. ASSUME NEW d \in DeepCalls, Enough(d, i) PROVE Yields(d, deep[i][d])
    <3>1. deep[i][d] = ResolveCall(d, deep[i - 1])
      BY <1>4
    <3>2. ASSUME d.name \notin d.stack, NEW e \in DeepCalls, Given(e), e.stack = d.stack \union {d.name}
          PROVE  Yields(e, deep[i - 1][e])
      <4>1. Cardinality(e.stack) = Cardinality(d.stack) + 1
        BY <1>3, <3>2, FS_AddElement
      <4>2. Cardinality(e.stack) + (i - 1) >= MaxDepth
        BY <1>1, <1>3, <2>1, <2>2, <4>1
      <4> QED BY <1>6, <3>2, <4>2
    <3>3. Yields(d, ResolveCall(d, deep[i - 1]))
      <4>1. deep[i - 1] \in [DeepCalls -> Outcomes]
        BY <1>4, <2>1
      <4>2. Given(d)
        BY <2>2
      <4> QED BY <3>2, <4>1, <4>2, CallYields
    <3> QED BY <3>1, <3>3
  <2> QED BY <2>1, <2>2
<1>7. k \in good
  <2> HIDE DEF good
  <2>1. \A i \in 0..MaxDepth : i \in good
    BY <1>1, <1>5, <1>6, NatInd
  <2> QED BY <2>1
<1>8. c \in DeepCalls
  BY DEF Given
<1> QED BY <1>7, <1>8

\* And so does resolve_deep, with nothing on the stack.
LEMMA DeepYields ==
    ASSUME ModulesInv, NEW c, Given(c), c.stack = {}
    PROVE  Yields(c, resolve_deep[c]) /\ resolve_deep \in [DeepCalls -> Outcomes]
<1>1. PICK deep : DeepRun(deep)
  BY DeepIsLoop
<1>2. MaxDepth \in Nat /\ MaxDepth \in 0..MaxDepth
  BY DepthIs
<1>3. Cardinality(c.stack) + MaxDepth >= MaxDepth
  BY <1>2, FS_EmptySet
<1>4. resolve_deep = deep[MaxDepth] /\ deep[MaxDepth] \in [DeepCalls -> Outcomes]
  BY <1>1, <1>2 DEF DeepRun
<1>5. Yields(c, deep[MaxDepth][c])
  BY <1>1, <1>2, <1>3, LevelsYield
<1> QED BY <1>4, <1>5

-----------------------------------------------------------------------------
\* One module after the other.

\* What was resolved so far: the memo, and the sets stored.
Resolving == [memo : Memos, deep : Seq(SUBSET ModuleNames)]

\* A module more keeps what was resolved, and adds what its name yields.
LEMMA ResolveModuleIs ==
    ASSUME ModulesInv, NEW s \in Resolving, NEW n \in ModuleNames,
           MemoRight(s.memo), Followed(s.memo, {})
    PROVE  LET c == [name |-> n, memo |-> s.memo, stack |-> {}]
               t == ResolveModule(s, n)
           IN  /\ t \in Resolving /\ Yields(c, resolve_deep[c])
               /\ t.memo = resolve_deep[c].memo /\ t.deep = Append(s.deep, resolve_deep[c].deep)
<1> DEFINE c == [name |-> n, memo |-> s.memo, stack |-> {}]
           t == ResolveModule(s, n)
           found == resolve_deep[c]
<1>1. s.memo \in Memos /\ s.deep \in Seq(SUBSET ModuleNames)
  BY DEF Resolving
<1>2. c \in DeepCalls /\ c.name = n /\ c.memo = s.memo /\ c.stack = {}
  BY <1>1 DEF DeepCalls
<1>3. t = [memo |-> found.memo, deep |-> Append(s.deep, found.deep)]
  BY DEF ResolveModule
<1> HIDE DEF c, t
<1>4. Given(c)
  BY <1>2 DEF Given
<1>5. Yields(c, found)
  BY <1>2, <1>4, DeepYields
<1> HIDE DEF found
<1>6. found.memo \in Memos /\ found.deep \in SUBSET ModuleNames
  BY <1>5 DEF Yields, Outcomes
<1>7. Append(s.deep, found.deep) \in Seq(SUBSET ModuleNames)
  BY <1>1, <1>6
<1>8. t \in Resolving
  BY <1>3, <1>6, <1>7 DEF Resolving
<1> QED BY <1>3, <1>5, <1>8 DEF c, t, found

ModulesRun(done) ==
    /\ done[0] = [memo |-> [n \in {} |-> {}], deep |-> << >>]
    /\ resolve_modules = done[Len(modules)].deep
    /\ \A i \in 1..Len(modules) : done[i] = ResolveModule(done[i - 1], modules[i].name)

\* Names of modules are names.
LEMMA NameIs ==
    ASSUME ModulesInv
    PROVE  Len(modules) \in Nat /\ \A i \in 1..Len(modules) : modules[i].name \in ModuleNames
<1>1. ASSUME NEW i \in 1..Len(modules) PROVE modules[i].name \in ModuleNames
  <2>1. modules[i] \in ModuleDefs
    BY DEF ModulesInv
  <2> QED BY <2>1, ModulesAssumption
<1> QED BY <1>1 DEF ModulesInv

\* Whatever is resolved, a module more is something.
LEMMA ResolveType ==
    ASSUME ModulesInv, NEW s \in Resolving, NEW n \in ModuleNames
    PROVE  ResolveModule(s, n) \in Resolving
<1> DEFINE c == [name |-> n, memo |-> s.memo, stack |-> {}]
           found == resolve_deep[c]
<1>1. s.memo \in Memos /\ s.deep \in Seq(SUBSET ModuleNames)
  BY DEF Resolving
<1>2. c \in DeepCalls
  BY <1>1 DEF DeepCalls
<1>3. ResolveModule(s, n) = [memo |-> found.memo, deep |-> Append(s.deep, found.deep)]
  BY DEF ResolveModule
<1> HIDE DEF c
<1>4. found \in Outcomes
  <2>1. PICK deep : DeepRun(deep)
    BY DeepIsLoop
  <2>2. MaxDepth \in 0..MaxDepth
    BY DepthIs
  <2>3. resolve_deep \in [DeepCalls -> Outcomes]
    BY <2>1, <2>2 DEF DeepRun
  <2> QED BY <1>2, <2>3
<1> HIDE DEF found
<1>5. found.memo \in Memos /\ found.deep \in SUBSET ModuleNames
  BY <1>4 DEF Outcomes
<1>6. Append(s.deep, found.deep) \in Seq(SUBSET ModuleNames)
  BY <1>1, <1>5
<1> QED BY <1>3, <1>5, <1>6 DEF Resolving

\* resolve_modules is what its loop stores.
LEMMA ModulesIsLoop ==
    ASSUME ModulesInv
    PROVE  \E done : ModulesRun(done)
<1> DEFINE n == Len(modules)
           A == Resolving
           base == [memo |-> [m \in {} |-> {}], deep |-> << >>]
           step == [x \in A \X (1..n) |-> ResolveModule(x[1], modules[x[2]].name)]
           r == CHOOSE done : done = [i \in 0..n |-> IF i = 0 THEN base
                                                     ELSE ResolveModule(done[i - 1], modules[i].name)]
<1>1. n \in Nat /\ \A i \in 1..n : modules[i].name \in ModuleNames
  BY NameIs
<1>2. base \in A
  <2> DEFINE none == [m \in {} |-> {}]
  <2>1. none \in [{} -> SUBSET ModuleNames] /\ {} \in SUBSET ModuleNames
    OBVIOUS
  <2> HIDE DEF none
  <2>2. none \in Memos
    BY <2>1, MemoIs
  <2>3. << >> \in Seq(SUBSET ModuleNames)
    OBVIOUS
  <2>4. [memo |-> none, deep |-> << >>] \in A
    BY <2>2, <2>3 DEF Resolving
  <2> QED BY <2>4 DEF none
<1>3. resolve_modules = r[n].deep
  BY DEF resolve_modules
<1>4. step \in Steps(A, n)
  <2>1. ASSUME NEW x \in A \X (1..n) PROVE ResolveModule(x[1], modules[x[2]].name) \in A
    <3>1. x[1] \in Resolving /\ x[2] \in 1..n
      OBVIOUS
    <3>2. modules[x[2]].name \in ModuleNames
      BY <1>1, <3>1
    <3> QED BY <3>1, <3>2, ResolveType
  <2> HIDE DEF A, n
  <2> QED BY <2>1 DEF Steps
<1> HIDE DEF A, base
<1>5. PICK acc : IsRun(A, base, n, step, acc)
  <2> HIDE DEF step, n
  <2> QED BY <1>1, <1>2, <1>4, LoopExists
<1>6. acc \in [0..n -> A] /\ acc[0] = base /\ \A i \in 1..n : acc[i] = step[<<acc[i - 1], i>>]
  BY <1>5 DEF IsRun
<1>7. ASSUME NEW i \in 1..n PROVE acc[i] = ResolveModule(acc[i - 1], modules[i].name)
  <2>1. i - 1 \in 0..n
    BY <1>1
  <2>2. acc[i - 1] \in A
    BY <1>6, <2>1
  <2>3. <<acc[i - 1], i>> \in A \X (1..n)
    BY <2>2
  <2>4. step[<<acc[i - 1], i>>] = ResolveModule(acc[i - 1], modules[i].name)
    <3> HIDE DEF n
    <3> QED BY <2>3
  <2> QED BY <1>6, <2>4
<1>8. acc = [i \in 0..n |-> IF i = 0 THEN base ELSE ResolveModule(acc[i - 1], modules[i].name)]
  <2> \A i \in 0..n : i # 0 => i \in 1..n
    BY <1>1
  <2> HIDE DEF step, n
  <2> QED BY <1>6, <1>7
<1>9. r = [i \in 0..n |-> IF i = 0 THEN base ELSE ResolveModule(r[i - 1], modules[i].name)]
  <2> HIDE DEF n
  <2> QED BY <1>8
<1> HIDE DEF r, step
<1>10. r[0] = base /\ \A i \in 1..n : r[i] = ResolveModule(r[i - 1], modules[i].name)
  <2>1. 0 \in 0..n /\ \A i \in 1..n : i \in 0..n /\ i # 0
    BY <1>1
  <2> HIDE DEF n
  <2> QED BY <1>9, <2>1
<1>11. ModulesRun(r)
  BY <1>3, <1>10 DEF ModulesRun, base
<1> QED BY <1>11

\* What is stored with a module is what it needs, but for what a cycle hides.
Stored(i, deep) ==
    LET n == modules[i].name
    IN  /\ Deps(n) \subseteq deep /\ deep \subseteq DeepOf(n)
        /\ i = 1 \/ Cyclic(n) = {} => deep = DeepOf(n)
        /\ DeepOf(n) \ deep \subseteq Hidden(n)

\* With an empty memo a call is followed up to all that the name needs.
LEMMA FirstIsComplete ==
    ASSUME ModulesInv, NEW c \in DeepCalls, c.stack = {}, DOMAIN c.memo = {}, NEW r, Yields(c, r)
    PROVE  r.deep = DeepOf(c.name)
<1> DEFINE ns == r.deep \intersect DOMAIN r.memo
<1>1. /\ Followed(r.memo, {}) /\ c.name \in DOMAIN r.memo /\ r.deep \subseteq DeepOf(c.name)
      /\ \A m \in DOMAIN r.memo : Deps(m) \subseteq r.deep /\ Deps(m) \subseteq DOMAIN r.memo
      /\ r.memo \in Memos
  BY DEF Yields, Followed, Outcomes
<1>2. ns \in SUBSET ModuleNames
  BY <1>1, MemoHas
<1>3. Deps(c.name) \subseteq ns /\ \A m \in ns : Deps(m) \subseteq ns
  BY <1>1
<1> HIDE DEF ns
<1>4. DeepOf(c.name) \subseteq ns
  BY <1>2, <1>3, DeepIs
<1> QED BY <1>1, <1>4 DEF ns

\* After i modules the memo is right and followed up, and so is what is stored.
LEMMA ModulesStored ==
    ASSUME ModulesInv
    PROVE  \A i \in 1..Len(modules) : Stored(i, resolve_modules[i])
<1> DEFINE n == Len(modules)
<1>1. n \in Nat /\ \A i \in 1..n : modules[i].name \in ModuleNames
  BY NameIs
<1>2. PICK done : ModulesRun(done)
  BY ModulesIsLoop
<1>3. /\ done[0] = [memo |-> [m \in {} |-> {}], deep |-> << >>] /\ resolve_modules = done[n].deep
      /\ \A i \in 1..n : done[i] = ResolveModule(done[i - 1], modules[i].name)
  BY <1>2 DEF ModulesRun
<1> DEFINE Good(i, s) == /\ s \in Resolving /\ MemoRight(s.memo) /\ Followed(s.memo, {})
                         /\ Len(s.deep) = i /\ (i = 0 => DOMAIN s.memo = {})
                         /\ \A j \in 1..i : Stored(j, s.deep[j])
           good == {i \in 0..n : Good(i, done[i])}
<1>4. 0 \in good
  <2> DEFINE none == [m \in {} |-> {}]
             s == [memo |-> none, deep |-> << >>]
  <2>1. none \in [{} -> SUBSET ModuleNames] /\ {} \in SUBSET ModuleNames
    OBVIOUS
  <2>2. s.memo = none /\ s.deep = << >> /\ done[0] = s
    BY <1>3
  <2> HIDE DEF none, s
  <2>3. none \in Memos /\ DOMAIN none = {}
    BY <2>1, MemoIs
  <2>4. s \in Resolving
    <3>1. << >> \in Seq(SUBSET ModuleNames)
      OBVIOUS
    <3> QED BY <2>3, <3>1 DEF Resolving, s
  <2>5. MemoRight(none) /\ Followed(none, {})
    BY <2>3 DEF MemoRight, Followed
  <2>6. Len(s.deep) = 0
    BY <2>2
  <2>7. Good(0, s)
    BY <2>2, <2>3, <2>4, <2>5, <2>6
  <2> HIDE DEF Good
  <2> QED BY <1>1, <2>2, <2>7
<1>5. ASSUME NEW i \in 1..n, i - 1 \in good PROVE i \in good
  <2> DEFINE s == done[i - 1]
             asked == modules[i].name
             c == [name |-> asked, memo |-> s.memo, stack |-> {}]
             found == resolve_deep[c]
             t == done[i]
  <2>1. Good(i - 1, s) /\ i \in 0..n /\ i \in Nat /\ asked \in ModuleNames
    BY <1>1, <1>5
  <2>2. t = ResolveModule(s, asked)
    BY <1>3
  <2>3. c.name = asked /\ c.memo = s.memo /\ c.stack = {}
    OBVIOUS
  <2> HIDE DEF s, asked, t
  <2>4. /\ t \in Resolving /\ Yields(c, found) /\ t.memo = found.memo
        /\ t.deep = Append(s.deep, found.deep)
    BY <2>1, <2>2, ResolveModuleIs
  <2>5. s \in Resolving /\ Len(s.deep) = i - 1 /\ \A j \in 1..(i - 1) : Stored(j, s.deep[j])
    BY <2>1
  <2>6. s.memo \in Memos /\ s.deep \in Seq(SUBSET ModuleNames)
    BY <2>5 DEF Resolving
  <2>7. c \in DeepCalls
    BY <2>1, <2>6 DEF DeepCalls
  <2>8. i = 1 => DOMAIN c.memo = {}
    BY <2>1, <2>3
  <2> HIDE DEF c, found
  <2>9. found.deep \in SUBSET ModuleNames
    BY <2>4 DEF Yields, Outcomes
  <2>10. i = 1 => found.deep = DeepOf(asked)
    BY <2>3, <2>4, <2>7, <2>8, FirstIsComplete
  <2>11. /\ MemoRight(t.memo) /\ Followed(t.memo, {}) /\ Deps(asked) \subseteq found.deep
         /\ found.deep \subseteq DeepOf(asked) /\ DeepOf(asked) \ found.deep \subseteq Hidden(asked)
    BY <2>3, <2>4 DEF Yields
  <2>12. Cyclic(asked) = {} => found.deep = DeepOf(asked)
    BY <2>11 DEF Hidden
  <2>13. Stored(i, found.deep)
    BY <2>10, <2>11, <2>12 DEF Stored, asked
  <2>14. Len(t.deep) = i /\ t.deep[i] = found.deep /\ \A j \in 1..(i - 1) : t.deep[j] = s.deep[j]
    BY <2>1, <2>4, <2>5, <2>6, <2>9
  <2>15. ASSUME NEW j \in 1..i PROVE Stored(j, t.deep[j])
    <3>1. CASE j = i
      BY <2>13, <2>14, <3>1
    <3>2. CASE j # i
      <4>1. j \in 1..(i - 1)
        BY <2>1, <3>2
      <4> QED BY <2>5, <2>14, <4>1
    <3> QED BY <3>1, <3>2
  <2>16. Good(i, t)
    BY <2>4, <2>11, <2>14, <2>15
  <2> HIDE DEF Good
  <2> QED BY <2>1, <2>16 DEF t
<1>6. n \in good
  <2> HIDE DEF good, n
  <2>1. \A i \in 0..n : i \in good
    BY <1>1, <1>4, <1>5, NatInd
  <2> QED BY <1>1, <2>1
<1>7. \A i \in 1..n : Stored(i, done[n].deep[i])
  BY <1>6
<1> QED BY <1>3, <1>7

(* For any modules and dependencies: resolve_modules stores with every module what it
   needs and nothing else, but for what a cycle hides, which is never one of its own
   dependencies, and nothing of the first module (resolve_modules, resolve_deep). *)
THEOREM DependenciesAlwaysComplete == ModulesSpec => []DeepDependenciesComplete
<1>1. ModulesInit => ModulesInv
  <2>1. << >> \in Seq(ModuleDefs)
    OBVIOUS
  <2> QED BY <2>1 DEF ModulesInit, ModulesInv
<1>2. ModulesInv /\ [DiscoverModule]_modules => ModulesInv'
  <2> SUFFICES ASSUME ModulesInv, [DiscoverModule]_modules PROVE ModulesInv'
    OBVIOUS
  <2>1. CASE DiscoverModule
    <3>1. PICK m \in ModuleDefs : modules' = Append(modules, m)
      BY <2>1 DEF DiscoverModule
    <3> QED BY <3>1 DEF ModulesInv
  <2>2. CASE UNCHANGED modules
    BY <2>2 DEF ModulesInv
  <2> QED BY <2>1, <2>2
<1>3. ModulesInv => DeepDependenciesComplete
  <2> SUFFICES ASSUME ModulesInv PROVE DeepDependenciesComplete
    OBVIOUS
  <2>1. ASSUME NEW i \in DOMAIN modules PROVE Stored(i, resolve_modules[i])
    <3>1. i \in 1..Len(modules)
      BY DEF ModulesInv
    <3> QED BY <3>1, ModulesStored
  <2> QED BY <2>1 DEF DeepDependenciesComplete, Stored, Deps, Hidden
<1> QED BY <1>1, <1>2, <1>3, PTL DEF ModulesSpec

=============================================================================
