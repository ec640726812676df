------------------------------- MODULE Locals -------------------------------
(***************************************************************************)
(* What one name stands for at a row of the open buffer: whether completion*)
(* lists it and its type there (completion.rs), its type for goto, hover   *)
(* and references (query/goto.rs), the local declaration that goto goes to,*)
(* and the lines of a local's references (query/usage.rs). Five scans of   *)
(* the syntax tree that treat nested functions, blocks and rows after the  *)
(* cursor differently.                                                     *)
(*                                                                         *)
(* The tree is given by rows: a row may open a function, a lambda or a     *)
(* block, declare the name (as a parameter where it opens a function or a  *)
(* lambda), with an initializer, assign to it, and close what is open. Or  *)
(* it declares another variable, of type other, and the value it has, or   *)
(* the body of the lambda it has, mentions the name.                       *)
(* Types are what clean_type leaves of them; a cursor is taken for one     *)
(* behind what its row declares.                                           *)
(***************************************************************************)
EXTENDS Naturals, FiniteSets, Sequences

CONSTANTS Types, AutoType, Untyped,
          Rows,    \* the rows that buffers are made of
          MaxBuffer

\* An initializer is part of a declaration.
ASSUME LocalsAssumption ==
    /\ AutoType # Untyped
    /\ \A row \in Rows : row.init # Untyped => row.decl # Untyped

VARIABLE buffer

Count(a, b, P(_)) == Cardinality({k \in a..b : P(buffer[k])})
Opens(row) == row.open # "none"
Closes(row) == row.close
OpenAt(k) == Count(1, k, Opens) - Count(1, k, Closes)

Opening(kinds) == {s \in DOMAIN buffer : buffer[s].open \in kinds}
FunctionLike == Opening({"function", "lambda"})
EndOf(s) ==
    LET ends == {e \in s..Len(buffer) : Count(s, e, Opens) = Count(s, e, Closes)}
    IN  IF ends = {} THEN Len(buffer) ELSE CHOOSE e \in ends : \A x \in ends : e <= x

Largest(rows) == CHOOSE k \in rows : \A j \in rows : j <= k
Least(rows) == CHOOSE k \in rows : \A j \in rows : k <= j

\* What is open around a row; its innermost function or lambda, 0 for none.
Within(scopes, k) == {s \in scopes : s <= k /\ k <= EndOf(s)}
Around(k) == Within(FunctionLike, k)
find_enclosing_function_for_row(k) == IF Around(k) = {} THEN 0 ELSE Largest(Around(k))

Declarations == {k \in DOMAIN buffer : buffer[k].decl # Untyped}
Preceding(rows, k) == {d \in rows : d <= k}
TypeAt(rows) == IF rows = {} THEN Untyped ELSE buffer[Largest(rows)].decl

-----------------------------------------------------------------------------
\* query/goto.rs

\* Faulty variant: declarations of nested functions count too.
ScanNested(s) == {d \in Declarations : s \in Around(d)}

\* scan_for_var_decl that stops at nested functions.
scan_for_var_decl(s) == {d \in Declarations : find_enclosing_function_for_row(d) = s}

\* Of the declarations of the innermost function, or if it has none of the whole buffer,
\* the nearest before the cursor, or if all are behind it the first.
infer_var_type(k) ==
    LET s == find_enclosing_function_for_row(k)
        own == IF s = 0 THEN {} ELSE scan_for_var_decl(s)
        matches == IF own = {} THEN Declarations ELSE own
    IN  IF matches = {} THEN Untyped
        ELSE IF Preceding(matches, k) # {} THEN TypeAt(Preceding(matches, k))
        ELSE buffer[Least(matches)].decl

\* scan_local_declarations takes declarations and parameters, not fields; 0 for none.
find_local_declaration(k) ==
    LET s == find_enclosing_function_for_row(k)
        own == IF s = 0 THEN {} ELSE Preceding(scan_for_var_decl(s), k)
    IN  IF own = {} THEN 0 ELSE Largest(own)

-----------------------------------------------------------------------------
\* query/usage.rs

\* Declarations anywhere in the function that begin at the cursor's row or before it.
has_local_declaration(s, k) == \E d \in Preceding(Declarations, k) : s \in Around(d)

\* The lines of a local's references, none if it is no local.
resolve_local_scope(k) ==
    LET s == find_enclosing_function_for_row(k)
    IN  IF s # 0 /\ has_local_declaration(s, k) THEN s..EndOf(s) ELSE {}

-----------------------------------------------------------------------------
\* completion.rs

FirstOf(field(_), k) ==
    LET given == {j \in 1..k : field(buffer[j]) # Untyped}
    IN  IF given = {} THEN Untyped ELSE field(buffer[Least(given)])

\* The first declaration of the name that is initialized, the first assignment to it:
\* in the whole buffer up to the cursor.
infer_from_declaration_initializer(k) == FirstOf(LAMBDA row : row.init, k)
infer_from_assignment_text(k) == FirstOf(LAMBDA row : row.assign, k)

\* declaration_contains_name descends into the value of a declaration.
Mentions == {k \in DOMAIN buffer : buffer[k].other # Untyped}
Counted(k) == Preceding(Declarations \union Mentions, k)

\* The last one before the cursor, in whatever function; where a lambda has the name as
\* a parameter, that comes behind the declaration the lambda is the value of.
scan_declarations(k) ==
    LET row == buffer[Largest(Counted(k))]
    IN  IF Counted(k) = {} THEN Untyped ELSE IF row.decl # Untyped THEN row.decl ELSE row.other

\* The declaration that the list of locals shows: the first in the innermost function
\* that is in no closed block; nothing of the functions around a lambda.
collect_local_completion_items(k) ==
    LET s == find_enclosing_function_for_row(k)
        Blocks(j) == Within(Opening({"block"}), j)
        listed == IF s = 0 THEN {}
                  ELSE {d \in Preceding(scan_for_var_decl(s), k) : Blocks(d) \subseteq Blocks(k)}
    IN  IF listed = {} THEN 0 ELSE Least(listed)

\* Its type there: an auto has that of its own initializer.
completion_decl_type(d) ==
    IF buffer[d].decl = AutoType /\ buffer[d].init # Untyped THEN buffer[d].init ELSE buffer[d].decl

infer_variable_type(k) ==
    LET declared == scan_declarations(k)
        initial == infer_from_declaration_initializer(k)
    IN  IF declared \notin {AutoType, Untyped} THEN declared
        ELSE IF declared = AutoType /\ initial # Untyped THEN initial
        ELSE infer_from_assignment_text(k)

BufferInit == buffer = << >>

\* Functions are at the top of the buffer, lambdas and blocks in functions.
AddRow ==
    /\ Len(buffer) < MaxBuffer
    /\ \E row \in Rows :
          /\ row.open = "function" => OpenAt(Len(buffer)) = 0
          /\ row.open \in {"lambda", "block"} => OpenAt(Len(buffer)) > 0
          /\ Closes(row) /\ ~Opens(row) => OpenAt(Len(buffer)) > 0
          /\ buffer' = Append(buffer, row)

-----------------------------------------------------------------------------
\* Properties

\* The declaration in force at a row: the last before it in what is open around it,
\* or outside of functions.
Visible(k) ==
    LET scopes == Opening({"function", "lambda", "block"})
        seen == {d \in Preceding(Declarations, k) : Within(scopes, d) \subseteq Within(scopes, k)}
    IN  IF seen = {} THEN 0 ELSE Largest(seen)

\* What VariableTypesAgree says of a row.
AgreeAt(k) ==
    LET d == Visible(k)
        s == find_enclosing_function_for_row(k)
        before == Preceding(Declarations, k)
        inner == {e \in Declarations : find_enclosing_function_for_row(e) = s /\ s # 0}
        own == inner \intersect before
        local == find_local_declaration(k)
        listed == collect_local_completion_items(k)
    IN  /\ d # 0 =>
              /\ d \in own /\ own \subseteq 1..d => infer_var_type(k) = buffer[d].decl /\ local = d
              /\ before \subseteq 1..d /\ inner = {} => infer_var_type(k) = buffer[d].decl
              /\ Counted(k) \subseteq 1..d =>
                    /\ buffer[d].decl # AutoType => infer_variable_type(k) = buffer[d].decl
                    /\ before = {d} /\ buffer[d].init # Untyped /\ buffer[d].decl = AutoType
                          => infer_variable_type(k) = completion_decl_type(d)
              /\ d \in own => listed # 0 /\ (own = {d} => listed = d)
        /\ listed # 0 => local # 0
        /\ local # 0 => {local, k} \subseteq resolve_local_scope(k)
        /\ resolve_local_scope(k) # {} /\ local = 0
              => \E e \in before : s < find_enclosing_function_for_row(e)

\* All requests take the name for the same variable. Of the declaration d in force:
\* goto infers its type if d is the last of the innermost function, or the last of the
\* buffer and that function declares nothing; completion infers it if d is the last of
\* the buffer, for an auto if it is the only one, and no declaration after it has a value
\* that mentions the name, whose type it would take; and if d is in the innermost function
\* the list of locals has the name, of d if it is the only declaration there, while what
\* the list has is a local for goto as well. Where goto goes to a local declaration,
\* references are those of a range that has both rows; where references take the name
\* for a local and goto does not, a lambda before the cursor declares it.
VariableTypesAgree == \A k \in DOMAIN buffer : AgreeAt(k)
=============================================================================
