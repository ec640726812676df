-------------------------------- MODULE Goto --------------------------------
(***************************************************************************)
(* Where goto, hover and signature help find a symbol (query/goto.rs, and  *)
(* handlers.rs for the Engine's index): the walk along the links of        *)
(* inheritance, which is not the one of completion, and what is tried when *)
(* it finds nothing.                                                       *)
(*                                                                         *)
(* The cursor's context is what the parser of the buffer gives: the symbol,*)
(* what it is qualified with and by which operator, the class around it,   *)
(* the type inferred for a qualifying variable (Locals has the inference)  *)
(* and whether a local of the symbol's name is declared before the cursor. *)
(* A result names a row and a member of it, or the class itself; the text  *)
(* of files that corrects its line and column is left out, and members are *)
(* taken for functions.                                                    *)
(***************************************************************************)
EXTENDS Members

CONSTANTS Headers,        \* the files that are headers
          Variable,       \* a qualifying variable or expression, named as no class
          MaxSignatures   \* limit of the signatures of one request: 16

\* Names of rows that a cursor has beside the classes'.
ASSUME GotoAssumption ==
    /\ MaxSignatures \in Nat \ {0}
    /\ {Variable, NoType} \intersect {"this", "Super"} = {} /\ Variable # NoType
    /\ Names \intersect {"this", "Super"} = {}

NoHit == [row |-> 0, access |-> "none", type |-> NoType]
ClassHit(i) == [row |-> i, access |-> "class", type |-> NoType]
Local == [row |-> 0, access |-> "local", type |-> NoType]

FirstHit(hits) == FirstBut(NoHit, hits)

\* Headers first, then by line; rows of a file that is gone are not joined.
get_class_ids(db, n) ==
    LET Before(i, j) ==
            LET hi == db[i].file \in Headers
                hj == db[j].file \in Headers
            IN  IF hi # hj THEN hi
                ELSE db[i].line < db[j].line \/ (db[i].line = db[j].line /\ i < j)
        ids == {i \in DOMAIN db : db[i].live /\ db[i].name = n}
    IN  Sorted(ids, {p \in ids \X ids : Before(p[1], p[2])})

\* Faulty variant: of several bases the first is followed.
get_parent_ids_first(db, i) ==
    IF db[i].bases = << >> THEN << >>
    ELSE IF db[i].links[1] # 0 THEN <<db[i].links[1]>> ELSE get_class_ids(db, db[i].bases[1])

\* The row a link names, whatever it has become; the name counts only without a link.
get_parent_ids(db, i) ==
    LET ids == UNION {IF db[i].links[k] # 0 THEN {db[i].links[k]}
                      ELSE Range(get_class_ids(db, db[i].bases[k])) : k \in DOMAIN db[i].bases}
    IN  Sorted(ids, {p \in ids \X ids : p[1] < p[2]})

AllHits(db) ==
    {NoHit} \union [row : DOMAIN db, access : Accesses, type : Names \union {"void", NoType}]

\* Members of a name in some rows.
Hits(db, ids, symbol) ==
    UNION {{[row |-> i, access |-> m.access, type |-> m.type] :
              m \in {m \in db[i].members : m.label = symbol}} : i \in {i \in ids : db[i].live}}

\* member_order_by_clause: declarations and headers first, or the other way round.
Ordered(db, hits, prefer_impl) ==
    LET Rank(h) == (IF (h.access = "impl") = prefer_impl THEN 0 ELSE 2)
                   + (IF (db[h.row].file \in Headers) # prefer_impl THEN 0 ELSE 1)
        Before(g, h) == Rank(g) < Rank(h) \/ (Rank(g) = Rank(h) /\ g.row < h.row)
    IN  Sorted(hits, {p \in hits \X hits : Before(p[1], p[2])})

Best(db, hits, prefer_impl) ==
    IF hits = {} THEN NoHit ELSE Head(Ordered(db, hits, prefer_impl))

find_member_in_class(db, i, symbol) == Best(db, Hits(db, {i}, symbol), FALSE)
find_member_anywhere(db, symbol) == Best(db, Hits(db, DOMAIN db, symbol), FALSE)
find_member_by_class_name(db, n, symbol, prefer_impl) ==
    Best(db, Hits(db, {i \in DOMAIN db : db[i].name = n}, symbol), prefer_impl)

\* What goto follows from each row.
Parents(db) == [i \in DOMAIN db |-> get_parent_ids(db, i)]

\* The member of the first row that has one.
find_symbol_in_inheritance_chain(db, n, symbol) ==
    LET i == FirstVisited(get_class_ids(db, n), Parents(db),
                          {i \in DOMAIN db : find_member_in_class(db, i, symbol) # NoHit})
    IN  IF i = 0 THEN NoHit ELSE find_member_in_class(db, i, symbol)

find_type_definition(db, n) ==
    LET ids == get_class_ids(db, n) IN IF ids = << >> THEN NoHit ELSE ClassHit(Head(ids))

\* One turn of find_impl_in_inheritance: the names of parents not tried yet, all rows
\* of a name at once.
TryParents(db, s, symbol) ==
    LET i == Head(s.walk.queue)
        names == [k \in DOMAIN Parents(db)[i] |-> db[Parents(db)[i][k]].name]
        hits == [k \in DOMAIN names |->
                    IF names[k] \in s.tried THEN NoHit
                    ELSE find_member_by_class_name(db, names[k], symbol, TRUE)]
    IN  IF i \in s.walk.visited THEN [s EXCEPT !.walk = Visit(@, Parents(db))]
        ELSE [walk |-> Visit(s.walk, Parents(db)), tried |-> s.tried \union Range(names),
              hit |-> FirstHit(hits)]

ImplFrom(db, n, symbol) ==
    LET states == [walk : Walks(DOMAIN db), tried : SUBSET Names, hit : AllHits(db)]
    IN  Loop([walk |-> WalkFrom(get_class_ids(db, n)), tried |-> {n}, hit |-> NoHit],
             {s \in states : s.walk.queue = << >> \/ s.hit # NoHit},
             [s \in states |-> TryParents(db, s, symbol)]).hit

\* Faulty variant: any member of that name, when the class has none.
find_impl_anywhere(db, n, symbol) ==
    FirstHit(<<find_member_by_class_name(db, n, symbol, TRUE), ImplFrom(db, n, symbol),
               find_member_anywhere(db, symbol)>>)

find_impl_in_inheritance(db, n, symbol) ==
    FirstHit(<<find_member_by_class_name(db, n, symbol, TRUE), ImplFrom(db, n, symbol)>>)

-----------------------------------------------------------------------------
\* What a qualifier stands for. A cursor has symbol, qualifier (a class, Variable, this,
\* Super or NoType), op, enclosing and inferred class, and local.

Or(type, otherwise) == IF type = NoType THEN otherwise ELSE type

\* In goto_definition_inner: what is unknown is looked for as a class of that name.
QualifierClass(c) ==
    IF (c.qualifier = "Super" /\ c.op = "::") \/ (c.qualifier = "this" /\ c.op = "->")
    THEN Or(c.enclosing, c.qualifier)
    ELSE IF c.op = "::" THEN c.qualifier ELSE Or(c.inferred, c.qualifier)

\* A variable without an inferred type stands for nothing.
resolve_impl_class(c) ==
    IF \/ c.qualifier = NoType
       \/ (c.qualifier = "Super" /\ c.op = "::") \/ (c.qualifier = "this" /\ c.op = "->")
    THEN c.enclosing
    ELSE IF c.op = "::" THEN c.qualifier ELSE c.inferred

\* Of hover and of signature help.
resolve_lookup_class(c) ==
    IF c.qualifier = NoType THEN c.enclosing ELSE QualifierClass(c)
resolve_signature_class(c) == resolve_lookup_class(c)

-----------------------------------------------------------------------------
\* Requests over one index.

goto_definition(db, c) ==
    IF c.local THEN Local
    ELSE FirstHit(<<IF c.qualifier = NoType THEN NoHit
                    ELSE find_symbol_in_inheritance_chain(db, QualifierClass(c), c.symbol),
                    find_symbol_in_inheritance_chain(db, c.enclosing, c.symbol),
                    find_type_definition(db, c.symbol),
                    find_member_anywhere(db, c.symbol)>>)

goto_implementation(db, c) ==
    LET n == resolve_impl_class(c)
    IN  IF c.local THEN Local
        ELSE FirstHit(<<find_impl_in_inheritance(db, n, c.symbol),
                        find_member_by_class_name(db, n, c.symbol, FALSE)>>)

\* Hover's own queries select the rows that goto's do, and read more of them.
find_member_hover_in_inheritance_chain(db, n, symbol) == find_symbol_in_inheritance_chain(db, n, symbol)
find_member_hover_anywhere(db, symbol) == find_member_anywhere(db, symbol)
find_type_hover(db, n) == find_type_definition(db, n)

get_hover(db, c) ==
    IF c.local THEN Local
    ELSE FirstHit(<<find_member_hover_in_inheritance_chain(db, resolve_lookup_class(c), c.symbol),
                    find_type_hover(db, c.symbol),
                    find_member_hover_anywhere(db, c.symbol)>>)

collect_member_signature_items(db, i, symbol) == Ordered(db, Hits(db, {i}, symbol), FALSE)

\* The loop of collect_member_signatures_in_inheritance.
SignaturesFrom(db, n, symbol) ==
    LET states == [walk : Walks(DOMAIN db), items : Seq(AllHits(db))]
        Listed(s) == LET i == Head(s.walk.queue) IN
                     IF i \in s.walk.visited THEN s.items
                     ELSE s.items \o collect_member_signature_items(db, i, symbol)
        end == Loop([walk |-> WalkFrom(get_class_ids(db, n)), items |-> << >>],
                    {s \in states : s.walk.queue = << >> \/ Len(s.items) >= MaxSignatures},
                    [s \in states |-> [walk |-> Visit(s.walk, Parents(db)), items |-> Listed(s)]])
    IN  Cut(end.items, MaxSignatures)

collect_function_signatures_anywhere(db, symbol) ==
    Cut(Ordered(db, Hits(db, DOMAIN db, symbol), FALSE), MaxSignatures)

get_signature_help(db, c) ==
    LET n == resolve_signature_class(c)
        inherited == SignaturesFrom(db, n, c.symbol)
    IN  IF inherited # << >> THEN inherited ELSE collect_function_signatures_anywhere(db, c.symbol)

\* Of usage.rs: the member that references are restricted to, if there is one.
resolve_usage_scope(db, c) ==
    IF c.local THEN Local
    ELSE LET n == IF \/ c.qualifier \in {NoType, "this"}
                    \/ (c.qualifier = "Super" /\ c.op = "::") THEN c.enclosing
                  ELSE IF c.op = "->" THEN Or(c.inferred, c.qualifier) ELSE c.qualifier
         IN  find_symbol_in_inheritance_chain(db, n, c.symbol)

-----------------------------------------------------------------------------
\* Requests over the project's index and the Engine's.

Answer(source, hit) == [source |-> source, hit |-> hit]

\* The Engine's index is asked when the project's has nothing at all.
Federated(Request(_, _), c) ==
    LET own == Request(rows, c) IN
    IF own # NoHit THEN Answer("project", own) ELSE Answer("engine", Request(engine, c))

goto_definition_with_engine(c) == Federated(goto_definition, c)
goto_implementation_with_engine(c) == Federated(goto_implementation, c)
hover_with_engine(c) == Federated(get_hover, c)

\* The Engine's overloads are merged; merge_query_results tells results apart by their
\* name, path and line, and a signature has a name and fields called otherwise.
signature_help_with_engine(c) ==
    LET From(source, hits) == [k \in DOMAIN hits |-> Answer(source, hits[k])]
        own == get_signature_help(rows, c)
    IN  IF own # << >> THEN From("project", own) ELSE From("engine", get_signature_help(engine, c))

-----------------------------------------------------------------------------
\* Properties

NoBuffer == [n \in Names |-> << >>]

\* After "v->" or "n::", written in a class or outside of one, v inferred to be an n.
Qualified(symbol, n, enclosing) ==
    {[symbol |-> symbol, qualifier |-> q[1], op |-> q[2], enclosing |-> enclosing,
      inferred |-> n, local |-> FALSE] : q \in {<<Variable, "->">>, <<n, "::">>}}

ClassOf(answer) ==
    (IF answer.source = "project" THEN rows ELSE engine)[answer.hit.row].name

\* A declaration, and not what is made up for implementations.
Declares(row) == row.bases # << >> \/ \E m \in row.members : m.access # "impl"

\* Every row has its file, and a link names the only declaration of its class.
Healthy(db) ==
    \A i \in DOMAIN db :
        /\ db[i].live
        /\ \A k \in DOMAIN db[i].links :
              db[i].links[k] # 0
                 => {j \in DOMAIN db : db[j].name = db[i].bases[k] /\ Declares(db[j])} \subseteq {db[i].links[k]}

\* What completion offers on a class, goto finds; and where the links are as a refresh
\* of an unambiguous project leaves them, a member that a project class of the chain
\* makes public is found in the chain, whatever is included, and not in another class
\* with a member of that name. Completion walks by names, goto by links.
GotoFindsWhatIsOffered == Filled =>
    \A f \in SourceFiles, n \in Names, a \in Accessors :
        LET p == ProjectContext(f)
            items == fetch_members_with_engine(p, EngineContext, n, a, NoBuffer)
        IN  \A i \in DOMAIN items : \A c \in Qualified(items[i].label, n, a) :
               LET found == goto_definition_with_engine(c) IN
               /\ found.hit # NoHit \/ \E j \in DOMAIN rows : ~rows[j].live
               /\ Healthy(rows) /\ items[i].label \in PublicLabels(p, NamesAbove(p, {n}))
                     => /\ found.source = "project"
                        /\ ClassOf(found) \in NamesAbove(Context(rows, {}), {n})

\* Names of the rows reached as goto follows them.
LinkedAbove(db, n) ==
    {db[i].name : i \in Closure(Range(get_class_ids(db, n)), [i \in DOMAIN db |-> Range(Parents(db)[i])])}

\* The requests at one cursor agree: where the class of the qualifier, or of its bases,
\* has the symbol, hover and the first signature are of the class that goto goes to, and
\* references are restricted to the member it goes to; an implementation is of that
\* class or of one of its bases, never of another.
RequestsAgree == Filled =>
    \A symbol \in Labels, n \in Names, a \in Accessors : \A c \in Qualified(symbol, n, a) :
        LET definition == goto_definition_with_engine(c)
            hover == hover_with_engine(c)
            signatures == signature_help_with_engine(c)
            implementation == goto_implementation_with_engine(c)
            member == resolve_usage_scope(rows, c)
            db == IF implementation.source = "project" THEN rows ELSE engine
        IN  /\ (\E s \in {"project", "engine"} :
                   /\ find_symbol_in_inheritance_chain(
                         IF s = "project" THEN rows ELSE engine, n, symbol) # NoHit
                   /\ definition.source = s)
               => /\ ClassOf(hover) = ClassOf(definition)
                  /\ ClassOf(Head(signatures)) = ClassOf(definition)
            /\ member # NoHit => definition = Answer("project", member)
            /\ implementation.hit # NoHit
                  => ClassOf(implementation) \in {n} \union LinkedAbove(db, n)
=============================================================================
