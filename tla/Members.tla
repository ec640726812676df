------------------------------ MODULE Members ------------------------------
(***************************************************************************)
(* What completion knows of a class (completion.rs): the classes of a      *)
(* name, the walk along inheritance that lists members, the one that finds *)
(* the type of a member, and both again over the project's and the         *)
(* Engine's index and the classes of the open buffer.                      *)
(*                                                                         *)
(* A context is an index and the files the current file includes; the file *)
(* of a query is known to the project's index alone. The labels considered *)
(* are those that match what was typed; items keep their label, the class  *)
(* they are from and its type. The caches in front of the walk are         *)
(* CompletionFlow's.                                                       *)
(***************************************************************************)
EXTENDS SymbolIndex

CONSTANTS Includes,    \* pairs of files, a file and one that it includes
          MaxItems,    \* MAX_COMPLETION_ITEMS
          MaxPerClass  \* MAX_MEMBER_ITEMS_PER_CLASS

\* included_file_ids: what is reached over resolved includes.
Including(fs) == Closure(fs, [f \in SourceFiles |-> {g \in SourceFiles : <<f, g>> \in Includes}])

Context(db, files) == [rows |-> db, seen |-> files]
ProjectContext(file) ==
    Context(rows, IF Of(rows, file) = {} THEN {} ELSE Including({file}))
EngineContext == Context(engine, {})

\* A row without its file is in no file that is included.
Preferred(near, ids) == IF near = << >> THEN ids ELSE near
filter_class_ids_by_includes(ctx, ids) ==
    Preferred(KeepIn(ids, {i \in DOMAIN ctx.rows : ctx.rows[i].live /\ ctx.rows[i].file \in ctx.seen}), ids)

\* ORDER BY line_number
class_ids_by_name(ctx, n) ==
    LET ids == {i \in DOMAIN ctx.rows : ctx.rows[i].name = n}
        Before(i, j) == \/ ctx.rows[i].line < ctx.rows[j].line
                        \/ ctx.rows[i].line = ctx.rows[j].line /\ i < j
    IN  filter_class_ids_by_includes(ctx, Sorted(ids, {p \in ids \X ids : Before(p[1], p[2])}))

\* The rows queued for base k of row i: the one its link names, then all of its name.
Queued(ctx, i, k) ==
    LET link == ctx.rows[i].links[k]
    IN  (IF link = 0 THEN << >> ELSE <<link>>) \o class_ids_by_name(ctx, ctx.rows[i].bases[k])

parent_classes(ctx, i) ==
    FlattenSeq([k \in DOMAIN ctx.rows[i].bases |-> Queued(ctx, i, k)])

\* The rows of a class and of its bases.
Ancestors(ctx, n) ==
    Closure(Range(class_ids_by_name(ctx, n)),
            [i \in DOMAIN ctx.rows |-> Range(parent_classes(ctx, i))])

is_subclass_of(ctx, child, parent) ==
    \/ child = parent
    \/ \E i \in Ancestors(ctx, child) :
          \/ i \in Range(class_ids_by_name(ctx, parent))
          \/ parent \in Range(ctx.rows[i].bases)

\* NoType for no accessor: code outside any class.
is_member_accessible(ctx, owner, how, access) ==
    \/ access = "public"
    \/ how.accessor = owner
    \/ how.accessor # NoType /\ access = "impl"
    \/ /\ how.accessor # NoType /\ access = "protected"
       /\ how.subclass \/ is_subclass_of(ctx, how.accessor, owner)

\* What is listed of a member.
Items == [label : Labels, owner : Names, type : Names \union {"void", NoType}]

AccessibleMembers(ctx, row, how) ==
    {m \in row.members : /\ how.impl \/ m.access # "impl"
                         /\ is_member_accessible(ctx, row.name, how, m.access)}

\* append_members_for_class: accessible members of one row that are not listed yet.
Appended(ctx, row, how, items) ==
    items \o Cut(SetToSeq({[label |-> m.label, owner |-> row.name, type |-> m.type] :
                               m \in AccessibleMembers(ctx, row, how)} \ Range(items)),
                 MaxPerClass)

\* What fetch_members_recursive keeps: rows to visit, rows and names met, items.
Collecting(ids) == [queue : Seq(ids), visited : SUBSET ids, names : SUBSET Names, items : Seq(Items)]

\* One turn of its loop: a base whose name was met is skipped.
Collect(ctx, s, how) ==
    LET i == Head(s.queue)
        bases == ctx.rows[i].bases
        Met(k) == s.names \union {ctx.rows[i].name} \union {bases[j] : j \in 1..(k - 1)}
        more == [k \in DOMAIN bases |-> IF bases[k] \in Met(k) THEN << >> ELSE Queued(ctx, i, k)]
    IN  IF i \in s.visited THEN [s EXCEPT !.queue = Tail(@)]
        ELSE [queue |-> Tail(s.queue) \o FlattenSeq(more), visited |-> s.visited \union {i},
              names |-> Met(Len(bases) + 1), items |-> Appended(ctx, ctx.rows[i], how, s.items)]

fetch_members_recursive(ctx, n, how) ==
    LET states == Collecting(DOMAIN ctx.rows)
    IN  Loop([queue |-> class_ids_by_name(ctx, n), visited |-> {}, names |-> {}, items |-> << >>],
             {s \in states : s.queue = << >> \/ Len(s.items) >= MaxItems},
             [s \in states |-> Collect(ctx, s, how)]).items

\* How members are asked for: by which class, as a subclass of the owner or not,
\* with out-of-class implementations or not.
How(accessor, subclass, impl) == [accessor |-> accessor, subclass |-> subclass, impl |-> impl]

\* merge_completion_items: the first item of a label wins, and a full list takes none.
Merged(target, item) ==
    IF Len(target) >= MaxItems \/ \E i \in DOMAIN target : target[i].label = item.label
    THEN target ELSE Append(target, item)

merge_completion_items(target, extra) ==
    LET merged[i \in 0..Len(extra)] == IF i = 0 THEN target ELSE Merged(merged[i - 1], extra[i])
    IN  merged[Len(extra)]

\* What collect_engine_member_roots keeps: names to visit, names met, roots.
Rooting == [queue : Seq(Names), visited : SUBSET Names, roots : Seq(Names)]

\* One turn of its loop: along the project's rows and the buffer's classes, names that
\* the Engine has. The class asked for is one only if the project does not have it.
Root(p, e, s, root, buffer) ==
    LET n == Head(s.queue)
        ids == class_ids_by_name(p, n)
        isRoot == /\ class_ids_by_name(e, n) # << >>
                  /\ n = root => ids = << >>
        parents == FlattenSeq([k \in DOMAIN ids |-> p.rows[ids[k]].bases])
    IN  IF n \in s.visited THEN [s EXCEPT !.queue = Tail(@)]
        ELSE [queue |-> Tail(s.queue) \o parents \o buffer[n], visited |-> s.visited \union {n},
              roots |-> IF isRoot THEN Append(s.roots, n) ELSE s.roots]

RootsFrom(p, e, n, buffer) ==
    Loop([queue |-> <<n>>, visited |-> {}, roots |-> << >>], {s \in Rooting : s.queue = << >>},
         [s \in Rooting |-> Root(p, e, s, n, buffer)]).roots

\* Faulty variant: only classes that the project does not have.
collect_missing_roots(p, e, n, buffer) ==
    KeepIn(RootsFrom(p, e, n, buffer), {r \in Names : class_ids_by_name(p, r) = << >>})

collect_engine_member_roots(p, e, n, buffer) == RootsFrom(p, e, n, buffer)

\* Members of n in the project, of its bases in the buffer, of the Engine's roots,
\* each with whether access as a subclass is assumed.
MemberLists(p, e, n, accessor, buffer) ==
    LET roots == collect_engine_member_roots(p, e, n, buffer)
    IN  <<fetch_members_recursive(p, n, How(accessor, FALSE, FALSE))>>
        \o [k \in DOMAIN buffer[n] |->
               fetch_members_recursive(p, buffer[n][k], How(accessor, TRUE, FALSE))]
        \o [k \in DOMAIN roots |-> fetch_members_recursive(e, roots[k], How(accessor, roots[k] # n, TRUE))]

MergedLists(lists) ==
    LET all[k \in 1..Len(lists)] ==
            IF k = 1 THEN lists[1] ELSE merge_completion_items(all[k - 1], lists[k])
    IN  all[Len(lists)]

fetch_members_with_engine(p, e, n, accessor, buffer) ==
    MergedLists(MemberLists(p, e, n, accessor, buffer))

\* direct_parent_class: the first base of the first row that has one, else the buffer's.
direct_parent_class(p, n, buffer) ==
    LET ids == class_ids_by_name(p, n)
        bases == FlattenSeq([k \in DOMAIN ids |-> p.rows[ids[k]].bases]) \o buffer[n]
    IN  IF bases = << >> THEN NoType ELSE Head(bases)

\* Super:: in a class: members of its first base, which the Engine may have alone.
fetch_super_members_with_engine(p, e, n, buffer) ==
    LET parent == direct_parent_class(p, n, buffer)
    IN  IF parent = NoType THEN << >> ELSE fetch_members_with_engine(p, e, parent, n, buffer)

\* The row's member of that name: one with a type first, void before none.
MemberType(row, label) ==
    LET types == {m.type : m \in {m \in row.members : m.label = label}}
        named == types \ {"void", NoType}
    IN  IF named # {} THEN CHOOSE t \in named : TRUE
        ELSE IF "void" \in types THEN "void" ELSE NoType

\* Faulty variant: the walk ends at the first row that has the member, typed or not.
EndsAtMember(row, label) == \E m \in row.members : m.label = label

EndsAt(row, label) == MemberType(row, label) # NoType

\* The first row with a type for the member.
find_member_return_type(ctx, n, label) ==
    LET i == FirstVisited(class_ids_by_name(ctx, n),
                          [i \in DOMAIN ctx.rows |-> parent_classes(ctx, i)],
                          {i \in DOMAIN ctx.rows : EndsAt(ctx.rows[i], label)})
    IN  IF i = 0 THEN NoType ELSE MemberType(ctx.rows[i], label)

\* find_member_return_type_with_engine
TypeWithEngine(p, e, n, label, buffer) ==
    LET roots == collect_engine_member_roots(p, e, n, buffer)
    IN  FirstBut(NoType, <<find_member_return_type(p, n, label)>>
                  \o [k \in DOMAIN buffer[n] |-> find_member_return_type(p, buffer[n][k], label)]
                  \o [k \in DOMAIN roots |-> find_member_return_type(e, roots[k], label)])

-----------------------------------------------------------------------------
\* Properties
CONSTANTS Buffers,   \* functions from class names to the bases the open buffer gives
          Accessors  \* classes whose code asks, NoType for code of no class

ASSUME MembersAssumption ==
    /\ MaxItems \in Nat /\ MaxPerClass \in Nat
    /\ Buffers \subseteq [Names -> Seq(Names)] /\ Accessors \subseteq Names \union {NoType}

\* Every member that the list gives a type can be followed: what is typed after it,
\* "n.label.", finds a type. The list and the search are two walks with two ways of
\* skipping what was met.
ChainResolves == Filled =>
    \A f \in SourceFiles, n \in Names, a \in Accessors, b \in Buffers :
        LET p == ProjectContext(f)
            items == fetch_members_with_engine(p, EngineContext, n, a, b)
        IN  \A i \in DOMAIN items :
               items[i].type # NoType
                  => TypeWithEngine(p, EngineContext, n, items[i].label, b) # NoType

\* Names reached from ns by the bases of the classes that a context finds for a name.
BasesOf(ctx, n) == UNION {Range(ctx.rows[i].bases) : i \in Range(class_ids_by_name(ctx, n))}
NamesAbove(ctx, ns) == Closure(ns, [n \in Names |-> BasesOf(ctx, n)])

PublicLabels(ctx, ns) ==
    UNION {UNION {{m.label : m \in {m \in ctx.rows[i].members : m.access = "public"}}
                  : i \in Range(class_ids_by_name(ctx, n))} : n \in ns}

\* What is public and inherited is offered, wherever the chain of names crosses from
\* the project's index or the buffer into the Engine's, unless a list is full or a
\* class has more members than are listed of one; the Engine's class of a name that
\* the project has is hidden from the class itself.
InheritedIsOffered == Filled =>
    \A f \in SourceFiles, n \in Names, a \in Accessors, b \in Buffers :
        LET p == ProjectContext(f)
            lists == MemberLists(p, EngineContext, n, a, b)
            items == MergedLists(lists)
            above == NamesAbove(p, {n} \union Range(b[n]))
            hidden == IF class_ids_by_name(p, n) = << >> THEN {} ELSE {n}
        IN  /\ \A list \in Range(lists) \union {items} : Len(list) < MaxItems
            /\ \A db \in {rows, engine} : \A i \in DOMAIN db : Cardinality(db[i].members) <= MaxPerClass
            => PublicLabels(p, above)
                  \union PublicLabels(EngineContext, NamesAbove(EngineContext, above \ hidden))
               \subseteq {items[i].label : i \in DOMAIN items}
=============================================================================
