------------------------------- MODULE Usages -------------------------------
(***************************************************************************)
(* References to a symbol (query/usage.rs): which files are searched, which*)
(* occurrences in their text count, and how results are returned: at once, *)
(* in batches to a streaming request, and together with the Engine's       *)
(* (find_references_with_engine of handlers.rs).                           *)
(*                                                                         *)
(* The symbol is fixed. A line of text is what the search sees in it: a    *)
(* class C of which it has "C::" and a parenthesis, braces, the class it   *)
(* declares the symbol in (what the index has of the line), whether it     *)
(* calls the symbol, and the occurrences of the symbol. The scope is what  *)
(* resolve_usage_scope makes of the cursor: nothing, lines of a function,  *)
(* or the class the member is of and the class around the cursor.          *)
(***************************************************************************)
EXTENDS Naturals, Integers, FiniteSets, Sequences, SequencesExt, Lists

CONSTANTS Paths,          \* the files of the index, in the order of ids and of paths
          Classes,
          NoClass,
          NoCurrent,
          Lines,          \* the lines that files are made of
          ResolvedIncludes,       \* pairs of files, a file and one that it includes
          EngineUsages,   \* what the Engine's index has for the symbol
          MaxTotal,       \* bounds the lines of all files
          MAX_RESULTS,    \* 300
          MAX_FILES,      \* 2000
          STREAM_BATCH    \* 15

VARIABLE text  \* of the files

TextFiles == Range(Paths)
NoScope == [kind |-> "unresolved"]
LocalScope(a, b) == [kind |-> "local", start_line |-> a, end_line |-> b]
MemberScope(owner, context) == [kind |-> "member", owner |-> owner, context |-> context]
candidate_classes(scope) == {scope.owner, scope.context} \ {NoClass}

\* What is seen of a line, and of an occurrence.
Uses == [op : {"none", "::", "var"}, class : Classes \union {NoClass}, code : BOOLEAN]
LineShape ==
    [head : Classes \union {NoClass}, open : Nat, close : Nat, decl : Classes \union {NoClass},
     call : BOOLEAN, uses : Seq(Uses)]

\* Lines have the shape of lines, every file has one place in the order of paths, and the
\* limits are numbers; an empty batch is never sent.
ASSUME UsagesAssumption ==
    /\ Paths \in Seq(TextFiles) /\ IsInjective(Paths) /\ NoCurrent \notin TextFiles /\ NoClass \notin Classes
    /\ Lines \subseteq LineShape
    /\ EngineUsages \in Seq(Range(EngineUsages))
    /\ MAX_RESULTS \in Nat /\ MAX_FILES \in Nat /\ STREAM_BATCH \in Nat \ {0}

InOrder(files) == KeepIn(Paths, files)

-----------------------------------------------------------------------------
\* Candidate files.

find_member_definition_file_ids(owner) ==
    {f \in TextFiles : \E k \in DOMAIN text[f] : text[f][k].decl = owner}
find_symbol_definition_file_ids == UNION {find_member_definition_file_ids(c) : c \in Classes}
find_symbol_call_file_ids == {f \in TextFiles : \E k \in DOMAIN text[f] : text[f][k].call}
find_including_file_ids(files) == {p[1] : p \in {p \in ResolvedIncludes : p[2] \in files}}

Candidates(seeds, current) == seeds \union find_including_file_ids(seeds) \union ({current} \ {NoCurrent})

collect_unresolved_candidate_files(current) ==
    LET found == Candidates(find_symbol_definition_file_ids \union find_symbol_call_file_ids, current)
    IN  Cut(InOrder(IF found = {} THEN TextFiles ELSE found), MAX_FILES)

collect_candidate_files(current, scope) ==
    CASE scope.kind = "local" -> IF current = NoCurrent THEN << >> ELSE <<current>>
      [] scope.kind = "member" ->
            Cut(InOrder(Candidates(find_member_definition_file_ids(scope.owner), current)), MAX_FILES)
      [] OTHER -> collect_unresolved_candidate_files(current)

-----------------------------------------------------------------------------
\* Method bodies of some classes, recognised line by line.

NoRange == [pending |-> 0, active |-> 0, depth |-> 0, ranges |-> {}]

\* Faulty variant: a body ends with the first closing brace.
ScanFlat(s, k, line, classes) ==
    LET pending == IF s.active = 0 /\ s.pending = 0 /\ line.head \in classes THEN k ELSE s.pending
        begins == s.active = 0 /\ pending # 0 /\ line.open > 0
        active == IF begins THEN pending ELSE s.active
        ends == active # 0 /\ line.close > 0
    IN  [pending |-> IF begins THEN 0 ELSE pending, active |-> IF ends THEN 0 ELSE active,
         depth |-> 0, ranges |-> s.ranges \union (IF ends THEN {active..k} ELSE {})]

\* A line with "C::" and a parenthesis announces a body, which begins with the next
\* brace and ends where braces balance.
Scan(s, k, line, classes) ==
    LET pending == IF s.active = 0 /\ s.pending = 0 /\ line.head \in classes THEN k ELSE s.pending
        begins == s.active = 0 /\ pending # 0 /\ line.open > 0
        active == IF begins THEN pending ELSE s.active
        depth == (IF begins THEN 0 ELSE s.depth) + line.open - line.close
        ends == active # 0 /\ depth <= 0 /\ line.close > 0
    IN  [pending |-> IF begins THEN 0 ELSE pending, active |-> IF ends THEN 0 ELSE active,
         depth |-> IF ends \/ active = 0 THEN 0 ELSE depth,
         ranges |-> s.ranges \union (IF ends THEN {active..k} ELSE {})]

collect_method_ranges(content, classes) ==
    LET scanned[k \in 0..Len(content)] ==
            IF k = 0 THEN NoRange ELSE Scan(scanned[k - 1], k, content[k], classes)
        last == scanned[Len(content)]
    IN  last.ranges \union (IF last.active = 0 THEN {} ELSE {last.active..Len(content)})

InBody(content, k, classes) == \E r \in collect_method_ranges(content, classes) : k \in r

\* Qualified by a class, by this, by a variable of an inferred class, or not at all.
should_emit_match(content, k, use, scope) ==
    IF scope.kind # "member" THEN TRUE
    ELSE CASE use.op \in {"::", "var"} -> use.class \in candidate_classes(scope)
           [] OTHER -> InBody(content, k, candidate_classes(scope))

Counts(content, k, use, scope) ==
    /\ use.code
    /\ scope.kind = "local" => scope.start_line <= k /\ k <= scope.end_line
    /\ should_emit_match(content, k, use, scope)

\* The occurrences in a line and in a file, in the order of the text.
MatchesAt(f, k, scope) ==
    LET uses == text[f][k].uses
        columns == KeepIn([c \in DOMAIN uses |-> c],
                          {c \in DOMAIN uses : Counts(text[f], k, uses[c], scope)})
    IN  [i \in DOMAIN columns |-> [path |-> f, line |-> k, col |-> columns[i]]]
MatchesIn(f, scope) == FlattenSeq([k \in DOMAIN text[f] |-> MatchesAt(f, k, scope)])

search_in_file(f, remaining, scope) == Cut(MatchesIn(f, scope), remaining)

-----------------------------------------------------------------------------
\* Results.



\* The first occurrence in the nine lines from k on, in a comment too.
find_symbol_location_near(f, k) ==
    LET near == {j \in DOMAIN text[f] : j \in k..(k + 8) /\ text[f][j].uses # << >>}
    IN  IF near = {} THEN [path |-> f, line |-> k, col |-> 0]
        ELSE [path |-> f, line |-> CHOOSE j \in near : \A i \in near : j <= i, col |-> 1]

\* Declarations by line, those of one line by file.
get_member_declaration_results(owner) ==
    LET longest == Max({0} \union {Len(text[f]) : f \in TextFiles})
        declaring(k) == {f \in TextFiles : k \in DOMAIN text[f] /\ text[f][k].decl = owner}
        At(k) == LET files == InOrder(declaring(k))
                 IN  [i \in DOMAIN files |-> find_symbol_location_near(files[i], k)]
    IN  PushEach(<< >>, FlattenSeq([k \in 1..longest |-> At(k)]))

\* An occurrence that was listed as a declaration counts against the limit of its file.
find_symbol_usages(current, scope) ==
    LET files == collect_candidate_files(current, scope)
        found[i \in 0..Len(files)] ==
            IF i = 0
            THEN IF scope.kind = "member" THEN get_member_declaration_results(scope.owner) ELSE << >>
            ELSE LET results == found[i - 1]
                 IN  IF Len(results) >= MAX_RESULTS THEN results
                     ELSE PushEach(results, search_in_file(files[i], MAX_RESULTS - Len(results), scope))
    IN  found[Len(files)]

\* Faulty variant: the last batch is sent only if it is full.
BatchesUnflushed(items) ==
    [b \in 1..(Len(items) \div STREAM_BATCH) |->
        SubSeq(items, (b - 1) * STREAM_BATCH + 1, b * STREAM_BATCH)]

\* A batch is sent when it is full, what is left at the end.
Batches(items) ==
    [b \in 1..((Len(items) + STREAM_BATCH - 1) \div STREAM_BATCH) |->
        Cut(SubSeq(items, (b - 1) * STREAM_BATCH + 1, Len(items)), STREAM_BATCH)]

\* Streaming ignores the cursor and what was found before.
find_symbol_usages_async(current) ==
    LET files == collect_candidate_files(current, NoScope)
        items[i \in 0..Len(files)] ==
            IF i = 0 THEN << >>
            ELSE LET sent == items[i - 1]
                 IN  sent \o search_in_file(files[i], MAX_RESULTS - Len(sent), NoScope)
    IN  Batches(items[Len(files)])

\* The Engine's usages follow where the cursor's scope is unknown; two of one line are
\* one to merge_query_results.
find_references_with_engine(current, scope) ==
    LET own == find_symbol_usages(current, scope)
        Merged(items, u) ==
            IF Len(items) >= MAX_RESULTS \/ \E i \in DOMAIN items : items[i].path = u.path /\ items[i].line = u.line
            THEN items ELSE Append(items, u)
        merged[i \in 0..Len(EngineUsages)] ==
            IF i = 0 THEN own ELSE Merged(merged[i - 1], EngineUsages[i])
    IN  IF scope.kind # "unresolved" THEN own ELSE merged[Len(EngineUsages)]

UsagesInit == text = [f \in TextFiles |-> << >>]

\* Texts of every shape: files grow by a line.
AddLine ==
    \E f \in TextFiles, line \in Lines :
        /\ Len(FlattenSeq([i \in DOMAIN Paths |-> text[Paths[i]]])) < MaxTotal
        /\ text' = [text EXCEPT ![f] = Append(@, line)]

-----------------------------------------------------------------------------
\* Properties

CONSTANTS Currents,      \* files of the cursor, NoCurrent for one that the index lacks
          MemberScopes

\* The member under the cursor is one of a class.
ASSUME CursorAssumption ==
    MemberScopes \subseteq {MemberScope(owner, context) : owner \in Classes, context \in Classes \union {NoClass}}

\* The streaming request and the one that returns everything are two loops with limits
\* of their own: the batches put together are the whole answer without a scope, no
\* batch is empty or too large, and the answer has as many usages as there are in the
\* files searched, up to the limit. With the Engine's it still begins with them, and
\* has no usage twice.
StreamedIsWhatIsReturned ==
    \A current \in Currents :
        LET whole == find_symbol_usages(current, NoScope)
            batches == find_symbol_usages_async(current)
            searched == collect_candidate_files(current, NoScope)
            all == FlattenSeq([i \in DOMAIN searched |-> MatchesIn(searched[i], NoScope)])
            merged == find_references_with_engine(current, NoScope)
        IN  /\ FlattenSeq(batches) = whole
            /\ \A b \in DOMAIN batches : Len(batches[b]) \in 1..STREAM_BATCH
            /\ whole = Cut(all, MAX_RESULTS)
            /\ IsPrefix(whole, merged) /\ IsInjective(merged) /\ Len(merged) <= MAX_RESULTS

\* The class whose method line k is in, by braces counted from the top of the file.
DepthBefore(content, k) ==
    LET depth[j \in 0..Len(content)] ==
            IF j = 0 THEN 0 ELSE depth[j - 1] + content[j].open - content[j].close
    IN  depth[k - 1]
MethodOf(content, k) ==
    LET heads == {j \in 1..k : /\ content[j].head # NoClass /\ content[j].open > 0
                               /\ DepthBefore(content, j) = 0
                               /\ \A i \in (j + 1)..k : DepthBefore(content, i) > 0}
    IN  IF heads = {} THEN NoClass ELSE content[CHOOSE j \in heads : TRUE].head

\* A file of methods: braces balance, and a head at the top opens its body.
WellFormed(content) ==
    \A k \in DOMAIN content :
        /\ DepthBefore(content, k) >= 0 /\ (content[k].close > 0 => DepthBefore(content, k) > 0)
        /\ content[k].head # NoClass => (content[k].open > 0) = (DepthBefore(content, k) = 0)

\* Usages of a member: in a file that is searched, every unqualified one in a method of
\* the member's class or of the class around the cursor is found, whatever the bodies
\* and calls around it, until the limit is met, against which the declarations may count
\* twice; one found in another class's method is preceded by a call of one of the two
\* classes (which is taken for the head of a body). And a scope only narrows: what is
\* no declaration is a match of a file that is searched without it, unless the index
\* has more than MAX_FILES files and the candidates without a scope, which are more, are
\* cut at others.
MemberUsagesFound ==
    \A scope \in MemberScopes, current \in Currents :
        LET found == Range(find_symbol_usages(current, scope))
            searched == Range(collect_candidate_files(current, scope))
            Unqualified(f) ==
                {u \in UNION {{k} \X DOMAIN text[f][k].uses : k \in DOMAIN text[f]} :
                    LET use == text[f][u[1]].uses[u[2]] IN use.code /\ use.op = "none"}
            Calls(f, k) == \E j \in 1..k : text[f][j].head \in candidate_classes(scope)
                                            /\ text[f][j].open = 0
            declared == Range(get_member_declaration_results(scope.owner))
        IN  /\ \A f \in searched : WellFormed(text[f]) =>
                  \A u \in Unqualified(f) :
                     LET here == [path |-> f, line |-> u[1], col |-> u[2]]
                         inside == MethodOf(text[f], u[1]) \in candidate_classes(scope)
                     IN  /\ inside => here \in found \/ Cardinality(found) + Cardinality(declared) >= MAX_RESULTS
                         /\ here \in found \ declared => inside \/ Calls(f, u[1])
            /\ Cardinality(TextFiles) <= MAX_FILES =>
                  found \ declared \subseteq
                     UNION {Range(MatchesIn(f, NoScope)) : f \in Range(collect_candidate_files(current, NoScope))}
=============================================================================
