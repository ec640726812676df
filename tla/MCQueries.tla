----------------------------- MODULE MCQueries -----------------------------
(***************************************************************************)
(* The queries, each over inputs that grow step by step and share no       *)
(* variable: a behaviour is one of an index and its Engine, of the pages of*)
(* a search, of the text of files, of the open buffer, or of the modules of*)
(* a project.                                                              *)
(***************************************************************************)
EXTENDS Goto, Search, Usages, Locals, MCModuleDeps, TLC

CONSTANTS A, B, D, E, X,       \* classes; X is of no index
          m, k,                \* members
          headA, headB, source,
          file1, file2, symbol1, symbol2, symbol3, text1, engine1, engine2,
          T1, T2

VARIABLE part

-----------------------------------------------------------------------------
\* An index of two headers and a source: a chain of bases in two files, one of them
\* by a class of the Engine, implementations, a class in two files, a cycle.

Member(label, access, type) == [label |-> label, access |-> access, type |-> type]

MCContents ==
    headA :> {<< >>,
              <<Class(A, 2, <<B>>, {Member(m, "protected", NoType)})>>,
              <<Class(A, 2, <<B, E>>, {})>>}
    @@ headB :> {<< >>,
                 <<Class(B, 2, <<E>>, {Member(m, "public", B), Member(k, "private", "void")})>>,
                 <<Class(D, 3, << >>, {Member(k, "public", NoType)})>>}
    @@ source :> {<< >>,
                  <<ImplClass(A, {Member(m, "impl", NoType)})>>,
                  <<ImplClass(B, {Member(k, "impl", E)}), Class(E, 5, << >>, {Member(k, "public", A)})>>,
                  <<Class(E, 5, <<A>>, {Member(k, "public", A)})>>}

EngineRow(c, bases, members) == Row(headA, Class(c, 1, bases, members))
MCEngineIndexes ==
    {<< >>,
     <<EngineRow(E, << >>, {Member(m, "protected", B), Member(k, "public", "void")})>>,
     <<EngineRow(E, <<B>>, {Member(k, "impl", B)}), EngineRow(B, << >>, {Member(m, "public", E)})>>}

MCIncludes == {<<source, headA>>, <<headA, headB>>}
MCBuffers ==
    LET Bases(a, b) == [n \in Names |-> IF n = A THEN a ELSE IF n = B THEN b ELSE << >>]
    IN  {Bases(<< >>, << >>), Bases(<<B>>, <<E>>)}
MCAccessors == {A, NoType}

-----------------------------------------------------------------------------
\* A search with three results in each stage, two of which may be told apart or not; two
\* of the symbols have one name.

MCSymbols == <<symbol1, symbol2, symbol3>>
MCNameRank == [s \in Range(MCSymbols) |-> IF s = symbol1 THEN 1 ELSE 2]
MCFoundFiles == <<file1, file2, source>>
MCTexts == <<text1, headA, headB>>
MCEngineFound == <<engine1, engine2>>
Told == [s \in Range(MCSymbols) |-> s]
MCIdentities == {Told, [Told EXCEPT ![symbol2] = symbol1]}

-----------------------------------------------------------------------------
\* A header and a source of methods of A and of X, their calls and braces.

MCPaths == <<headA, source>>
MCCurrents == {source, NoCurrent}
MCMemberScopes == {MemberScope(A, NoClass), MemberScope(A, X), MemberScope(X, NoClass)}

Line(head, open, close, decl, call, uses) ==
    [head |-> head, open |-> open, close |-> close, decl |-> decl, call |-> call, uses |-> uses]
Use(op, class, code) == [op |-> op, class |-> class, code |-> code]
Head1(class, open) == Line(class, open, 0, NoClass, FALSE, << >>)
MCLines ==
    {Head1(A, 1), Head1(X, 1), Head1(A, 0), Head1(NoClass, 1),
     Line(NoClass, 0, 1, NoClass, FALSE, << >>),
     Line(NoClass, 0, 0, NoClass, TRUE, <<Use("none", NoClass, TRUE)>>),
     Line(NoClass, 0, 0, A, FALSE, <<Use("none", NoClass, TRUE), Use("var", X, TRUE)>>),
     Line(NoClass, 0, 0, X, FALSE, <<Use("none", NoClass, FALSE)>>)}
MCResolvedIncludes == {<<source, headA>>}
EngineUse(line, col) == [path |-> engine1, line |-> line, col |-> col]
MCEngineUsages == <<EngineUse(1, 1), EngineUse(1, 2), EngineUse(2, 1)>>

-----------------------------------------------------------------------------
\* A buffer of functions, lambdas, blocks, declarations of one name and assignments.

BufferRow(open, close, decl, init, assign, other) ==
    [open |-> open, close |-> close, decl |-> decl, init |-> init, assign |-> assign,
     other |-> other]
MCRows ==
    {BufferRow(open, FALSE, Untyped, Untyped, Untyped, Untyped) : open \in {"function", "lambda"}}
    \union {BufferRow("function", FALSE, T1, Untyped, Untyped, Untyped),
            BufferRow("lambda", TRUE, T2, Untyped, Untyped, AutoType),
            BufferRow("none", TRUE, Untyped, Untyped, Untyped, Untyped),
            BufferRow("none", FALSE, T2, T2, Untyped, Untyped),
            BufferRow("none", FALSE, AutoType, T1, Untyped, Untyped),
            BufferRow("block", FALSE, Untyped, Untyped, T2, Untyped),
            BufferRow("none", FALSE, Untyped, Untyped, Untyped, T1)}

-----------------------------------------------------------------------------
Parts == {"index", "search", "text", "buffer", "modules"}

\* A part that does not move keeps one of its initial states.
MCInit ==
    /\ part \in Parts
    /\ IndexInit /\ (part = "index" \/ engine = << >>)
    /\ SearchInit
    /\ part = "search" \/ (request = [kind |-> "fast", limit |-> 1] /\ identity = Told /\ RowsByPath
                          /\ fts[1].symbol = symbol1)
    /\ UsagesInit /\ BufferInit /\ ModulesInit

queryVars == <<index, searchVars, text, buffer, modules>>

MCNext ==
    /\ \/ /\ part = "index" /\ IndexNext
          /\ UNCHANGED <<searchVars, text, buffer, modules>>
       \/ /\ part = "search" /\ SearchNext
          /\ UNCHANGED <<index, text, buffer, modules>>
       \/ /\ part = "text" /\ AddLine
          /\ UNCHANGED <<index, searchVars, buffer, modules>>
       \/ /\ part = "buffer" /\ AddRow
          /\ UNCHANGED <<index, searchVars, text, modules>>
       \/ /\ part = "modules" /\ DiscoverModule
          /\ UNCHANGED <<index, searchVars, text, buffer>>
    /\ UNCHANGED part

MCSpec == MCInit /\ [][MCNext]_<<queryVars, part>>
=============================================================================
