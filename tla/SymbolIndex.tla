---------------------------- MODULE SymbolIndex ----------------------------
(***************************************************************************)
(* The classes, members and inheritance rows that the queries read         *)
(* (db/mod.rs, parser/cpp.rs): how saving the files of a project one after *)
(* the other, by a refresh or by the watcher, leaves them. IndexDb has the *)
(* transactions of a refresh; here a file is saved whole and its content   *)
(* is kept.                                                                *)
(*                                                                         *)
(* A row's id is its place in the sequence. A file that is saved again     *)
(* loses its rows where foreign keys are enforced (a refresh deletes       *)
(* before it saves), and leaves them behind, without a file, where they    *)
(* are not (save_to_db called by the watcher).                             *)
(***************************************************************************)
EXTENDS Naturals, FiniteSets, Sequences, SequencesExt, Lists

CONSTANTS Names,         \* class names
          Labels,        \* member names
          SourceFiles,   \* files of the project
          Contents,      \* file -> the sequences of classes it may hold
          EngineIndexes, \* the indexes the Engine database may hold
          MaxRows,       \* bounds the rows, orphans included
          NoType

VARIABLES rows,   \* classes and what hangs on them, in the order of their ids
          engine  \* the same of the Engine database, which no query writes

index == <<rows, engine>>

\* Some index has a class.
Filled == rows # << >> \/ engine # << >>

Accesses == {"public", "protected", "private", "impl"}
MemberRecords == [label : Labels, access : Accesses, type : Names \union {"void", NoType}]

\* A class as the parser returns it: of a declaration, or made up for the
\* implementations found in a source (find_or_create_impl_class: line 1, no base).
Class(name, line, bases, members) ==
    [name |-> name, line |-> line, bases |-> bases, members |-> members]
ImplClass(name, members) == Class(name, 1, << >>, members)

\* What the parser returns of a file, in its order.
Parsed ==
    Seq([name : Names, line : Nat, bases : Seq(Names),
         members : {s \in SUBSET MemberRecords : IsFiniteSet(s)}])

Of(db, f) == {i \in DOMAIN db : db[i].live /\ db[i].file = f}

Row(f, c) ==
    [name |-> c.name, file |-> f, live |-> TRUE, line |-> c.line, bases |-> c.bases,
     links |-> [k \in DOMAIN c.bases |-> 0], members |-> c.members]

ClassRows == [name : Names, file : SourceFiles, live : BOOLEAN, line : Nat,
              bases : Seq(Names), links : Seq(Nat), members : SUBSET MemberRecords]

\* Rows as the database keeps them: a link that is set names a row of the base's name.
Consistent(db) ==
    /\ db \in Seq(ClassRows)
    /\ \A i \in DOMAIN db :
          /\ IsFiniteSet(db[i].members)
          /\ DOMAIN db[i].links = DOMAIN db[i].bases
          /\ \A k \in DOMAIN db[i].links : LET link == db[i].links[k] IN
                link # 0 => link \in DOMAIN db /\ db[link].name = db[i].bases[k]

\* The Engine's database is written by refreshes alone.
ASSUME SymbolAssumption ==
    /\ IsFiniteSet(Names) /\ NoType \notin Names
    /\ Contents \in [SourceFiles -> SUBSET Parsed]
    /\ \A db \in EngineIndexes : Consistent(db) /\ \A i \in DOMAIN db : db[i].live

\* ON DELETE CASCADE of the classes of f and ON DELETE SET NULL of links to them.
CascadeRows(db, f) ==
    LET kept == KeepIn([i \in DOMAIN db |-> i], DOMAIN db \ Of(db, f))
        Now(id) == CHOOSE j \in DOMAIN kept : kept[j] = id
        Link(id) == IF id \in Range(kept) THEN Now(id) ELSE 0
    IN  [i \in DOMAIN kept |->
            [db[kept[i]] EXCEPT !.links = [k \in DOMAIN @ |-> Link(@[k])]]]

\* Without foreign keys the files row goes and its classes stay.
Orphan(db, f) ==
    [i \in DOMAIN db |-> IF i \in Of(db, f) THEN [db[i] EXCEPT !.live = FALSE] ELSE db[i]]

\* SELECT c.id FROM classes c WHERE c.name_id = .. LIMIT 1
AnyId(db, n) ==
    LET named == {i \in DOMAIN db : db[i].name = n}
    IN  IF named = {} THEN 0 ELSE CHOOSE i \in named : \A j \in named : i <= j

\* resolve_inheritance: links that are NULL, and only those.
Resolved(db) ==
    [i \in DOMAIN db |->
        [db[i] EXCEPT !.links = [k \in DOMAIN @ |->
            IF @[k] # 0 THEN @[k] ELSE AnyId(db, db[i].bases[k])]]]

Saved(db, f, content) ==
    Resolved(db \o [i \in DOMAIN content |-> Row(f, content[i])])

IndexInit == rows = << >> /\ engine \in EngineIndexes

\* A refresh parses f again, or finds it gone (an empty content).
RefreshFile(f, content) == rows' = Saved(CascadeRows(rows, f), f, content)

\* The watcher saves f.
SaveFile(f, content) == rows' = Saved(Orphan(rows, f), f, content)

IndexNext ==
    /\ \E f \in SourceFiles : \E content \in Contents[f] :
          RefreshFile(f, content) \/ SaveFile(f, content)
    /\ Len(rows') <= MaxRows
    /\ UNCHANGED engine
=============================================================================
