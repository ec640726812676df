------------------------------- MODULE Search -------------------------------
(***************************************************************************)
(* Searching by name with pages (query/search.rs) over the project's index *)
(* and the Engine's (handlers.rs): SearchSymbols, FastFind and GlobalFind  *)
(* put together stages (symbols, files, lines of text) that each have a    *)
(* limit of their own, and take a page of limit items after offset ones.   *)
(*                                                                         *)
(* The matches of one pattern are given in the order of their rank, their  *)
(* names and then their paths; those that only their paths tell apart have *)
(* one NameRank. A file that is parsed again adds rows to symbols_fts and  *)
(* removes none. FastFind takes as many rows as its limit by rank and name *)
(* alone; only then joins drop those of classes that are gone, and what is *)
(* left is sorted by path, too.                                            *)
(***************************************************************************)
EXTENDS Naturals, FiniteSets, Sequences, SequencesExt, Lists

CONSTANTS Symbols,      \* the symbols that match, best first
          NameRank,     \* symbol -> its place by rank and name
          FoundFiles,   \* the files that match, best first
          Texts,        \* the lines that match, by path
          EngineFound,  \* what the Engine's index has for the pattern
          Identities,   \* functions from symbols to type, path, line and name
          Limits,       \* page sizes asked for
          StageCap,     \* limit of one stage: 500
          MaxFts,       \* bounds the rows of symbols_fts
          MaxPages      \* bounds the pages asked for

VARIABLES fts,       \* rows of symbols_fts: a symbol, and whether its class is there
          identity,  \* of the symbols
          request,   \* which search, and its limit
          pages      \* the pages answered, the offset growing by the limit

\* A match is found once, a symbol is no file and no line of text, and a page is not empty.
ASSUME SearchAssumption ==
    /\ Symbols \in Seq(Range(Symbols)) /\ FoundFiles \in Seq(Range(FoundFiles)) /\ Texts \in Seq(Range(Texts))
    /\ EngineFound \in Seq(Range(EngineFound))
    /\ \A found \in {Symbols, FoundFiles, Texts} : IsInjective(found)
    /\ NameRank \in [Range(Symbols) -> Nat]
    /\ \A k, m \in DOMAIN Symbols : k < m => NameRank[Symbols[k]] <= NameRank[Symbols[m]]
    /\ Range(FoundFiles) \intersect Range(Texts) = {}
    /\ \A f \in Identities : /\ DOMAIN f = Range(Symbols)
                             /\ (Range(Symbols) \union Range(f)) \intersect (Range(FoundFiles) \union Range(Texts)) = {}
    /\ Limits \subseteq Nat \ {0} /\ StageCap \in Nat

searchVars == <<fts, identity, request, pages>>

Kinds == {"symbols", "fast", "global"}

After(s, n) == SubSeq(s, n + 1, Len(s))
Capped(n) == IF n < StageCap THEN n ELSE StageCap

Identity(item) == IF item \in DOMAIN identity THEN identity[item] ELSE item

\* retain with a set of what was seen.
dedupe_find_results(items) ==
    LET Seen(s, x) == \E i \in DOMAIN s : Identity(s[i]) = Identity(x)
        kept[i \in 0..Len(items)] ==
            IF i = 0 THEN << >>
            ELSE IF Seen(kept[i - 1], items[i]) THEN kept[i - 1] ELSE Append(kept[i - 1], items[i])
    IN  kept[Len(items)]

Live == KeepIn(Symbols, {s \in Range(Symbols) : [symbol |-> s, live |-> TRUE] \in Range(fts)})

\* The limit counts rows that are joined.
search_symbols(limit, offset) == Cut(After(Live, offset), limit)

\* Rows by rank and name, those of one rank and name the oldest first.
RankedBefore(i, j) ==
    \/ NameRank[fts[i].symbol] < NameRank[fts[j].symbol]
    \/ NameRank[fts[i].symbol] = NameRank[fts[j].symbol] /\ i < j

\* The limit counts the rows of symbols_fts.
RankedRows(n) == {j \in DOMAIN fts : Cardinality({i \in DOMAIN fts : RankedBefore(i, j)}) < n}

fast_find_symbols(limit) ==
    LET matched == {i \in RankedRows(Capped(limit)) : fts[i].live}
    IN  KeepIn(Symbols, {fts[i].symbol : i \in matched})

search_files_for_global(limit) == Cut(FoundFiles, Capped(limit))
search_text_for_global(limit) == Cut(Texts, Capped(limit))

\* Faulty variant: the stages are asked for one page, wherever it begins.
StagesOfOnePage(kind, limit, target) ==
    (IF kind = "fast" THEN fast_find_symbols(limit) ELSE search_symbols(limit, 0))
        \o search_files_for_global(limit)

\* Symbols and files, each up to the end of the page.
Stages(kind, limit, target) ==
    (IF kind = "fast" THEN fast_find_symbols(target) ELSE search_symbols(target, 0))
        \o search_files_for_global(target)

fast_find(limit, offset) ==
    LET size == Capped(limit)
    IN  Cut(After(dedupe_find_results(Stages("fast", size, offset + size)), offset), size)

global_find(limit, offset) ==
    LET size == Capped(limit)
        target == offset + size
        staged == Stages("global", size, target)
        found == IF Len(staged) < target THEN staged \o search_text_for_global(target) ELSE staged
    IN  Cut(After(dedupe_find_results(found), offset), size)

Found(kind, limit, offset) ==
    CASE kind = "symbols" -> search_symbols(limit, offset)
      [] kind = "fast" -> fast_find(limit, offset)
      [] kind = "global" -> global_find(limit, offset)

Tagged(source, items) == [i \in DOMAIN items |-> [source |-> source, item |-> items[i]]]

\* The Engine is asked for what is left of the page, from its first result on. Its
\* items are of other paths than the project's, so that merging drops none.
WithEngine(kind, limit, offset) ==
    LET own == Found(kind, limit, offset)
        engine == IF Len(own) >= limit THEN << >>
                  ELSE Cut(EngineFound, IF kind = "symbols" THEN limit - Len(own)
                                          ELSE Capped(limit - Len(own)))
    IN  Cut(Tagged("project", own) \o Tagged("engine", engine), limit)

\* Files are parsed side by side and saved in any order.
SearchInit ==
    /\ \E saved \in [DOMAIN Symbols -> Range(Symbols)] :
          /\ IsInjective(saved)
          /\ fts = [i \in DOMAIN Symbols |-> [symbol |-> saved[i], live |-> TRUE]]
    /\ identity \in Identities
    /\ request \in [kind : Kinds, limit : Limits]
    /\ pages = << >>

\* The file of a symbol is parsed again and has it still, or not.
Reparse(s, kept) ==
    /\ pages = << >> /\ Len(fts) < MaxFts
    /\ LET gone == [i \in DOMAIN fts |-> IF fts[i].symbol = s THEN [fts[i] EXCEPT !.live = FALSE]
                                         ELSE fts[i]]
       IN  fts' = IF kept THEN Append(gone, [symbol |-> s, live |-> TRUE]) ELSE gone
    /\ UNCHANGED <<identity, request, pages>>

NextPage ==
    /\ Len(pages) < MaxPages
    /\ pages' = Append(pages, WithEngine(request.kind, request.limit, Len(pages) * request.limit))
    /\ UNCHANGED <<fts, identity, request>>

SearchNext ==
    \/ \E s \in Range(Symbols), kept \in BOOLEAN : Reparse(s, kept)
    \/ NextPage

-----------------------------------------------------------------------------
\* Properties

From(source, items) ==
    LET some == KeepIn(items, {x \in Range(items) : x.source = source})
    IN  [i \in DOMAIN some |-> some[i].item]

\* Everything a search can find, page after page.
Everything ==
    CASE request.kind = "symbols" -> Live
      [] request.kind = "fast" -> Cut(Live, StageCap) \o Cut(FoundFiles, StageCap)
      [] request.kind = "global" -> Live \o Cut(FoundFiles, StageCap) \o Cut(Texts, StageCap)

Distinct == \A s, t \in DOMAIN identity : identity[s] = identity[t] => s = t
NothingStale == \A i \in DOMAIN fts : fts[i].live

\* Rows of one rank and name lie in the order of their paths.
RowsByPath ==
    \A i, j \in DOMAIN fts : \A k, m \in DOMAIN Symbols :
        fts[i].symbol = Symbols[k] /\ fts[j].symbol = Symbols[m]
            /\ NameRank[Symbols[k]] = NameRank[Symbols[m]] /\ k < m => i < j

\* Pages of at most StageCap items, put one after the other, have every match of the
\* project once and in its order, although each page gathers its stages anew and the
\* limits of the stages cut them; and a page has an Engine result only if every match
\* of the project is on it or on an earlier one. It takes matches that are told apart,
\* and for FastFind an index without rows of classes that are gone, in which the rows of
\* one rank and name lie as their paths are sorted: otherwise a limit takes other
\* symbols of a name than the first ones, and a page has again what an earlier one had.
PagesAddUp ==
    request.limit <= StageCap /\ Distinct /\ (request.kind = "fast" => NothingStale /\ RowsByPath)
        => LET own == From("project", FlattenSeq(pages)) IN
           /\ IsPrefix(own, Everything)
           /\ pages # << >> /\ From("engine", pages[Len(pages)]) # << >> => own = Everything
=============================================================================
