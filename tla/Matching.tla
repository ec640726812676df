------------------------------ MODULE Matching ------------------------------
(***************************************************************************)
(* How well a name matches what was typed (completion.rs): names are split *)
(* into words at underscores and where a capital follows a small letter,   *)
(* and completion_match_rank takes the first of several ways to match;     *)
(* names of types come from the index by LIKE patterns first, each with a  *)
(* limit.                                                                  *)
(*                                                                         *)
(* A name is a sequence of characters: a letter with its case, or "_".     *)
(***************************************************************************)
EXTENDS Naturals, FiniteSets, Sequences, SequencesExt, Lists

CONSTANTS Letters,
          MaxName,     \* longest name
          MaxTyped,    \* longest text typed
          MaxNames,    \* most names of an index
          MaxLetters,  \* most characters of all of them
          MATCH_NONE,  \* usize::MAX: above every rank
          StrongLimit, \* 80: most rows that begin with what was typed
          WeakLimit,   \* 200: most rows by the other pattern
          MaxGlobal    \* 80: most items

VARIABLE typeNames  \* of the rows of classes, in the order of the queries

\* No match of a name ranks as high as MATCH_NONE: the last ranks are places in it, from
\* 100 on, and ten times the number of a word and of words skipped, from 20 on.
ASSUME MatchingAssumption ==
    /\ "_" \notin Letters /\ MaxName \in Nat \ {0} /\ MaxTyped \in Nat
    /\ MATCH_NONE \in Nat /\ MATCH_NONE > 100 + 11 * MaxName

ASSUME LimitsAssumption ==
    /\ StrongLimit \in Nat /\ WeakLimit \in Nat /\ MaxGlobal \in Nat
    /\ StrongLimit <= MaxGlobal

Underscore == <<"_", "none">>
Characters == (Letters \X {"lower", "upper"}) \union {Underscore}
Typed == BoundedSeq(Characters, MaxTyped)

Lower(s) == [i \in DOMAIN s |-> s[i][1]]
compact_identifier(s) == KeepIn(Lower(s), Letters)
Joined(words, start) == FlattenSeq(SubSeq(words, start, Len(words)))

\* A capital begins a word only behind a small letter.
Split(w, c) ==
    IF c = Underscore THEN [words |-> w.words, new |-> TRUE, small |-> FALSE]
    ELSE IF w.new \/ (c[2] = "upper" /\ w.small)
    THEN [words |-> Append(w.words, <<c[1]>>), new |-> FALSE, small |-> c[2] = "lower"]
    ELSE [words |-> [w.words EXCEPT ![Len(w.words)] = Append(@, c[1])], new |-> FALSE,
          small |-> c[2] = "lower"]

split_identifier_words(s) ==
    LET split[i \in 0..Len(s)] == IF i = 0 THEN [words |-> << >>, new |-> TRUE, small |-> FALSE]
                                  ELSE Split(split[i - 1], s[i])
    IN  split[Len(s)].words

\* Where p is in s for the first time, 0 if nowhere.
Find(p, s) ==
    LET at == {i \in DOMAIN s : IsPrefix(p, SubSeq(s, i, Len(s)))}
    IN  IF at = {} THEN 0 ELSE CHOOSE i \in at : \A j \in at : i <= j

has_multi_word_head_anchor(words, prefix_words) ==
    Len(prefix_words) < 2 \/ (words # << >> /\ IsPrefix(prefix_words[1], words[1]))

NextMatch(words, after, p) ==
    LET at == {i \in DOMAIN words : i > after /\ IsPrefix(p, words[i])}
    IN  IF at = {} THEN 0 ELSE CHOOSE i \in at : \A j \in at : i <= j

\* Faulty variant: the word found counts as one that was skipped.
MatchFromCounted(words, prefix_words, start) ==
    FoldLeft(LAMBDA m, p :
                IF m.at = 0 THEN m
                ELSE LET next == NextMatch(words, m.at, p)
                     IN  [at |-> next, gaps |-> IF next = 0 THEN 0 ELSE m.gaps + next - m.at],
             [at |-> start, gaps |-> 0], Tail(prefix_words))

\* The next word that begins with p, and how many were skipped up to it.
Advance(words, m, p) ==
    LET next == NextMatch(words, m.at, p)
    IN  IF m.at = 0 THEN m
        ELSE [at |-> next, gaps |-> IF next = 0 THEN 0 ELSE m.gaps + next - m.at - 1]

\* From the word at start on, each word typed takes the next word that begins with it.
MatchFrom(words, prefix_words, start) ==
    LET matched[k \in 1..Len(prefix_words)] ==
            IF k = 1 THEN [at |-> start, gaps |-> 0]
            ELSE Advance(words, matched[k - 1], prefix_words[k])
    IN  matched[Len(prefix_words)]

LeastOr(ranks) == IF ranks = {} THEN MATCH_NONE ELSE CHOOSE r \in ranks : \A q \in ranks : r <= q

ordered_word_match_rank(words, prefix_words) ==
    IF Len(prefix_words) < 2 THEN MATCH_NONE
    ELSE LeastOr({(start - 1) * 10 + MatchFrom(words, prefix_words, start).gaps :
                     start \in {s \in DOMAIN words : /\ IsPrefix(prefix_words[1], words[s])
                                                      /\ MatchFrom(words, prefix_words, s).at # 0}})

completion_match_rank(candidate, prefix) ==
    LET c == Lower(candidate)
        p == Lower(prefix)
        words == split_identifier_words(candidate)
        prefix_words == split_identifier_words(prefix)
        anchored == has_multi_word_head_anchor(words, prefix_words)
        inWord == {i \in DOMAIN words : IsPrefix(p, words[i])}
        inTail == {i \in DOMAIN words : IsPrefix(p, Joined(words, i))}
        ordered == ordered_word_match_rank(words, prefix_words)
        cc == compact_identifier(candidate)
        cp == compact_identifier(prefix)
    IN  IF IsPrefix(p, c) THEN 0
        ELSE IF 1 \in inTail THEN 1
        ELSE IF inWord # {} THEN 1 + LeastOr(inWord)
        ELSE IF anchored /\ inTail # {} THEN 9 + LeastOr(inTail)
        ELSE IF anchored /\ ordered # MATCH_NONE THEN 20 + ordered
        ELSE IF ~anchored THEN MATCH_NONE
        ELSE IF Find(p, c) # 0 THEN 39 + Find(p, c)
        ELSE IF cp = << >> THEN MATCH_NONE
        ELSE IF IsPrefix(cp, cc) THEN 80
        ELSE IF Find(cp, cc) # 0 THEN 99 + Find(cp, cc)
        ELSE MATCH_NONE

Matches(candidate, prefix) == completion_match_rank(candidate, prefix) # MATCH_NONE

\* The patterns for the database: what a name begins with, or has anywhere.
Pattern(text, anywhere, limit) == [text |-> text, anywhere |-> anywhere, limit |-> limit]
global_search_patterns(prefix) ==
    LET words == split_identifier_words(prefix)
        strong == Pattern(Lower(prefix), FALSE, StrongLimit)
        weak == IF Len(words) >= 2 THEN Pattern(words[1], FALSE, WeakLimit)
                ELSE Pattern(Lower(prefix), TRUE, WeakLimit)
    IN  IF prefix = << >> THEN << >> ELSE <<strong, weak>>

\* What LIKE finds; "_" is its wildcard.
Like(p, s) == Len(p) <= Len(s) /\ \A i \in DOMAIN p : p[i] \in {"_", s[i]}
IsLike(candidate, pattern) ==
    LET c == Lower(candidate)
    IN  IF pattern.anywhere THEN \E i \in DOMAIN c : Like(pattern.text, SubSeq(c, i, Len(c)))
        ELSE Like(pattern.text, c)
RowsLike(pattern) == KeepIn(typeNames, {n \in Range(typeNames) : IsLike(n, pattern)})

\* The names listed for what was typed: those of each pattern's rows that match, once.
append_global_type_items(prefix) ==
    LET patterns == global_search_patterns(prefix)
        matching == {n \in Range(typeNames) : Matches(n, prefix)}
        found == [i \in DOMAIN patterns |-> KeepIn(Cut(RowsLike(patterns[i]), patterns[i].limit), matching)]
    IN  Cut(PushEach(<< >>, FlattenSeq(found)), MaxGlobal)

NamesInit == typeNames = << >>
AddName == Len(typeNames) < MaxNames /\ \E c \in Characters : typeNames' = Append(typeNames, <<c>>)
AddCharacter ==
    /\ typeNames # << >> /\ Len(Last(typeNames)) < MaxName
    /\ \E c \in Characters : typeNames' = [typeNames EXCEPT ![Len(typeNames)] = Append(@, c)]
NamesNext == Len(FlattenSeq(typeNames)) < MaxLetters /\ (AddName \/ AddCharacter)
MatchingSpec == NamesInit /\ [][NamesNext]_typeNames

-----------------------------------------------------------------------------
\* Properties

\* Every way to lay the words typed on words of the name, in their order.
Layouts(words, prefix_words) ==
    {at \in [DOMAIN prefix_words -> DOMAIN words] :
        /\ \A i \in DOMAIN prefix_words : IsPrefix(prefix_words[i], words[at[i]])
        /\ \A i, j \in DOMAIN prefix_words : i < j => at[i] < at[j]}
Rank(at, n) == (at[1] - 1) * 10 + at[n] - at[1] - (n - 1)

\* The rows of each pattern and the names that match are no more than may be returned.
WithinLimits(prefix) ==
    /\ \A pattern \in Range(global_search_patterns(prefix)) : Len(RowsLike(pattern)) <= pattern.limit
    /\ Cardinality({n \in Range(typeNames) : Matches(n, prefix)}) <= MaxGlobal

\* Ranking is what it is meant to be: taking for each word typed the next word that
\* begins with it gives the best of all ways to lay them on the name; a name that
\* matches goes on matching when the last character typed is deleted, as long as a
\* letter is left, although other ways to match are tried then. The list of types has
\* every name that begins with what was typed, if no more rows do than the first
\* pattern may return, however many the other one finds; and, if no limit is exceeded,
\* every name without underscores that matches in the words' order or contains what
\* was typed (their ranks begin at 20, which with 19 words or more those of names with a
\* word that begins with it reach, too). Names behind a limit, the last in the order of
\* their text and not of how well they match, are the exception.
MatchingIsSound ==
    \A prefix \in Typed \ {<< >>} :
        LET prefix_words == split_identifier_words(prefix)
            n == Len(prefix_words)
            listed == Range(append_global_type_items(prefix))
        IN  \A name \in Range(typeNames) :
                LET words == split_identifier_words(name)
                    rank == completion_match_rank(name, prefix)
                IN  /\ n >= 2 => ordered_word_match_rank(words, prefix_words)
                                    = LeastOr({Rank(at, n) : at \in Layouts(words, prefix_words)})
                    /\ compact_identifier(Front(prefix)) # << >> /\ rank # MATCH_NONE
                          => Matches(name, Front(prefix))
                    /\ rank = 0 /\ Len(RowsLike(global_search_patterns(prefix)[1])) <= StrongLimit
                          => name \in listed
                    /\ rank \in 20..79 /\ Len(words) < 19 /\ Underscore \notin Range(name)
                          => (WithinLimits(prefix) => name \in listed)
=============================================================================
