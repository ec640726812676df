---------------------------- MODULE ConfigMerge ----------------------------
(***************************************************************************)
(* Merging the ini lines of one key, in the order of the config stack      *)
(* (apply_op as resolve_platform calls it, query/config.rs): the JSON      *)
(* value of the key so far and one line with its operator make the next    *)
(* value. A value is null, a string or an array of strings; a record holds *)
(* its shape and its strings. Each line is also kept in the key's history  *)
(* with the value it left.                                                 *)
(***************************************************************************)
EXTENDS Naturals, Sequences, SequencesExt

CONSTANTS Values,    \* strings assigned to the key
          MaxLines   \* bound on the lines of the stack for one key

ASSUME MergeAssumption == MaxLines \in Nat

VARIABLES value,     \* entry.0: the merged value
          lines      \* entry.1: the lines applied and the value each left

mergeVars == <<value, lines>>

Null == [shape |-> "null", items |-> << >>]
String(v) == [shape |-> "string", items |-> <<v>>]
Array(s) == [shape |-> "array", items |-> s]

Ops == {"Set", "Add", "Remove", "Clear"}
Lists == BoundedSeq(Values, MaxLines) \ {<< >>}

\* The values a key can have: an array that loses its last element becomes null,
\* so that "[]" is never shown for a key.
Json == {Null} \union {String(v) : v \in Values} \union {Array(s) : s \in Lists}

\* Faulty variant: only the first occurrence is removed.
RetainFirst(s, v) ==
    LET at == SelectInSeq(s, LAMBDA w : w = v)
    IN  IF at = 0 THEN s ELSE RemoveAt(s, at)

\* values.retain(|value| value != new_value)
Retain(s, v) ==
    LET kept[n \in 0..Len(s)] ==
            IF n = 0 THEN << >> ELSE IF s[n] = v THEN kept[n - 1] ELSE Append(kept[n - 1], s[n])
    IN  kept[Len(s)]

ArrayOrNull(s) == IF s = << >> THEN Null ELSE Array(s)

\* Faulty variant: adding to a string replaces it.
AddedFresh(current, v) ==
    IF current.shape = "array" THEN Array(Append(current.items, v)) ELSE Array(<<v>>)

Added(current, v) == Array(Append(current.items, v))

Removed(current, v) ==
    CASE current.shape = "array" -> ArrayOrNull(Retain(current.items, v))
      [] current = String(v)     -> Null
      [] OTHER                   -> current

apply_op(current, op, v) ==
    CASE op = "Clear"  -> Null
      [] op = "Set"    -> String(v)
      [] op = "Remove" -> Removed(current, v)
      [] op = "Add"    -> Added(current, v)

MergeInit == value = Null /\ lines = << >>

\* One item of a parsed file is merged.
Line(op, v) ==
    /\ Len(lines) < MaxLines
    /\ value' = apply_op(value, op, v)
    /\ lines' = Append(lines, [op |-> op, value |-> v, left |-> value'])

MergeNext == \E op \in Ops, v \in Values : Line(op, v)

MergeSpec == MergeInit /\ [][MergeNext]_mergeVars

-----------------------------------------------------------------------------
\* Properties

MergeTypeOK ==
    /\ value \in Json
    /\ lines \in Seq([op : Ops, value : Values, left : Json])

ValueList == INSTANCE ConfigList WITH list <- value.items

\* Line i put a value in that no later line took out.
Survives(i) ==
    /\ lines[i].op \in {"Set", "Add"}
    /\ \A j \in (i + 1)..Len(lines) :
          /\ lines[j].op \notin {"Set", "Clear"}
          /\ lines[j].op = "Remove" => lines[j].value # lines[i].value

(* The merged value lists exactly the values that some line set or added and no
   later line replaced, cleared or removed, in the order of the stack: a
   definition from the whole stack of what apply_op computes line by line. *)
MergedIsWhatSurvives ==
    ValueList!Picks(value.items, [i \in DOMAIN lines |-> lines[i].value],
                    {i \in DOMAIN lines : Survives(i)})

(* Whatever shape the JSON value has, its strings follow the list semantics of
   the ini operators. *)
ImplementsConfigList == ValueList!Spec
=============================================================================
