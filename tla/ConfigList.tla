----------------------------- MODULE ConfigList -----------------------------
(***************************************************************************)
(* What the operators of an Unreal ini line mean for a key: the key holds  *)
(* a list of values; "=" replaces it, "+" appends to it, "-" removes every *)
(* occurrence of a value, "!" empties it.                                  *)
(***************************************************************************)
EXTENDS Naturals, Sequences

CONSTANT Values

VARIABLE list

\* t is what s has at the places kept, in the order of s.
Picks(t, s, kept) ==
    \E at \in [DOMAIN t -> DOMAIN s] :
        /\ \A i, j \in DOMAIN t : i < j => at[i] < at[j]
        /\ kept = {at[i] : i \in DOMAIN t}
        /\ \A i \in DOMAIN t : t[i] = s[at[i]]

Init == list = << >>

Set(v) == list' = <<v>>
Add(v) == list' = Append(list, v)
Remove(v) ==
    /\ list' \in Seq(Values)
    /\ Picks(list', list, {i \in DOMAIN list : list[i] # v})
Clear == list' = << >>

Next == Clear \/ \E v \in Values : Set(v) \/ Add(v) \/ Remove(v)

Spec == Init /\ [][Next]_list
=============================================================================
