----------------------------- MODULE MCIndexDb -----------------------------
(* A header, a source deriving from it, and a file that is only listed. *)
EXTENDS IndexDb

CONSTANTS base, derived, other

MCParentOf == [f \in {base, derived} |-> IF f = derived THEN base ELSE NoFile]
MCNoParent == [f \in {base} |-> NoFile]
=============================================================================
