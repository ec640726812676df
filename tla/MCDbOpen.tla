------------------------------ MODULE MCDbOpen ------------------------------
(* Tasks and files are interchangeable. *)
EXTENDS DbOpen, TLC

MCSymmetry == Permutations(Tasks) \union Permutations(Inodes)
=============================================================================
