---------------------------- MODULE MCModuleDeps ----------------------------
(* Modules that depend on up to two modules, or on one of the Engine,      *)
(* which is not discovered with them.                                      *)
EXTENDS ModuleDeps, SequencesExt

CONSTANTS M1, M2, M3, M4

MCModuleDefs ==
    [name : {M1, M2, M3},
     deps : {<<M4>>} \union {s \in BoundedSeq({M1, M2, M3}, 2) : IsInjective(s)}]
MCSymmetry == Permutations({M1, M2, M3})
=============================================================================
