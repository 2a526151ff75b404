---------------------------- MODULE MCProcessing ----------------------------
(* Small instances of Processing for TLC. *)
EXTENDS Processing, TLC

\* Tasks and skills are interchangeable.
Symmetry == Permutations(Tasks) \cup Permutations(Skills)
=============================================================================
