--------------------------- MODULE MCPublishing ---------------------------
(* Publishing for TLC: questions and students are interchangeable. *)
EXTENDS Publishing, TLC

Symmetry == Permutations(Ids) \cup Permutations(Students)
=============================================================================
