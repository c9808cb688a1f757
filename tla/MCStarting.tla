----------------------------- MODULE MCStarting -----------------------------
(* Starting for TLC: requests, and the questions, are interchangeable. *)
EXTENDS Starting, TLC

Symmetry == Permutations(Requests) \cup Permutations(Questions)
=============================================================================
