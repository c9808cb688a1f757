---------------------------- MODULE MCSessions ----------------------------
(* Sessions for TLC: browsers, documents and requests are interchangeable. *)
EXTENDS Sessions, TLC

Symmetry == Permutations(Devices) \cup Permutations(Ids) \cup Permutations(Requests)
=============================================================================
