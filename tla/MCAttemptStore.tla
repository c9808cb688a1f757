--------------------------- MODULE MCAttemptStore ---------------------------
(***************************************************************************)
(* Small instances of AttemptStore for TLC.                                *)
(***************************************************************************)
EXTENDS AttemptStore, TLC

\* q1 is in the first section; every other question is in the last one.
MCSectionOf == [q \in Questions |-> IF q = CHOOSE x \in Questions : TRUE THEN 0 ELSE LastSection]

MCSymmetry == Permutations(Requests)
=============================================================================
