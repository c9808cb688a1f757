-------------------------------- MODULE Cases --------------------------------
(***************************************************************************)
(* What the modules of the pure rules share: a case is one input of one    *)
(* rule, picked by an action of the rule's own; the rule's invariant says  *)
(* what its result must be.                                                *)
(***************************************************************************)
EXTENDS Absent

VARIABLE case

\* No input is picked; the next one is of this area.
NoCase(area) == [area |-> "none", next |-> area]
Again == case.area # "none" /\ case' = NoCase(case.area)
=============================================================================
