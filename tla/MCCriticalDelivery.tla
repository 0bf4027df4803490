------------------------- MODULE MCCriticalDelivery -------------------------
(***************************************************************************)
(* Instances of CriticalDelivery for TLC.                                  *)
(***************************************************************************)
EXTENDS CriticalDelivery, TLC

CONSTANTS e1, e2

TwoEvents == {e1, e2}

\* Events differ only in their names.
EventSymmetry == Permutations(Events)
=============================================================================
