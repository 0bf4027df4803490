---------------------------- MODULE MCAuditSpool ----------------------------
(***************************************************************************)
(* Instances of AuditSpool for TLC.                                        *)
(***************************************************************************)
EXTENDS AuditSpool, TLC

CONSTANTS e1, e2

TwoEvents == {e1, e2}

\* Events differ only in their names.
EventSymmetry == Permutations(Events)
=============================================================================
