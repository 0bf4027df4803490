--------------------------- MODULE MCHealthAlerts ---------------------------
(* Two sources, alike, and two of the reasons for which one may be broken. *)
EXTENDS HealthAlerts, TLC

Interchangeable == Permutations(Sources)
=============================================================================
