--------------------------- MODULE MCOwnerHandoff ---------------------------
(* Two Agents and two generations; the Agents are alike. *)
EXTENDS OwnerHandoff, TLC

Interchangeable == Permutations(Agents)
=============================================================================
