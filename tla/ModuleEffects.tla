--------------------------- MODULE ModuleEffects ---------------------------
(***************************************************************************)
(* What the control plane promises about the effects of commands, without  *)
(* saying how: a change is carried out at most once, never while another   *)
(* change of its module may still be under way, and an operator reconciles *)
(* only what has ended or what a dead process left behind.                 *)
(***************************************************************************)

CONSTANTS
    Commands,  \* the changes that may be submitted
    ModuleOf   \* the module a change is addressed to

VARIABLES
    effect,     \* what became of the change
    reconciled  \* changes an operator has reconciled

vars == <<effect, reconciled>>

\* Still under way, or left behind by a dead process and not yet reconciled.
Threatens(d) ==
    \/ effect[d] = "inflight"
    \/ effect[d] = "orphaned" /\ d \notin reconciled

Alone(c) ==
    \A d \in Commands \ {c} : ModuleOf[d] = ModuleOf[c] => ~Threatens(d)

Init ==
    /\ effect = [c \in Commands |-> "idle"]
    /\ reconciled = {}

\* A change takes effect, over time or at once.
Take(c) ==
    /\ effect[c] = "idle"
    /\ Alone(c)
    /\ \E outcome \in {"inflight", "done"} :
           effect' = [effect EXCEPT ![c] = outcome]
    /\ UNCHANGED reconciled

End(c) ==
    /\ effect[c] \in {"inflight", "orphaned"}
    /\ effect' = [effect EXCEPT ![c] = "done"]
    /\ UNCHANGED reconciled

\* The process dies.
Orphan ==
    /\ effect' = [c \in Commands |->
         IF effect[c] = "inflight" THEN "orphaned" ELSE effect[c]]
    /\ UNCHANGED reconciled

\* An operator reconciles changes; a later uncertain result may reopen one.
Reconcile ==
    /\ reconciled' \in SUBSET Commands
    /\ \A c \in reconciled' \ reconciled : effect[c] # "inflight"
    /\ UNCHANGED effect

Next == Orphan \/ Reconcile \/ \E c \in Commands : Take(c) \/ End(c)

Spec == Init /\ [][Next]_vars
=============================================================================
