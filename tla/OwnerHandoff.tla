---------------------------- MODULE OwnerHandoff ----------------------------
(***************************************************************************)
(* How a module passes from its previous supervisor to the Hub and back:   *)
(* the marker and the state file of scripts/owner_handoff.py, the lease    *)
(* that an Agent's LifecycleController takes with them, and the commands   *)
(* that it then carries out.                                               *)
(*                                                                         *)
(* The tool and the Agents share files and no lock: each looks at a file,  *)
(* goes on, and writes.  Agents are processes that may meet (the Hub and   *)
(* its predecessor use one lease); the operator and launchd start and stop *)
(* them and the previous supervisor.                                       *)
(***************************************************************************)
EXTENDS Naturals, FiniteSets

CONSTANTS
    Agents,       \* processes with a LifecycleController for the module
    Generations,  \* what an operator may give as --generation
    MaxMarkers,   \* bound: how many markers the tool writes
    MaxStarts,    \* bound: how often an Agent starts
    MaxFaults     \* bound: how often a file cannot be written or removed

ASSUME HandoffAssumption ==
    /\ Generations \subseteq Nat \ {0}
    /\ {MaxMarkers, MaxStarts, MaxFaults} \subseteq Nat
    /\ "nobody" \notin Agents

VARIABLES
    state,     \* <lock_path>.state.json
    marker,    \* the handoff marker
    lock,      \* who has the QLockFile
    receipts,  \* the owner_leases that the tool has printed
    old,       \* does the previous supervisor run
    service,   \* are the Hub's own units loaded
    late,      \* launchctl calls nobody waits for, and what they will do
    at,        \* where the controller of each Agent is
    config,    \* the owner_lease of its configuration
    recovered, \* recoveredGeneration
    markers, starts, faults,   \* bounds
    revoked,   \* history: generations that were invalidated, as far as the state tells
    spent,     \* history: tokens whose marker has been consumed
    torn,      \* history: generations in whose activation an Agent died
    erased     \* history: has a failed activation removed the state last written

files == <<state, marker>>
world == <<old, service, late>>
agents == <<at, config, recovered>>
bounds == <<markers, starts, faults>>
history == <<revoked, spent, torn, erased>>
vars == <<files, lock, receipts, world, agents, bounds, history>>

-----------------------------------------------------------------------------
\* A marker and its receipt have a token in common, of which the Agent's
\* configuration keeps the hash.
Lease == [gen : Generations, token : 1 .. MaxMarkers]
NoLease == [gen |-> 0, token |-> 0]
NoMarker == [gen |-> 0, token |-> 0, fresh |-> FALSE]
NoState == [gen |-> 0, active |-> FALSE]

\* The Agent has the lease, and may carry out commands under it.
Mutating(a) == at[a] \in {"starting", "stopping"}
Holding(a) == at[a] \in {"held", "preflight"} \/ Mutating(a)

NobodyRuns == \A a \in Agents : at[a] = "down"

Goes(a, place) == at' = [at EXCEPT ![a] = place]

Init ==
    /\ state = NoState /\ marker = NoMarker /\ lock = "nobody" /\ receipts = {}
    /\ old = TRUE /\ service = FALSE /\ late = {}
    /\ at = [a \in Agents |-> "down"]
    /\ config = [a \in Agents |-> NoLease]
    /\ recovered = [a \in Agents |-> FALSE]
    /\ markers = 0 /\ starts = 0 /\ faults = 0
    /\ revoked = {} /\ spent = {} /\ torn = {} /\ erased = FALSE

-----------------------------------------------------------------------------
(* owner_handoff.py.  The operator runs it while no Agent that owns the      *)
(* module does, as the runbook orders.                                       *)

\* _validate_generation_against_state.
MayFollow(g) == state = NoState \/ (~state.active /\ g > state.gen)

\* _validate_existing_marker_for_replacement, with --replace-expired-marker.
MayReplace(g) == marker = NoMarker \/ (~marker.fresh /\ marker.gen <= g)

\* command_prepare_marker, after the operator has said previous_owner_stopped,
\* which nothing checks.  When the receipt cannot be written the marker stays.
PrepareMarker(g) ==
    /\ NobodyRuns /\ markers < MaxMarkers
    /\ MayFollow(g) /\ MayReplace(g)
    /\ markers' = markers + 1
    /\ marker' = [gen |-> g, token |-> markers', fresh |-> TRUE]
    /\ receipts' \in {receipts, receipts \union {[gen |-> g, token |-> markers']}}
    /\ UNCHANGED <<state, lock, world, agents, starts, faults, history>>

\* command_invalidate_state, after confirm_owner_stopped: the units are unloaded
\* and the Agents have been quit.
InvalidateState ==
    /\ NobodyRuns /\ ~service /\ late = {}
    /\ state.active
    /\ state' = [state EXCEPT !.active = FALSE]
    /\ revoked' = revoked \union {state.gen}
    /\ UNCHANGED <<marker, lock, receipts, world, agents, bounds, spent, torn, erased>>

\* The marker's fifteen minutes are over.
Expire ==
    /\ marker.fresh
    /\ marker' = [marker EXCEPT !.fresh = FALSE]
    /\ UNCHANGED <<state, lock, receipts, world, agents, bounds, history>>

-----------------------------------------------------------------------------
(* LifecycleController::acquireOwnerLease, which runs when an Agent starts. *)

Start(a) ==
    /\ at[a] = "down" /\ starts < MaxStarts
    /\ \E lease \in receipts : config' = [config EXCEPT ![a] = lease]
    /\ starts' = starts + 1
    /\ Goes(a, "reading")
    /\ UNCHANGED <<files, lock, receipts, world, recovered, markers, faults, history>>

\* Mutants: active, or the generation, is not compared.
RecoversInactive(a) == state.gen = config[a].gen
RecoversAny(a) == state.active

\* A state of this owner and generation that is active stands for the marker.
Recovers(a) == state.active /\ state.gen = config[a].gen

ReadState(a) ==
    /\ at[a] = "reading"
    /\ recovered' = [recovered EXCEPT ![a] = Recovers(a)]
    /\ Goes(a, IF Recovers(a) THEN "checking" ELSE "validating")
    /\ UNCHANGED <<files, lock, receipts, world, config, bounds, history>>

\* markerValid.
Valid(a) ==
    /\ marker.fresh
    /\ marker.gen = config[a].gen /\ marker.token = config[a].token

ReadMarker(a) ==
    /\ at[a] = "validating"
    /\ Goes(a, IF Valid(a) THEN "checking" ELSE "off")
    /\ UNCHANGED <<files, lock, receipts, world, config, recovered, bounds, history>>

\* legacySupervisorAbsent: what cannot be found out counts as present.
Absent == {FALSE} \union {~old}

CheckOld(a) ==
    /\ at[a] = "checking"
    /\ \E absent \in Absent : Goes(a, IF absent THEN "locking" ELSE "off")
    /\ UNCHANGED <<files, lock, receipts, world, config, recovered, bounds, history>>

TryLock(a) ==
    /\ at[a] = "locking"
    /\ IF lock = "nobody"
       THEN lock' = a /\ Goes(a, IF recovered[a] THEN "held" ELSE "writing")
       ELSE lock' = lock /\ Goes(a, "off")
    /\ UNCHANGED <<files, receipts, world, config, recovered, bounds, history>>

\* The state is committed before the marker is removed.
WriteState(a) ==
    /\ at[a] = "writing"
    /\ state' = [gen |-> config[a].gen, active |-> TRUE]
    /\ erased' = FALSE
    /\ Goes(a, "removing")
    /\ UNCHANGED <<marker, lock, receipts, world, config, recovered, bounds, revoked, spent, torn>>

\* Mutant: the result of QFile::remove is not looked at.
RemoveWhatIsThere(a) ==
    /\ at[a] = "removing"
    /\ marker' = NoMarker
    /\ spent' = spent \union {config[a].token}
    /\ Goes(a, "held")
    /\ UNCHANGED <<state, lock, receipts, world, config, recovered, bounds, revoked, torn, erased>>

RemoveMarker(a) ==
    /\ at[a] = "removing"
    /\ marker # NoMarker
    /\ marker' = NoMarker
    /\ spent' = spent \union {config[a].token}
    /\ Goes(a, "held")
    /\ UNCHANGED <<state, lock, receipts, world, config, recovered, bounds, revoked, torn, erased>>

\* The state cannot be written, or the marker is gone or cannot be removed: the
\* lock is released first and the state file removed then, whoever wrote it.
FailActivation(a) ==
    /\ \/ at[a] \in {"writing", "removing"} /\ faults < MaxFaults /\ faults' = faults + 1
       \/ at[a] = "removing" /\ marker = NoMarker /\ faults' = faults
    /\ lock' = "nobody"
    /\ Goes(a, "cleaning")
    /\ UNCHANGED <<files, receipts, world, config, recovered, markers, starts, history>>

EraseState(a) ==
    /\ at[a] = "cleaning"
    /\ state' = NoState
    /\ erased' = TRUE /\ revoked' = {}
    /\ Goes(a, "off")
    /\ UNCHANGED <<marker, lock, receipts, world, config, recovered, bounds, spent, torn>>

-----------------------------------------------------------------------------
(* LifecycleController's commands.                                          *)

\* A recheck that fails releases the lease, until the Agent starts again.
LoseLease(a) == lock' = "nobody" /\ Goes(a, "off")

\* execute.
Execute(a) ==
    /\ at[a] = "held"
    /\ \E absent \in Absent :
         IF absent THEN Goes(a, "preflight") /\ lock' = lock ELSE LoseLease(a)
    /\ UNCHANGED <<files, receipts, world, config, recovered, bounds, history>>

\* Mutant: no second look at the previous supervisor.
ContinueUnchecked(a) ==
    /\ at[a] = "preflight"
    /\ \E place \in {"starting", "stopping", "held"} : Goes(a, place)
    /\ UNCHANGED <<files, lock, receipts, world, config, recovered, bounds, history>>

\* continueAfterPreflight and beginMutationAfterPreflight; the deadline or the
\* identity of the units may also end the command here.
ContinueAfterPreflight(a) ==
    /\ at[a] = "preflight"
    /\ \/ Goes(a, "held") /\ lock' = lock
       \/ \E absent \in Absent :
            IF absent THEN lock' = lock /\ \E does \in {"starting", "stopping"} : Goes(a, does)
            ELSE LoseLease(a)
    /\ UNCHANGED <<files, receipts, world, config, recovered, bounds, history>>

\* startStep's launchctl does its work, or fails.
Effect(a) ==
    /\ Mutating(a)
    /\ service' \in {service, at[a] = "starting"}
    /\ Goes(a, "held")
    /\ UNCHANGED <<files, lock, receipts, old, late, config, recovered, bounds, history>>

\* The command's deadline: launchctl is told to end, perhaps too late.
Deadline(a) ==
    /\ Mutating(a)
    /\ late' = late \union {at[a]}
    /\ Goes(a, "held")
    /\ UNCHANGED <<files, lock, receipts, old, service, config, recovered, bounds, history>>

\* LifecycleController::stop, or the death of the process.  A lock of a dead
\* process is nobody's.
Leave(a) ==
    /\ at[a] # "down"
    /\ Goes(a, "down")
    /\ lock' = IF lock = a THEN "nobody" ELSE lock
    /\ late' = IF Mutating(a) THEN late \union {at[a]} ELSE late
    /\ torn' = IF at[a] \in {"removing", "cleaning"} THEN torn \union {config[a].gen} ELSE torn
    /\ UNCHANGED <<files, receipts, old, service, config, recovered, bounds, revoked, spent, erased>>

-----------------------------------------------------------------------------
(* launchd, and the people who stop and start the previous supervisor.      *)

LateEffect ==
    \E does \in late :
        /\ late' = late \ {does}
        /\ service' \in {service, does = "starting"}
        /\ UNCHANGED <<files, lock, receipts, old, agents, bounds, history>>

StopOld ==
    /\ old /\ old' = FALSE
    /\ UNCHANGED <<files, lock, receipts, service, late, agents, bounds, history>>

\* The previous supervisor comes back, by hand or at a login.  The runbook has
\* the Hub's units unloaded first; that it does not come back between the last
\* look at it and the end of launchctl is an assumption, as no code rules it out.
StartOld ==
    /\ ~old /\ ~service /\ late = {} /\ \A a \in Agents : ~Mutating(a)
    /\ old' = TRUE
    /\ UNCHANGED <<files, lock, receipts, service, late, agents, bounds, history>>

Acquire(a) ==
    \/ Start(a) \/ ReadState(a) \/ ReadMarker(a) \/ CheckOld(a) \/ TryLock(a)
    \/ WriteState(a) \/ RemoveMarker(a) \/ FailActivation(a) \/ EraseState(a)

Act(a) ==
    Execute(a) \/ ContinueAfterPreflight(a) \/ Effect(a) \/ Deadline(a) \/ Leave(a)

Next ==
    \/ \E g \in Generations : PrepareMarker(g)
    \/ InvalidateState \/ Expire
    \/ \E a \in Agents : Acquire(a) \/ Act(a)
    \/ LateEffect \/ StopOld \/ StartOld

Spec == Init /\ [][Next]_vars

-----------------------------------------------------------------------------
(* Properties.                                                              *)

Places ==
    {"down", "off", "reading", "validating", "checking", "locking", "writing",
     "removing", "cleaning", "held", "preflight", "starting", "stopping"}

\* Every variable stays in its domain.
TypeOK ==
    /\ state \in [gen : Generations \union {0}, active : BOOLEAN]
    /\ marker \in [gen : Generations \union {0}, token : 0 .. MaxMarkers, fresh : BOOLEAN]
    /\ lock \in Agents \union {"nobody"}
    /\ receipts \subseteq Lease
    /\ old \in BOOLEAN /\ service \in BOOLEAN /\ late \subseteq {"starting", "stopping"}
    /\ at \in [Agents -> Places]
    /\ config \in [Agents -> Lease \union {NoLease}]
    /\ recovered \in [Agents -> BOOLEAN]
    /\ markers \in 0 .. MaxMarkers /\ starts \in 0 .. MaxStarts /\ faults \in 0 .. MaxFaults
    /\ revoked \subseteq Generations /\ torn \subseteq Generations
    /\ spent \subseteq 1 .. MaxMarkers
    /\ erased \in BOOLEAN

\* The previous supervisor and the Hub's own units never run side by side, though
\* the supervisor may come back while an Agent holds the lease, and launchctl may
\* act after the Agent that called it has given up or died (owner_handoff.py and
\* legacySupervisorAbsent are there for nothing else).
NoDoubleOwner == ~(old /\ service)

\* An Agent that holds the lease finds, should it die, an active state of its own
\* generation to recover by, and needs no new marker: also when another Agent
\* reads and waits beside it, on what it has read earlier.  Exempt is a state file
\* that a failed activation has removed since it was last written.
HolderCanRecover ==
    \A a \in Agents :
        Holding(a) => erased \/ state = [gen |-> config[a].gen, active |-> TRUE]

\* A generation that was invalidated is not held again, by whatever receipt an
\* Agent is configured with.  Exempt is a generation whose Agent died after it
\* had written the state, as its marker stays valid until it expires.
RevokedStaysRevoked ==
    \A a \in Agents :
        Holding(a) => config[a].gen \in torn \/ config[a].gen \notin revoked

\* A marker is consumed once: of two Agents that have both found it valid, the
\* second one does not get the lease with it.
MarkerUsedOnce ==
    [][\A a \in Agents :
          at[a] = "removing" /\ at'[a] = "held" => config[a].token \notin spent]_vars
=============================================================================
