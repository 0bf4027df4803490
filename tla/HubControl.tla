----------------------------- MODULE HubControl -----------------------------
(***************************************************************************)
(* The control plane of the Machome hub: one Agent (HubAgent.cpp), the     *)
(* durable command ledger it owns (CommandJournal.cpp) and one worker      *)
(* thread per module (ModuleWorker.cpp, LifecycleController.cpp).          *)
(*                                                                         *)
(* A command is accepted by the Agent, written to the ledger, queued to    *)
(* the worker of its module, carried out there (at once, or by an engine   *)
(* or launchd that answer later or never), and its results travel back     *)
(* through a second queue to the Agent, which updates the ledger and the   *)
(* interlock of the module.  The process may die between any two steps;    *)
(* what the outside world was asked to do goes on.                         *)
(***************************************************************************)
EXTENDS Integers, Sequences

CONSTANTS
    Commands,    \* the command identifiers clients may submit
    Modules,     \* the enabled modules, one worker thread each
    ModuleOf,    \* the module a command is addressed to
    KindOf,      \* how the worker carries a command out, see Kinds
    None,        \* no command
    MaxCrashes,  \* bound: how often the process may die
    MaxFaults    \* bound: how many ledger or audit operations may fail

(***************************************************************************)
(* The ways ModuleWorker::submitCommand carries a command out:             *)
(*   native   a start, stop or restart of an in-process engine, at once    *)
(*   engine   a change an engine or client confirms later                  *)
(*   launchd  a change of a launchd service by LifecycleController         *)
(*   query    a read that answers later                                    *)
(*   observe  a premium detail (un)subscription, outside the serial gate   *)
(*   refresh  a read that is answered at once                              *)
(*   ack      acknowledge_uncertain, the operator's reconciliation         *)
(***************************************************************************)
Kinds == {"native", "engine", "launchd", "query", "observe", "refresh", "ack"}

ASSUME HubAssumption ==
    /\ ModuleOf \in [Commands -> Modules]
    /\ KindOf \in [Commands -> Kinds]
    /\ None \notin Commands
    /\ MaxCrashes \in Nat
    /\ MaxFaults \in Nat

VARIABLES
    row,             \* the ledger: one row per command (durable)
    world,           \* what became of the command's effect outside the Agent
    up,              \* the Agent process runs
    locked,          \* unresolvedModules_: modules under the interlock
    journalHealthy,  \* commandJournalHealthy_
    auditHealthy,    \* auditHealthy_
    moduleRevision,  \* moduleControlRevisions_, -1 when absent
    toWorker,        \* queued submitCommand calls, per module
    toAgent,         \* queued commandChanged / snapshotChanged signals
    controlRevision, \* controlRevision_ of each worker
    active,          \* activeCommandId_ of each worker
    executing,       \* commands LifecycleController is executing
    pending,         \* pendingCommands_ that a later answer can still settle
    unknown,         \* timedOutPending_
    armed,           \* pending commands whose deadline has not yet fired
    window,          \* commands inside pendingTransportQuiescenceUntilMs_
    crashes,
    faults

durable == <<row, world>>
agentVars == <<up, locked, journalHealthy, auditHealthy, moduleRevision>>
serial == <<controlRevision, active>>
work == <<executing, pending, unknown, armed, window>>
bounds == <<crashes, faults>>
vars == <<durable, agentVars, toWorker, toAgent, serial, work, bounds>>

-----------------------------------------------------------------------------
(* Commands, results and ledger rows.                                      *)

ReadOnly(c) == KindOf[c] \in {"query", "observe", "refresh"}
Mutation(c) == ~ReadOnly(c)
IsAck(c) == KindOf[c] = "ack"
Observe(c) == KindOf[c] = "observe"

\* The mutations that start something an interlock has to protect.
Changes(c) == Mutation(c) /\ ~IsAck(c)

Open == {"accepted", "running"}
Certain == {"succeeded", "failed"}
Terminal == Certain \union {"timed_out"}

Row == [state : {"absent"} \union Open \union Terminal,
        unresolved : BOOLEAN, resolved : BOOLEAN, revision : Int]

NoRow == [state |-> "absent", unresolved |-> FALSE, resolved |-> FALSE,
          revision |-> -1]

\* CommandJournal::reserve.
Reserved(state, revision) ==
    [state |-> state, unresolved |-> FALSE, resolved |-> FALSE,
     revision |-> revision]

Message == [cmd : Commands \union {None},
            state : {"snapshot"} \union Open \union Terminal,
            revision : Int]

\* uncertainResult, asked of mutations only.
Uncertain(msg) == Mutation(msg.cmd) /\ msg.state = "timed_out"

\* CommandJournal::updateResult.
Updated(r, msg) ==
    [state |-> msg.state, unresolved |-> Uncertain(msg),
     resolved |-> IF Uncertain(msg) THEN FALSE ELSE r.resolved,
     revision |-> msg.revision]

\* CommandJournal::hasUnresolved and ::resolveModule over a ledger.
UnresolvedIn(ledger, m) ==
    {c \in Commands : /\ ModuleOf[c] = m
                      /\ ledger[c].unresolved
                      /\ ~ledger[c].resolved}

ResolveModule(ledger, m) ==
    [c \in Commands |->
        IF c \in UnresolvedIn(ledger, m)
        THEN [ledger[c] EXCEPT !.resolved = TRUE] ELSE ledger[c]]

\* Mutant: what an earlier start already found unknown is forgotten.
InterlocksOfInterrupted(ledger) ==
    {m \in Modules : \E c \in UnresolvedIn(ledger, m) : row[c].state \in Open}

\* The interlocks a ledger calls for.
Interlocks(ledger) == {m \in Modules : UnresolvedIn(ledger, m) # {}}

\* One row under CommandJournal::recoverInterrupted.
Recovered(c) ==
    IF row[c].state = "absent" \/ row[c].resolved \/ row[c].state \in Certain
    THEN row[c]
    ELSE [state |-> IF Mutation(c) THEN "timed_out" ELSE "failed",
          unresolved |-> Mutation(c), resolved |-> ReadOnly(c),
          revision |-> row[c].revision]

\* Mutant: the revision of any row is restored, not the largest.
AnyJournalRevision(m, r) == \E c \in Commands : ModuleOf[c] = m /\ row[c].revision = r

\* The revisions in the ledger, and whether r is the one that
\* CommandJournal::maximumControlRevisions restores, -1 standing for absent.
Revisions == {-1} \union {row[c].revision : c \in Commands}

JournalRevision(m, r) ==
    LET kept == {c \in Commands : ModuleOf[c] = m} IN
    /\ r = -1 \/ \E c \in kept : row[c].revision = r
    /\ \A c \in kept : row[c].revision <= r

-----------------------------------------------------------------------------
Init ==
    /\ row = [c \in Commands |-> NoRow]
    /\ world = [c \in Commands |-> "idle"]
    /\ up = FALSE
    /\ locked = {}
    /\ journalHealthy = FALSE
    /\ auditHealthy = FALSE
    /\ moduleRevision = [m \in Modules |-> -1]
    /\ toWorker = [m \in Modules |-> <<>>]
    /\ toAgent = [m \in Modules |-> <<>>]
    /\ controlRevision = [m \in Modules |-> 0]
    /\ active = [m \in Modules |-> None]
    /\ executing = {} /\ pending = {} /\ unknown = {} /\ armed = {}
    /\ window = {}
    /\ crashes = 0 /\ faults = 0

\* HubAgent::start: recover the ledger, restore the interlocks and the
\* revisions from it, and start every worker, whose first signal is a snapshot.
Start ==
    /\ ~up
    /\ up' = TRUE
    /\ row' = [c \in Commands |-> Recovered(c)]
    /\ locked' = Interlocks(row')
    /\ journalHealthy' = TRUE
    /\ auditHealthy' = TRUE
    /\ moduleRevision' \in [Modules -> Revisions]
    /\ \A m \in Modules : JournalRevision(m, moduleRevision'[m])
    /\ controlRevision' = [m \in Modules |->
         IF moduleRevision'[m] < 0 THEN 0 ELSE moduleRevision'[m]]
    /\ toAgent' = [m \in Modules |->
         <<[cmd |-> None, state |-> "snapshot", revision |-> controlRevision'[m]]>>]
    /\ UNCHANGED <<world, toWorker, active, work, bounds>>

\* What is left when the process dies: the ledger, and the effects that were
\* in flight, which no longer have anyone waiting for them.
Lose(ledger) ==
    /\ crashes < MaxCrashes
    /\ crashes' = crashes + 1
    /\ row' = ledger
    /\ world' = [c \in Commands |->
         IF world[c] = "inflight" THEN "orphaned" ELSE world[c]]
    /\ up' = FALSE
    /\ locked' = {}
    /\ journalHealthy' = FALSE /\ auditHealthy' = FALSE
    /\ moduleRevision' = [m \in Modules |-> -1]
    /\ toWorker' = [m \in Modules |-> <<>>]
    /\ toAgent' = [m \in Modules |-> <<>>]
    /\ controlRevision' = [m \in Modules |-> 0]
    /\ active' = [m \in Modules |-> None]
    /\ executing' = {} /\ pending' = {} /\ unknown' = {} /\ armed' = {}
    /\ window' = {}
    /\ UNCHANGED faults

Crash == up /\ Lose(row)

-----------------------------------------------------------------------------
(* The Agent accepts commands: HubAgent::processClientMessage.             *)

\* The checks between the arrival of a command frame and its revision check.
\* durableLookup answers from the ledger: a known identifier is replayed or
\* rejected and changes nothing.
Admissible(c) ==
    /\ up
    /\ journalHealthy
    /\ row[c].state = "absent"
    /\ Mutation(c) => auditHealthy
    /\ Changes(c) => ModuleOf[c] \notin locked

RevisionMatches(c, expected) ==
    /\ expected >= 0
    /\ expected = moduleRevision[ModuleOf[c]]

\* The command is persisted as accepted and handed to the worker's queue.
Accept(c, expected) ==
    LET m == ModuleOf[c] IN
    /\ Admissible(c)
    /\ Mutation(c) => RevisionMatches(c, expected)
    /\ row' = [row EXCEPT ![c] = Reserved("accepted", moduleRevision[m])]
    /\ toWorker' = [toWorker EXCEPT ![m] =
                        Append(@, [cmd |-> c, expected |-> expected])]
    /\ UNCHANGED <<world, agentVars, toAgent, serial, work, bounds>>

\* stale_revision: the refusal itself is persisted under the identifier.
RefuseStale(c, expected) ==
    /\ Admissible(c)
    /\ Mutation(c)
    /\ ~RevisionMatches(c, expected)
    /\ row' = [row EXCEPT ![c] = Reserved("failed", moduleRevision[ModuleOf[c]])]
    /\ UNCHANGED <<world, agentVars, toWorker, toAgent, serial, work, bounds>>

\* A ledger operation on behalf of a client fails: the bounds or the recent rows
\* of a hello, durableLookup, persistNewCommand.  Nothing is dispatched and the
\* ledger is distrusted until the next start.
JournalFails ==
    /\ up
    /\ journalHealthy
    /\ faults < MaxFaults
    /\ faults' = faults + 1
    /\ journalHealthy' = FALSE
    /\ UNCHANGED <<durable, up, locked, auditHealthy, moduleRevision,
                   toWorker, toAgent, serial, work, crashes>>

\* The page a client acts on shows a revision the Agent has published so far.
Submit(c) ==
    \E expected \in -1 .. moduleRevision[ModuleOf[c]] :
        Accept(c, expected) \/ RefuseStale(c, expected)

\* HubAgent::onAuditReadyChanged.
AuditReadyChanged ==
    /\ up
    /\ auditHealthy => faults < MaxFaults
    /\ faults' = IF auditHealthy THEN faults + 1 ELSE faults
    /\ auditHealthy' = ~auditHealthy
    /\ UNCHANGED <<durable, up, locked, journalHealthy, moduleRevision,
                   toWorker, toAgent, serial, work, crashes>>

-----------------------------------------------------------------------------
(* The worker carries commands out: ModuleWorker::submitCommand.           *)

UnknownIn(m) == {c \in unknown : ModuleOf[c] = m}

Busy(m) == active[m] # None

\* ModuleWorker::publishCommand: a succeeded mutation moves the revision on,
\* the result is queued to the Agent, a terminal state frees the serial gate.
Publish(c, state, gate) ==
    LET m == ModuleOf[c]
        r == controlRevision[m] + (IF state = "succeeded" /\ Mutation(c) THEN 1 ELSE 0)
    IN  /\ controlRevision' = [controlRevision EXCEPT ![m] = r]
        /\ toAgent' = [toAgent EXCEPT ![m] =
              Append(@, [cmd |-> c, state |-> state, revision |-> r])]
        /\ active' = IF state \in Terminal /\ gate[m] = c
                     THEN [gate EXCEPT ![m] = None] ELSE gate

\* The next command the worker of m takes from its queue.
Take(m, c) ==
    /\ up
    /\ toWorker[m] # <<>>
    /\ c = Head(toWorker[m]).cmd
    /\ toWorker' = [toWorker EXCEPT ![m] = Tail(@)]
    /\ UNCHANGED <<row, agentVars, bounds>>

PassesGate(m, c) == Observe(c) \/ ~Busy(m)

PassesInterlock(m, c) ==
    KindOf[c] \in {"ack", "refresh", "observe"} \/ UnknownIn(m) = {}

Admitted(m, c) == PassesGate(m, c) /\ PassesInterlock(m, c)

\* The serial gate once c has been admitted.
Gate(m, c) == IF Observe(c) THEN active ELSE [active EXCEPT ![m] = c]

\* Mutant: the refusal is forgotten on the way back.
RefuseSilently(m, c) ==
    /\ Take(m, c)
    /\ ~Admitted(m, c)
    /\ UNCHANGED <<world, toAgent, serial, work>>

\* module_command_busy and previous_outcome_unresolved.
RefuseAtGate(m, c) ==
    /\ Take(m, c)
    /\ ~Admitted(m, c)
    /\ Publish(c, "failed", active)
    /\ UNCHANGED <<world, work>>

\* An admitted command refused by a check of its own: allowMutation, a missing
\* engine, an unknown backend, evidence of the wrong length.
RefuseCommand(m, c) ==
    /\ Take(m, c)
    /\ Admitted(m, c)
    /\ KindOf[c] # "refresh"
    /\ Publish(c, "failed", Gate(m, c))
    /\ UNCHANGED <<world, work>>

\* refresh, and a query whose answer is already at hand.
AnswerAtOnce(m, c) ==
    /\ Take(m, c)
    /\ Admitted(m, c)
    /\ KindOf[c] \in {"refresh", "query"}
    /\ Publish(c, "succeeded", Gate(m, c))
    /\ UNCHANGED <<world, work>>

\* A native engine is started or stopped, and looked at, before returning.
RunNative(m, c) ==
    /\ Take(m, c)
    /\ Admitted(m, c)
    /\ KindOf[c] = "native"
    /\ world' = [world EXCEPT ![c] = "done"]
    /\ \E state \in Certain : Publish(c, state, Gate(m, c))
    /\ UNCHANGED work

\* ModuleWorker::rememberPending, and the request it guards.
Begin(m, c) ==
    /\ Take(m, c)
    /\ Admitted(m, c)
    /\ KindOf[c] \in {"engine", "query", "observe"}
    /\ c \notin pending
    /\ pending' = pending \union {c}
    /\ armed' = armed \union {c}
    /\ window' = IF Mutation(c) THEN window \union {c} ELSE window
    /\ world' = IF Mutation(c) THEN [world EXCEPT ![c] = "inflight"] ELSE world
    /\ Publish(c, "running", Gate(m, c))
    /\ UNCHANGED <<executing, unknown>>

\* The lifecycle branch: a quiescence window, then LifecycleController::execute.
BeginLaunchd(m, c) ==
    /\ Take(m, c)
    /\ Admitted(m, c)
    /\ KindOf[c] = "launchd"
    /\ executing' = executing \union {c}
    /\ window' = window \union {c}
    /\ active' = Gate(m, c)
    /\ UNCHANGED <<world, toAgent, controlRevision, pending, unknown, armed>>

\* LifecycleController::transportQuiescent.
TransportQuiescent(m) ==
    \A c \in Commands : ModuleOf[c] = m /\ KindOf[c] = "launchd" =>
        c \notin executing /\ world[c] # "inflight"

\* Mutant: the quiescence windows are not consulted.
ReconcilableAtOnce(m) == TransportQuiescent(m)

Reconcilable(m) ==
    /\ UnknownIn(m) \intersect window = {}
    /\ TransportQuiescent(m)

\* acknowledge_uncertain while a change may still be under way.
RefuseAck(m, c) ==
    /\ Take(m, c)
    /\ Admitted(m, c)
    /\ IsAck(c)
    /\ ~Reconcilable(m)
    /\ Publish(c, "failed", Gate(m, c))
    /\ UNCHANGED <<world, work>>

\* acknowledge_uncertain: every unknown outcome of the module is forgotten.
GrantAck(m, c) ==
    LET settled == UnknownIn(m) IN
    /\ Take(m, c)
    /\ Admitted(m, c)
    /\ IsAck(c)
    /\ Reconcilable(m)
    /\ pending' = pending \ settled
    /\ unknown' = unknown \ settled
    /\ armed' = armed \ settled
    /\ window' = window \ settled
    /\ Publish(c, "succeeded", Gate(m, c))
    /\ UNCHANGED <<world, executing>>

WorkerStep(m) ==
    \E c \in Commands :
        \/ RefuseAtGate(m, c) \/ RefuseCommand(m, c) \/ AnswerAtOnce(m, c)
        \/ RunNative(m, c) \/ Begin(m, c) \/ BeginLaunchd(m, c)
        \/ RefuseAck(m, c) \/ GrantAck(m, c)

-----------------------------------------------------------------------------
(* Later events on the worker thread.                                      *)

Quiet == <<row, agentVars, toWorker, bounds>>

\* Mutant: a change whose deadline passes is reported as failed.
DeadlineAsFailure(c) ==
    /\ c \in armed
    /\ armed' = armed \ {c}
    /\ pending' = IF Mutation(c) THEN pending ELSE pending \ {c}
    /\ unknown' = IF Mutation(c) THEN unknown \union {c} ELSE unknown
    /\ Publish(c, "failed", active)
    /\ UNCHANGED <<Quiet, world, executing, window>>

\* Mutant: a change whose deadline passes is reported as still running.
DeadlineAsRunning(c) ==
    /\ c \in armed
    /\ armed' = armed \ {c}
    /\ pending' = IF Mutation(c) THEN pending ELSE pending \ {c}
    /\ unknown' = IF Mutation(c) THEN unknown \union {c} ELSE unknown
    /\ Publish(c, IF Mutation(c) THEN "running" ELSE "timed_out", active)
    /\ UNCHANGED <<Quiet, world, executing, window>>

\* Mutant: only changes have a deadline.
DeadlineOfChange(c) ==
    /\ c \in armed
    /\ Mutation(c)
    /\ armed' = armed \ {c}
    /\ unknown' = unknown \union {c}
    /\ Publish(c, "timed_out", active)
    /\ UNCHANGED <<Quiet, world, executing, pending, window>>

\* The deadline of a pending command: rememberPending's timer, or the deadline
\* of checkLifecycleReadiness.  The command stays pending if it is a change.
Deadline(c) ==
    /\ c \in armed
    /\ armed' = armed \ {c}
    /\ pending' = IF Mutation(c) THEN pending ELSE pending \ {c}
    /\ unknown' = IF Mutation(c) THEN unknown \union {c} ELSE unknown
    /\ Publish(c, "timed_out", active)
    /\ UNCHANGED <<Quiet, world, executing, window>>

\* The answers that can still come: readiness is confirmed or never.
MayFinish(c, state) == KindOf[c] = "launchd" => state = "succeeded"

\* ModuleWorker::finishPending with a certain answer: a late one settles an
\* unknown outcome.  A certain answer is given when the effect is over.
Finish(c, state) ==
    /\ c \in pending
    /\ state \in Certain
    /\ MayFinish(c, state)
    /\ pending' = pending \ {c}
    /\ unknown' = unknown \ {c}
    /\ armed' = armed \ {c}
    /\ window' = window \ {c}
    /\ world' = IF Mutation(c) THEN [world EXCEPT ![c] = "done"] ELSE world
    /\ Publish(c, state, active)
    /\ UNCHANGED <<Quiet, executing>>

\* finishPending with outcome_uncertain.  Asked again of an outcome already
\* unknown it would only repeat the timed_out result.
FinishUncertain(c) ==
    /\ c \in pending \ unknown
    /\ Mutation(c)
    /\ MayFinish(c, "failed")
    /\ unknown' = unknown \union {c}
    /\ Publish(c, "timed_out", active)
    /\ UNCHANGED <<Quiet, world, executing, pending, armed, window>>

\* The preflight checks have passed and launchctl has been started.
LifecycleMutate(c) ==
    /\ c \in executing
    /\ world[c] = "idle"
    /\ world' = [world EXCEPT ![c] = "inflight"]
    /\ UNCHANGED <<Quiet, toAgent, serial, work>>

\* LifecycleController::finishCommand and the worker's commandFinished handler.
LifecycleEnds(c) ==
    /\ c \in executing
    /\ executing' = executing \ {c}
    /\ UNCHANGED Quiet

\* A definite end: a refused preflight, a stop or a targeted start that was
\* verified, or a managed process that could not be started.
LifecycleCertain(c, state) ==
    /\ LifecycleEnds(c)
    /\ window' = window \ {c}
    /\ world' = IF world[c] = "idle" /\ state = "failed" THEN world
                ELSE [world EXCEPT ![c] = "done"]
    /\ Publish(c, state, active)
    /\ UNCHANGED <<pending, unknown, armed>>

\* The deadline or the verification attempts ran out after launchctl started.
\* Nobody tracks a late outcome: the entry the worker leaves in pendingCommands_
\* is never looked up again, so pending stays as it is.
LifecycleUncertain(c) ==
    /\ LifecycleEnds(c)
    /\ world[c] # "idle"
    /\ unknown' = unknown \union {c}
    /\ Publish(c, "timed_out", active)
    /\ UNCHANGED <<world, pending, armed, window>>

\* beginLifecycleReadiness: launchd is done, the business probe is not.
AwaitReadiness(c) ==
    /\ LifecycleEnds(c)
    /\ world' = [world EXCEPT ![c] = "done"]
    /\ pending' = pending \union {c}
    /\ armed' = armed \union {c}
    /\ Publish(c, "running", active)
    /\ UNCHANGED <<unknown, window>>

LifecycleFinishes(c) ==
    \/ \E state \in Certain : LifecycleCertain(c, state)
    \/ LifecycleUncertain(c)
    \/ AwaitReadiness(c)

\* The quiescence window outlasts the deadline that was set with it and, by
\* the choice of the transport timeouts, the effect it was opened for.
WindowExpires(c) ==
    /\ c \in window
    /\ c \notin armed \union executing
    /\ world[c] # "inflight"
    /\ window' = window \ {c}
    /\ UNCHANGED <<Quiet, world, toAgent, serial,
                   executing, pending, unknown, armed>>

\* The effect ends outside, whether or not anybody hears of it.
EffectEnds(c) ==
    /\ world[c] \in {"inflight", "orphaned"}
    /\ world' = [world EXCEPT ![c] = "done"]
    /\ UNCHANGED <<Quiet, toAgent, serial, work>>

CommandEvent(c) ==
    \/ Deadline(c)
    \/ \E state \in Certain : Finish(c, state)
    \/ FinishUncertain(c)
    \/ LifecycleMutate(c)
    \/ LifecycleFinishes(c)
    \/ WindowExpires(c)
    \/ EffectEnds(c)

-----------------------------------------------------------------------------
(* The Agent takes the workers' signals.                                   *)

Receive(m, msg) ==
    /\ up
    /\ toAgent[m] # <<>>
    /\ msg = Head(toAgent[m])
    /\ moduleRevision' = [moduleRevision EXCEPT ![m] = msg.revision]

Dequeue(m) ==
    /\ toAgent' = [toAgent EXCEPT ![m] = Tail(@)]
    /\ UNCHANGED <<world, up, auditHealthy, toWorker, serial, work, crashes>>

\* HubAgent::onSnapshot.
TakeSnapshot(m) ==
    /\ Receive(m, Head(toAgent[m]))
    /\ Head(toAgent[m]).state = "snapshot"
    /\ Dequeue(m)
    /\ UNCHANGED <<row, locked, journalHealthy, faults>>

\* updateResult as it succeeded or failed.
Written(msg, wrote) ==
    IF wrote THEN [row EXCEPT ![msg.cmd] = Updated(@, msg)] ELSE row

\* An acknowledgement that was granted.
Granted(msg) == IsAck(msg.cmd) /\ msg.state = "succeeded"

\* Whether the ledger is asked if the module still has an unknown outcome.
Asks(m, msg, wrote) ==
    /\ ~Uncertain(msg)
    /\ ~IsAck(msg.cmd)
    /\ m \in locked
    /\ journalHealthy
    /\ wrote

\* Mutant: any certain result lifts the interlock, whatever the ledger says.
LockedUntilAnyResult(m, msg, ledger, asks, cleared) ==
    CASE Granted(msg) -> IF cleared THEN locked \ {m} ELSE locked \union {m}
      [] Uncertain(msg) -> locked \union {m}
      [] asks /\ cleared /\ msg.state \in Certain -> locked \ {m}
      [] OTHER -> locked

LockedAfter(m, msg, ledger, asks, cleared) ==
    CASE Granted(msg) -> IF cleared THEN locked \ {m} ELSE locked \union {m}
      [] Uncertain(msg) -> locked \union {m}
      [] asks /\ cleared /\ UnresolvedIn(ledger, m) = {} -> locked \ {m}
      [] OTHER -> locked

\* HubAgent::onCommandResult.  wrote and cleared say whether updateResult and
\* the second ledger operation (hasUnresolved or resolveModule) succeeded.
TakeResult(m, msg, wrote, cleared) ==
    LET ledger == Written(msg, wrote)
        asks == Asks(m, msg, wrote)
        failures == (IF wrote THEN 0 ELSE 1) + (IF cleared THEN 0 ELSE 1)
    IN
    /\ Receive(m, msg)
    /\ msg.state # "snapshot"
    /\ ~cleared => Granted(msg) \/ asks
    /\ faults + failures <= MaxFaults
    /\ faults' = faults + failures
    /\ row' = IF Granted(msg) /\ cleared THEN ResolveModule(ledger, m) ELSE ledger
    /\ journalHealthy' = (journalHealthy /\ wrote /\ cleared)
    /\ locked' = LockedAfter(m, msg, ledger, asks, cleared)
    /\ Dequeue(m)

\* The process dies between updateResult and resolveModule.
CrashInAck(m) ==
    /\ up
    /\ toAgent[m] # <<>>
    /\ LET msg == Head(toAgent[m]) IN
         /\ msg.state = "succeeded"
         /\ IsAck(msg.cmd)
         /\ Lose(Written(msg, TRUE))

AgentStep(m) ==
    \/ TakeSnapshot(m)
    \/ \E wrote, cleared \in BOOLEAN :
           toAgent[m] # <<>> /\ TakeResult(m, Head(toAgent[m]), wrote, cleared)

-----------------------------------------------------------------------------
Next ==
    \/ Start
    \/ Crash
    \/ JournalFails
    \/ AuditReadyChanged
    \/ \E c \in Commands : Submit(c) \/ CommandEvent(c)
    \/ \E m \in Modules : WorkerStep(m) \/ AgentStep(m) \/ CrashInAck(m)

Spec == Init /\ [][Next]_vars

\* The process is restarted by launchd, the threads run, timers fire.
Fairness ==
    /\ WF_vars(Start)
    /\ \A m \in Modules : WF_vars(WorkerStep(m)) /\ WF_vars(AgentStep(m))
    /\ \A c \in Commands : WF_vars(Deadline(c)) /\ WF_vars(LifecycleFinishes(c))

FairSpec == Spec /\ Fairness

-----------------------------------------------------------------------------
(* Properties.                                                             *)

\* Every variable stays in its domain, and the queues hold well-formed
\* requests and results.
TypeOK ==
    /\ row \in [Commands -> Row]
    /\ world \in [Commands -> {"idle", "inflight", "orphaned", "done"}]
    /\ up \in BOOLEAN /\ journalHealthy \in BOOLEAN /\ auditHealthy \in BOOLEAN
    /\ locked \subseteq Modules
    /\ moduleRevision \in [Modules -> Int]
    /\ toWorker \in [Modules -> Seq([cmd : Commands, expected : Int])]
    /\ toAgent \in [Modules -> Seq(Message)]
    /\ controlRevision \in [Modules -> Int]
    /\ active \in [Modules -> Commands \union {None}]
    /\ executing \subseteq Commands /\ pending \subseteq Commands
    /\ unknown \subseteq Commands /\ armed \subseteq Commands
    /\ window \subseteq Commands
    /\ crashes \in 0 .. MaxCrashes /\ faults \in 0 .. MaxFaults

\* The promise of ModuleEffects: a change takes effect at most once, whatever is
\* submitted again and however often the Agent dies; never while another change
\* of its module is under way or was left behind by a crash, across queues, late
\* answers and restarts; and an acknowledgement covers no effect under way.
Effects == INSTANCE ModuleEffects WITH
    effect <- world,
    reconciled <- {c \in Commands : Changes(c) /\ row[c].resolved}

SerialEffects == Effects!Spec

\* The ledger is written ahead of the effect, and never holds a certain
\* outcome of an effect that is still under way or was left behind by a crash.
LedgerCoversEffects ==
    \A c \in Commands :
        /\ world[c] # "idle" => row[c].state # "absent"
        /\ world[c] \in {"inflight", "orphaned"} => row[c].state \notin Certain

\* The interlock the Agent keeps in memory is exactly the one the ledger would
\* restore, so neither a late answer nor an acknowledgement leaves one of the
\* two behind.
InterlockMatchesLedger ==
    up /\ journalHealthy =>
        locked = {m \in Modules : UnresolvedIn(row, m) # {}}

\* The queued results of a command.
ResultsOf(c) ==
    {i \in 1 .. Len(toAgent[ModuleOf[c]]) : toAgent[ModuleOf[c]][i].cmd = c}

\* Every command the ledger shows as accepted or running still has something
\* that will settle it: a queued dispatch, work under way or a queued result.
OpenRowsAreTracked ==
    up /\ journalHealthy =>
        \A c \in Commands : row[c].state \in Open =>
            \/ \E i \in 1 .. Len(toWorker[ModuleOf[c]]) :
                  toWorker[ModuleOf[c]][i].cmd = c
            \/ c \in executing \union pending
            \/ ResultsOf(c) # {}

\* An outcome the worker does not know is under the Agent's interlock, or the
\* timed_out result that will put it there is on its way.
InterlockCoversUnknown ==
    up /\ journalHealthy =>
        \A c \in unknown :
            \/ ModuleOf[c] \in locked
            \/ \E i \in ResultsOf(c) : toAgent[ModuleOf[c]][i].state = "timed_out"

\* The revision the Agent compares a command with is the newest the ledger
\* holds, so a restart cannot hand out a revision a second time.
RevisionIsDurable ==
    up /\ journalHealthy =>
        \A m \in Modules :
            /\ \A c \in Commands : ModuleOf[c] = m => row[c].revision <= moduleRevision[m]
            /\ moduleRevision[m] > 0 =>
                  \E c \in Commands :
                      ModuleOf[c] = m /\ row[c].revision = moduleRevision[m]

\* An unknown outcome stays unknown in the ledger until a certain result or an
\* acknowledgement arrives: rememberPending's "the lock is kept and the late
\* outcome is tracked".
UnknownUntilSettled ==
    [][\A c \in Commands :
          row[c].unresolved /\ ~row[c].resolved =>
              \/ row'[c].unresolved
              \/ row'[c].resolved
              \/ row'[c].state \in Certain]_vars

\* Every accepted command reaches a terminal state in the ledger.
EveryCommandSettles ==
    \A c \in Commands : row[c].state \in Open ~> row[c].state \in Terminal
=============================================================================
