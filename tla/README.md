# A TLA+ model of the Machome hub

The repository holds one large program in its current version,
`machome五合一_v1.1.0_本地IOPV与L1保留版/` (called `$HUB` below), next to its
predecessors, vendor SDK ports and research scripts. The hub is a macOS
background process, the Agent, that supervises trading-support modules
(premium monitor, IBKR bridge, QMT, redemption calculation, uploads, Webull,
file synchronisation), and a Qt user interface that talks to the Agent over a
local socket. This directory specifies the part of it where mistakes cost most:
how a command becomes an effect, exactly once, across threads, timeouts and
restarts, and how launchd carries it out; how a critical event reaches the
operator's screen, through a crash of the Agent, a cut connection or a restart
of the UI, without a gap; how a module is handed from its previous supervisor to
the Hub; how the upload supervisor keeps its workers; and when the health
monitor tells a person that a source is broken.

Contents: [inventory](#1-inventory) · [hard behaviours](#2-what-is-hard) ·
[plan](#3-plan) · [modules and code](#4-the-modules-and-the-code) ·
[runs](#5-what-the-runs-check) · [proofs](#6-what-is-proved) ·
[findings](#7-where-code-and-documents-disagree) ·
[what is not modelled](#8-what-is-not-modelled)

## 1. Inventory

Paths are relative to `$HUB/app`.

| Component | State it keeps | Operations | Correct means |
|---|---|---|---|
| **Agent command control** `src/agent/HubAgent.cpp` (main thread) | interlocked modules `unresolvedModules_`, cached revisions `moduleControlRevisions_`, health of ledger and audit, approval tickets, one `ClientState` per client | hello, command, approval, query and critical_ack of a client; signals of workers and of the audit writer; start, shutdown | a change is admitted once, only under a healthy ledger, at the revision its client saw, never into an interlocked module |
| **Command ledger** `src/agent/CommandJournal.cpp` (SQLite, called by the Agent) | one row per `command_id`: state, `unresolved`, `resolved`, results with their revision; `audit_epoch` | reserve, updateResult, hasUnresolved, resolveModule, recoverInterrupted, maximumControlRevisions, criticalEventBounds, criticalEventsAfter | written ahead of the effect; never calls certain what is not |
| **Module worker** `src/agent/ModuleWorker.cpp` (one thread per module) | control revision, the serial gate `activeCommandId_`, `pendingCommands_`, `timedOutPending_`, quiescence windows | submitCommand, answers of engines, deadlines, reconciliation by `acknowledge_uncertain`, readiness checks, snapshots | one change at a time; a late answer settles what a deadline left unknown; every command ends |
| **Lifecycle controller** `src/agent/LifecycleController.cpp` (worker's thread) | what its probes have seen, the planned launchctl calls, the one under way, retired processes, managed groups, the owner lease | probe, start, stop and restart of a launchd service; preflight; steps; verification; deadline; taking the lease | a certain failure has changed nothing; a success lasts and was judged on what was there afterwards; only units of the Hub are touched, and only by the owner |
| **Audit writer** `src/agent/AuditWriter.cpp` (own thread) | the emergency file, the read offset into it, `ready_`, the audit table | enqueueCriticalAsync, append, drain, record, retention | an accepted event is durable, gets one row, and the Agent hears of the rows in order |
| **Critical event delivery** `HubAgent.cpp`, `src/ui/HubClient.cpp` | Agent: acknowledged / sent-through / replaying per client, cached bounds. Client: durable cursor and epoch, pending identifiers, inbox | replay by pages, broadcast, hello, acknowledgement, reconnect | the cursor passes no event the operator has not seen; what was accepted is shown in the end |
| **Main window and pages** `src/ui/*` | what is on the screen | render, alert, send a command | a critical event is acknowledged once it is rendered |
| **Configuration, framing, schedule** `src/common/*` | – | parse, frame, compute a worker's due windows | – |
| **IBKR bridge** `modules/ibkr/*` | leases of quote subscriptions, subscription budget, quote contract | lease, renew, release, expiry, reconnect | a subscription lives exactly as long as its last lease |
| **Bridge clients** `modules/bridge/*` | connection generation, sequence numbers, last values | connect, subscribe, resubscribe, stale marking | no value of an old generation is taken for a new one |
| **Premium engine** `modules/premium/**` | signal state per fund, push queue, persistence queue, L1 subscriptions | quote, confirm, push with retry, persist | one alarm per crossing; a push is not lost and not doubled |
| **QMT client** `modules/qmt/*` | sequence and hash chain of the last message | verify, mark stale | a gap is noticed |
| **Redemption engine** `modules/redemption/*` | request generations, caches of quotes and constituents | poll, calculate | numbers of one generation are not mixed with another's |
| **Upload engine** `modules/upload/*` | the supervisor's process, its status, the channel to it | start, stop, restart, submit a command | the supervisor and its workers end with the Agent |
| **Webull engine** `modules/webull/*` | session of a browser helper, cached book | navigate, scrape, send | – |
| **Monitor sync** `modules/monitor_sync/*` | files with versions | read, put with an expected version, list | no concurrent write is lost |
| **IOPV service** `services/iopv` (Go) | day store, L1 state | rollover, compute, serve | – |
| **Upload supervisor** `components/upload/supervisor.py` | one process per worker, restart ages and delays, the daily runs that are done and their file, the status of the last pass | take commands, reap, restart with backoff, launch what is due, publish, shut down | no process is forgotten, no two writers of the same quotes run, a daily run is done once, "ready" is deserved |
| **Upload health monitor** `components/upload/business/scripts/upload_health_monitor.py` | incidents per source, in memory and in a file | observe, confirm, alert, repeat, recover, pause outside the window | a person is told of what is really broken, not too often, and of the recovery when it is one |
| **Upload business** `components/upload/business` (Go, Python) | a web database | uploads, snapshots, pages | – |
| **Handoff and install scripts** `scripts/owner_handoff.py`, `scripts/*.sh` | the marker and the state file of a module's owner | prepare a marker, invalidate a state; install, roll back | the previous supervisor and the Hub never own a module at the same time |

**How they interact.** A client sends a command over the local socket. The
Agent's thread checks it and writes it to the ledger *synchronously*, then posts
`submitCommand` to the worker's thread with a queued connection. The worker
runs it at once (a native engine), hands it to an engine, or to
`LifecycleController`, which start processes and answer through signals, or
never. Results return to the Agent through a second queue, `commandChanged`,
and there change the ledger, the interlock and the revision. Snapshots travel
the same way. Workers do not share state with one another: they meet only in
the Agent and its ledger.
Events of modules take another road: the Agent posts critical ones to the
audit writer's thread, which appends them to the emergency file, syncs it,
inserts them into the audit table and signals `criticalRecorded` to the Agent.
The Agent reads the table on its own thread, pages rows to a client that said
hello with a cursor, and broadcasts newer rows as the signals arrive.
`HubClient` queues events, hands them to the GUI through `eventReceived`, and is
told through `criticalEventRendered` when to advance the cursor and acknowledge.
The lifecycle controller shares two files and a `QLockFile` with
`owner_handoff.py`, which a person runs while the Agent is down, and launchd
with whoever is at the machine. The upload supervisor is a child of the Agent
that reads commands from its standard input, and shares health files with its
workers. The health monitor is a worker of its own that reads the web service.

## 2. What is hard

`PROJECT.json` lists the hazards line by line. In groups:

- **Crashes between ledger and effect.** The process may die after the ledger's
  `accepted` row, after the dispatch, after the effect, between the two ledger
  writes of an acknowledgement; launchd starts it again. What it had asked the
  outside world to do goes on (an *orphaned* effect).
- **Timeouts that race answers.** A deadline publishes `timed_out` while the
  answer is under way. The late answer, and only it or the operator, may
  settle the unknown outcome, on both sides of two queues.
- **Two copies of one fact.** The interlock is kept by the worker
  (`timedOutPending_`), by the Agent (`unresolvedModules_`) and by the ledger
  (`unresolved`, `resolved`). They change at different times.
- **State read and used later.** `expected_revision` is checked at acceptance
  and not at the start; bounds of the table are cached and sent on in a hello;
  a page is read in two queries between which another thread writes and deletes.
- **Two roads to the screen.** Pages and broadcasts; events the GUI still
  holds for a connection, or a database, that is gone.
- **Partial failure of files.** An append that is cut short, a write that fails
  after the effect, a writer that stops, a read that fails and is passed over.
- **Processes outlive whoever started them.** A launchctl call goes on after its
  command's deadline; upload workers have sessions of their own and survive a
  killed supervisor; process identifiers are used again.
- **Looks that are out of date.** A controller plans from probes that may be
  seconds old; two Agents and a tool read, decide and write the same files
  without a common lock.
- **Clocks.** A daily run that crosses midnight, a backoff that must neither
  storm nor stop for ever, alerts that wait and repeat through restarts.

The list holds 40 entries. Hazards of the same code that found no place in it:
approval tickets against restarts (`HubAgent.cpp:946`), a second client, whose
replay refreshes the cached floor that a later hello carries to the first
(`HubAgent.cpp:1183`), retention by size
(`AuditWriter.cpp:537`), a full command queue of the upload supervisor that drops
a command without an answer (`supervisor.py:316`), a managed group whose second
process does not start (`LifecycleController.cpp:1142`), and
`acknowledge_uncertain` resuming adapters (`ModuleWorker.cpp:1079`).

## 3. Plan

Done, in this order:

1. `ModuleEffects`, the abstract promise; `HubControl`, the control plane in
   one module because its parts share two queues and one crash;
   `HubControlProofs` (types, inductive invariant, refinement);
   `HubLedgerProofs` (the agreement of ledger, interlocks, results and revisions).
2. `AuditSpool`, the audit writer on its own; `CriticalDelivery`, which extends
   it with the Agent's feed, the socket and the client; `AuditSpoolProofs`;
   `CriticalDeliveryProofs` (types, inductive invariants, `NoGap`,
   `InFlightAscends`, and `NothingSkipped` while the queue has room).
3. `UploadSupervisor`, the supervisor with its workers, files and clocks;
   `UploadSupervisorProofs` (types, inductive invariant, all safety properties).
4. `OwnerHandoff`, the tool and the Agents that share its files;
   `OwnerHandoffProofs`.
5. `HealthAlerts`, the incidents of the health monitor; `HealthAlertsProofs` (types,
   inductive invariant, all properties).
6. `LaunchdCommands`, the steps of `LifecycleController`;
   `LaunchdCommandsProofs`.

Each `MC` module holds what TLC needs: command sets, symmetry, a concrete list
of units or workers.

Left, in the order in which it would be done:

7. `LaunchdCommands` as an implementation of the `launchd` part of `HubControl`,
   with the deadline between fork and signal as the case that `HubControl` leaves
   out.
8. `ApprovalTickets` (`HubAgent.cpp:946`): issue, binding, expiry, invalidation
   and consumption of a ticket against a restart and a second client; abstract
   specification: a change that needs approval is approved once, by the client
   and for the parameters it names.
9. A second client in `CriticalDelivery`, and the fallback broadcast without
    identifiers.
10. `QuoteLeases` (`IbkrBridgeCore.cpp`), `PushQueue` (`PushPlusNotifier.cpp`:
    retries, deduplication), `FileVersions` (`FileStore.cpp`), each with its
    abstract specification; `WorkerSchedule` as a pure algorithm against a
    reference definition over bounded minutes.

## 4. The modules and the code

`PROJECT.json` maps every definition to the lines it models.

### ModuleEffects
What the outside world sees, without queues, ledger or threads: a change takes
effect at most once (`Take` needs `idle`), alone in its module, and an operator
reconciles only what is not under way.

### HubControl
State and its counterpart:

| Variable | Code |
|---|---|
| `row` | the table `command_journal` of `CommandJournal`, one record per command; survives a crash |
| `world` | what became of the effect outside: `idle`, `inflight`, `orphaned` (its process died), `done`; a ghost of the real world, read by no action of the code except through answers |
| `locked`, `journalHealthy`, `auditHealthy`, `moduleRevision` | `unresolvedModules_`, `commandJournalHealthy_`, `auditHealthy_`, `moduleControlRevisions_` |
| `toWorker[m]`, `toAgent[m]` | Qt's queued connections between the threads |
| `controlRevision`, `active` | `controlRevision_`, `activeCommandId_` of each worker |
| `executing` | the command `LifecycleController` is busy with |
| `pending`, `armed`, `unknown`, `window` | `pendingCommands_`, those with a running deadline timer, `timedOutPending_`, `pendingTransportQuiescenceUntilMs_` |

Each handler is one action: `Submit` is `processClientMessage` with the checks,
the reservation and the dispatch (a stale revision writes a failed row);
`WorkerStep` is `submitCommand` with its branches (refused at the gate, refused
by the interlock, run at once, begun, acknowledgement refused or granted);
`Deadline`, `Finish`, `FinishUncertain`, `LifecycleMutate`, `LifecycleFinishes`
are timers and answers; `TakeResult` is `onCommandResult` with both ledger
operations, each of which may fail; `CrashInAck` is a death between the two;
`Start` is `HubAgent::start` with recoverInterrupted. Commands have a *kind*,
the way the worker carries them out (`native`, `engine`, `launchd`, `query`,
`observe`, `refresh`, `ack`); names, parameters and payloads are left out.

Assumptions, each of which narrows the model:
- an effect is over before its quiescence window is (the code derives the
  window from the transport's own time limit), and an engine that answers with
  certainty has ended;
- launchctl's start and its `started` signal are one step (the gap between
  them is hazard `LifecycleController.cpp:1012`, and part of `LaunchdCommands`);
- snapshots after the first carry the revision of a result that precedes them
  and are left out; `activeCommandIds_` only shows;
- a shutdown is any number of ordinary steps followed by `Crash`;
- a ticket check is that `Submit` may not happen.

### AuditSpool
`file`, `spool` are the emergency file (does it exist, its lines), `log` and
`pruned` the audit table (rows in the order of their identifiers, the oldest
`pruned` of which retention has deleted), `toWriter` and `toHub` the queued
calls and signals, `offset` and `draining` the writer's progress through the
file. `kept` records which appends the code reported as successful. `AppendLine`
is `enqueueCritical`; `DrainLine` one line of `drainCriticalQueue` with insert,
retention, signal and commit; `CrashInDrain` dies between insert and commit,
`CrashInAppend` and `AppendTears` inside an append. A line is an event, a line
without end (`Torn`) or a whole line that cannot be parsed (`Garbage`).
One step drains one line where the code drains up to 256 in a call: the model has
more interleavings. Retention may delete any prefix after any row (the code
looks every 256 writes). Its rule by age compares times that the modules put into
their events: if those are not in the order of the rows' identifiers, the code
may delete a row and keep an older one, which the model does not.
Removing the file and writing settings do not fail.
A module may emit an event again under its `event_id`.

### CriticalDelivery
Extends `AuditSpool` (the same writer, with its `HearSignal` replaced by the
Agent's handlers). `session` is the Agent's `ClientState`, `reading` where its
thread stands in `enqueueCriticalReplay` (before the bounds, between bounds and
page, not at all: the writer's thread may run in between), `toAgent` and
`toClient` the socket, the rest the client and what it has passed to the GUI.
Cached bounds are `floorSeen` and `highSeen`. An item in the GUI's queue is
`fresh` while its connection's generation is current.
Limits on bytes and queue lengths appear
as `AgentDrops` and `ClientDrops`, which may happen at any time; a page ends after
any number of rows up to `PageSize`. Replacing the database while the Agent is
down is external. What the client received before the Agent died may still be
read. There is one client. Each of the Agent's reads of the table may fail:
`GreetUnreadable` ends the connection; `BoundsUnreadable` and `PageUnreadable`
report to the client and return, and leave the session as it is, as
`enqueueCriticalReplay` does. `misled` is a history: a session went on although
the read behind its hello had failed, or the bounds could not be read.
The fallback broadcast without an identifier, after
the table failed, is not modelled, nor is the audit health a hello carries.

### UploadSupervisor
| Variable | Code (`components/upload/supervisor.py`) |
|---|---|
| `sup`, `at`, `stopping`, `events` | where `Supervisor.run` is in a pass, `self.stopping`, the queue filled by the thread that reads standard input |
| `procs`, `key`, `state`, `attempts`, `wait`, `completed` | `self.procs` with the schedule key of each process, `self.states`, `self.restarts`, `self.next_start`, `self.completed` |
| `saved`, `health` | `component-schedule.json`; the health files that the workers merge their reports into |
| `proc` | the processes of the machine: whose they are, and whether they run or wait to be reaped |
| `claim` | what the status of the last pass says |

A pass is several steps, between which workers end and report, the Agent writes
and the supervisor may be killed: `BeginPass`, `TakeStop`, `TakeRestart` and
`TakeUnknown` (the commands), one `Visit...` per worker (disabled, busy,
completed, failed, launches, idle), `Save`, `Publish`, `Shutdown`. The daily
schedule is `Due`, the backoff `Backoff`, the readiness rule `Ready`. Times are
ages in ticks. `orphans`, `haunted`, `earned`, `acked` and `relaunched` are
histories that only the properties read.

### OwnerHandoff
`state` and `marker` are the two files of `owner_handoff.py`, `lock` the
`QLockFile`, `receipts` what the tool has printed, `old` whether the previous
supervisor runs, `service` whether the Hub's units are loaded. Each Agent goes
through the steps of `acquireOwnerLease` (`ReadState`, `ReadMarker`, `CheckOld`,
`TryLock`, `WriteState`, `RemoveMarker`, and on failure `FailActivation` and
`EraseState`), and then through commands (`Execute`, `ContinueAfterPreflight`,
`Effect`, `Deadline`). `late` holds launchctl calls nobody waits for. Three
things the runbook asks of the operator are taken for granted, because no code
enforces them: the tool is run while no Agent that owns the module runs; a state
is invalidated after the units are unloaded; and the previous supervisor does
not come back while the Hub's units are loaded or a call is under way. Under
the first, `prepare-marker`, which looks at the state before the marker, is one
step.

### HealthAlerts
`incidents` and `file` are the dictionary of incidents and its file; `problems`,
`rest` and `taken` what a tick still has to go through. A tick is `Reconcile`,
`Note` or `Attempt` for each problem, `Sent` or `NotSent` for its message,
`Clear` for each incident without a problem, `Finish`; or `Pause`, outside the
window. Every save may raise, which ends the tick (`PauseRaises` is the one among
the pauses at the beginning of `reconcile`: those after it are not made, nor is an
earlier day dropped), and the process may die between any two steps. `StartUnread`
is a start that cannot read the file: `_load` passes over the error and begins
without incidents. That `_load` merges the keys of an earlier version, one for each
reason, into one for each source is left out: the model's keys are new.
Two sources of one scope are modelled; reports that are
sent once a day are not. Intervals are measured from the start of a tick, as the
code does.

### LaunchdCommands
`job` is what launchd has: whether a unit is loaded, whether it is ours (program,
arguments and artifacts are the expected ones) and its process. `phase`, `steps`,
`child`, `attempted`, `failed`, `tries`, `probe`, `probed`, `seen` are
members of `LifecycleController` (the table in the module's header names them),
`retiring` its retired processes, `blocked` the interlock that the worker keeps of
its verdicts. `ProbeNext` looks at one unit and may find out nothing;
`ContinueAfterPreflight` plans the calls (`Plan`: bootstrap, enable and kickstart,
or bootout, in the order of the configuration or against it); `ChildRuns`,
`Signals`, `ChildStuck` and `StepFinished` are a call, its `started` signal and
its end; `VerifyOutcome` and `LookAgain` the verification; `Deadline` may come at
any time; `Retires` lets a call that was told to end do its work yet. `Exits`
and `Meddle` are launchd and people at the machine. Assumed: a killed
launchctl's effect happens while its process lives or not at all; identifiers of
processes are not used again within a command. Managed process groups are left
out: no configuration in the repository has any, and `Config.cpp:297,319` forbids
them for native modules. `open_legacy_ui`, and the death of the Agent, which
`HubControl` and `OwnerHandoff` have, are left out too.

## 5. What the runs check

| Run | Scenario and bounds | Shows |
|---|---|---|
| `hub_changes` | engine change, launchd change, acknowledgement on one module; 2 crashes, 1 failing ledger or audit operation | `SerialEffects` (refinement of `ModuleEffects`), `LedgerCoversEffects`, `InterlockMatchesLedger`, `InterlockCoversUnknown`, `UnknownUntilSettled` |
| `hub_reads` | two modules; observation, refresh, engine change, native stop; 1 crash | `OpenRowsAreTracked`, `RevisionIsDurable` |
| `hub_live` | query, engine and launchd change; 1 crash; fairness | `EveryCommandSettles` |
| `spool` | 2 events, 3 emissions, queue of 2, 2 crashes, 1 failing write, 1 torn append, 1 other row | `OneRowEach`, `SignalsAscend`, `HeldStaysHeld` |
| `delivery_reconnect` | 2 events, pages of one row, queue of one, 1 crash, 1 failing write, 1 failing read, 1 cut or restart of the UI, 1 replaced database, retention | `NoGap`, `InFlightAscends`, `NothingSkipped`, `TypeOK` |
| `delivery_live` | 2 events, 1 crash, 1 cut, 1 append cut short; fairness | `AcceptedIsSeen`, `AgentComesBack`, `AcceptedIsRecorded` |
| `delivery_overflow` | a queue of one, pages of two, 4 emissions (expected to fail) | `NothingSkipped` is violated |
| `upload` | a worker, a disabled one that uploads the same quotes, and a daily one, in two configurations; 2 process identifiers, 2 days of 2 parts, 1 command, 2 supervisors | `NothingForgotten`, `WritersExclusive`, `CompletionEarned`, `RateLimited`, `RecordedIsFinal`, `ReadyIsEarned`, `TypeOK` |
| `upload_live` | the same for one day and one supervisor; fairness | `Recovers`, `ClosedPipeStops` |
| `handoff` | 2 Agents, generations 1 and 2, 3 markers, 4 starts, 1 failing file operation | `NoDoubleOwner`, `HolderCanRecover`, `RevokedStaysRevoked`, `MarkerUsedOnce` |
| `alerts` | 2 sources, 2 reasons; confirmation after 2 ticks, repeated after 4, retried after 1; 2 deaths, 1 save that raises or file that cannot be read | `AlertEarned`, `AlertsSpaced`, `RecoveryEarned`, `TypeOK` |
| `launchd` | a required unit and one that can be named alone; 2 commands, 2 looks of a verification, 1 change by hand | `CertainFailureChangedNothing`, `SuccessLasts`, `RestartReplaces`, `OnlyOwnJobs`, `JudgedAfterwards` |

**Why the bounds are enough to be interesting.** One module with two changes and an
acknowledgement is the smallest system in which an effect can be unknown while
another waits and an operator intervenes; two crashes let a restart meet what an
earlier restart had already found. Two events and pages of one row already make a
page end between them, and let one be broadcast while the other is in a page. Two
process identifiers suffice for an orphan beside its successor, and for an
identifier that is used again; two supervisors for what one leaves to the next; two
parts of two days for a run that crosses a time and midnight; a window of three
ticks and a burst of two for backoff, fault and recovery. Two Agents and three
markers let one Agent act on what it read before the other activated, a marker be
replaced, and a generation be followed. Two sources let one hide, delay or interrupt
the other. Two units and two commands are the smallest case of a partial plan, of a
call of the first command that meets the second, and of a probe that is out of date
for one unit only. The remaining constants count events of the environment
(`MaxCrashes`, `MaxFaults`, `MaxTears`, `MaxOthers`, `MaxEmits`, `MaxDrops`,
`MaxReplaced`, `MaxMisreads`, `MaxMarkers`, `MaxStarts`, `MaxCommands`, `MaxRuns`,
`MaxMeddling`) or shrink limits of the code:

| Constant | In the model | In the code |
|---|---|---|
| `QueueLimit` | 1, 2 | 4096 events |
| `PageSize` | 1, 2 | rows of a replay page |
| `QueueMax` | 1 | 128 commands of the supervisor |
| `Window`, `Delays` | 3 ticks; 2 ticks after the first exit | 300 s; 2, 4 and 8 s after the first exits |
| `Attempts` | 2 | 10 looks of a verification |
| `Confirm`, `Repeat`, `Retry` | 2, 4, 1 | 60 s, 360 s, 30 s |

Revisions are bounded by the number of commands. Events, Agents and sources are
symmetric; the safety runs use that where no definition tells them apart, and
liveness runs do not.

`AcceptedIsRecorded` and `AcceptedIsSeen` say what happens as long as no append is cut
short and no write or read fails (section 7 says how each of these ends delivery);
`delivery_live` therefore has no failing write or read, and an append cut short for
`AgentComesBack`.

**Deadlock** is checked by `launchd`, where a unit may always be looked at again.
The other runs say `CHECK_DEADLOCK FALSE`: the supply of commands, events, starts
or ticks is finite, and when it is used up the system really has nothing to do.

**Fairness.** launchd restarts the Agent (`KeepAlive`): `Start`. Threads run their
event loops: `WorkerStep`, `AgentStep`, the writer's append and drain, the Agent's
and the client's handlers. Timers fire: `Deadline`, and `LifecycleFinishes`, whose
every process has a time limit. A client reconnects by its timer. The supervisor's
loop runs on (`WF(Supervise)`), and time passes for it (`SF(Tick)`: a tick is
enabled again and again, between two passes). Nothing is assumed of engines and
services (they may never answer), of workers, of operators, of emissions, crashes,
cuts, or of effects ending.

**Mutants.** Every property of a passing run names an operator next to the code's
own that changes it the way a plausible mistake would (a row that is inserted
whenever its line is read, an acknowledgement that does not wait for the
quiescence windows, a lease that any active state recovers, a run that is
recorded for what is due when it ends, calls that are made before the units are
known). TLC finds the property violated with it, so no property holds merely by
the shape of the model.

The type invariants of `HubControl`, `AuditSpool`, `OwnerHandoff` and
`LaunchdCommands`, and `NoStrayCall`, are proved (section 6) and not run as well.

## 6. What is proved

`HubControlProofs` proves four theorems for every set of commands and modules
and every bound, under `HubAssumption` (the constants have the right types)
alone:

- `TypeCorrect`: `Spec => []TypeOK`.
- `Invariance`: `Spec => []IInv`.
- `LedgerAhead`: `Spec => []LedgerCoversEffects`.
- `Implements`: `Spec => SerialEffects`, the refinement of `ModuleEffects`.

*The argument.* A change may start only if nothing of its module threatens. That
is seen by the worker from `active` and `unknown`, which say nothing of effects
a dead process left behind; those are known to the Agent through the ledger. So
the invariant has to tie the three together. `EffectsAreWork` says that an
effect under way belongs to a command the living worker remembers, inside its
window; `ExecutingIsSerial` and `PendingIsSerial` that such a command holds the
gate or is unknown: hence, when the gate is free and the interlock open,
nothing is in flight (`NothingUnderWay`). `OrphansAreLocked` says that what a
dead process left behind locks its module until an acknowledgement resolves
it, and that meanwhile nothing of the module is queued or executing: hence
nothing starts. For that to survive an acknowledgement, a grant in the queue
must not cover an effect that is under way by the time the Agent takes it
(`GrantsSettleEndedEffects`), nor one whose `timed_out` result is queued in
front of it (`GrantsFollowEffects`). For the ledger to cover effects through a
crash, a queued command must be untouched (`RequestsAreNew`,
`RequestsAreDistinct`, `ExecutingIsNew`, `AbsentIsUntouched`) and a queued
result true (`ResultsAreTrue`). `NothingWhenDown` lets `Start` begin from
empty queues. Each group of conjuncts is preserved step by step, one lemma per
kind of step; the refinement then maps each action to `Take`, `End`, `Orphan`,
`Reconcile` or a stutter.

`HubLedgerProofs` continues from there, under the same assumption: the copies of
one fact, which live in the ledger, in the Agent's memory, in the queue and in the
worker, agree while the ledger is healthy.

- `AgreementHolds`: `Spec => []LInv`, the strengthened invariant.
- `LocksAgree` (`InterlockMatchesLedger`), `LocksCoverUnknown`
  (`InterlockCoversUnknown`), `OpenRowsHaveWork` (`OpenRowsAreTracked`),
  `RevisionsAreDurable` (`RevisionIsDurable`), `UnknownIsKept`
  (`UnknownUntilSettled`).

*The argument.* Rows and interlock are changed together when the Agent takes a
result, but the result was published earlier, by a worker that has moved on. So
the invariant says of each queued result what is still true of its command:
`ResultsMakeSense` (after a certain result the worker knows of no more work, and
a `running` one is about a row that has seen nothing else), `RunningComesFirst`
and `RunningIsFollowed` (an open row loses its last trace only with the result
that closes it), `UnknownIsNoted` (an unknown command has its row or its
`timed_out` result). The delicate step is an acknowledgement: it resolves every
unknown row of its module, those included that became unknown after the worker
granted it. `GrantsPrecedeUnknown` says that for each of those the `timed_out`
result stands behind the grant, so that the lock comes back with it. Revisions
need `RevisionsAscend`: from the Agent's over the queue's to the worker's they
never go down, and a snapshot, which carries a revision without a row, comes
first in the queue and brings what the Agent has read from the ledger.

`AuditSpoolProofs` proves, for every set of events and every bound, under
`SpoolAssumption`:

- `SpoolTypeCorrect`, `OneRow` (`OneRowEach`), `InOrder` (`SignalsAscend`);
- `NothingHeldIsLost` (`HeldStaysHeld`): what is a readable line of the file, or
  has had a row, stays so;
- `AcceptedIsDurable`: until an append is cut short, an accepted event is held.
  Section 7 says why the condition is needed.

*The argument.* The file goes with its last line, so all its lines must be in
the table by then: `DrainedAreRecorded` says that of the lines the writer has
read, and `OffsetIsInFile` that there is always one left while it drains. An
append may replace an unfinished line, which is the last one and not yet read,
so both survive it. `SignalsAreRows` bounds the identifiers in the queue by the
table, so the next one is larger. `WholeLines` carries the condition that
nothing was cut short. `DrainLine` is the one step that takes something away; a
lemma says of all others that the file and the table only grow.

`CriticalDeliveryProofs` proves, for every set of events, every size of a page,
every capacity and every bound, under `SpoolAssumption` and `DeliveryAssumption`:

- `DeliveryInvariance`: `Spec => []Delivered`, where `Delivered` is `Base` (types, and
  who talks to whom) and, as long as no session was misled, `DInv`; and
  `DeliveryTypeCorrect`;
- `NoGapEver` (`NoGap`): until a session is misled, the client's cursor never passes
  an event of the present database that the operator has not seen;
- `OrderIsKept`: until then (`~misled => InFlightAscends`), events are on their way
  to the screen in the order of their rows, and none that the cursor has passed is
  on its way again;
- `NothingSkippedWithRoom` (`NothingSkipped`): in the behaviours `HasRoom`, in which
  the writer's queue never overflows, and until a session is misled, whatever the
  Agent has marked as sent to a client was rendered or is on its way.

*What a failed read does.* A session is misled when a read of the replay fails where
the session does not know that rows are left: behind its hello, or at the bounds,
which are forgotten. From then on the code itself skips rows (section 7), so the
condition cannot be dropped from `NoGap` and `NothingSkipped`; `InFlightAscends`,
which skipped rows do not disturb, is checked without it by `delivery_reconnect` and
proved with it, because the argument goes through `DInv`. A page that fails while
a client is being paged needs no exemption: the session still holds broadcasts
back (`UnreadPageIsSafe`).

*The argument.* The cursor is moved by the last of four queues: the socket, the
client's inbox, the items the window holds, the acknowledgements. A position is
safe (`Safe`) when nothing up to it is unseen. `CursorIsSafe` and `FramesAreSafe`
say so of the cursor, of the acknowledgements and of what the client has sent;
`GuiIsCovered`, `InboxIsCovered` and `SentIsCovered` say of every item on its way
that whatever is unseen up to it is in front of it, in its queue or in a later
one. So an item that is rendered makes its own position safe. What puts items in
is the Agent. A page takes every row after `through`, in order (`IsPage`), and a
page is asked for from a safe position; a broadcast happens only when nothing
else is left between (`Broadcasts`: what was sent is under way, and the Agent
will hear of the rest). That it hears in order is `SignalsAscend` of the audit
writer; that is why the module stands on `AuditSpoolProofs`. What takes items
away without showing them is the client: at a repetition, which must be one
(`PendingIsCovered`), and at a hello whose high water lies behind its cursor, where
it empties its queues. `HellosAreSound` carries that case: either the hello knows
of everything under way in front of it, or only hellos follow and the Agent waits
for an acknowledgement of what is dropped, so nothing can overtake it. This is the
situation section 7 describes: delivery may stop there, but the cursor passes
nothing. After `ReplaceDatabase` everything is of another epoch, and every
conjunct speaks of the present one only.

*The order* needs a second invariant, `Order`, proved with the help of `DInv`. What
a page or a broadcast adds lies behind `through`, and `through` behind everything in
flight (`SentThrough`); but that a client is not sent what its cursor has passed
holds only because its hello carries that cursor and is answered before anything
else (`AsksForCursor`), and because the Agent does not take the cursor for one of
another table. It would do that for a cursor ahead of the last row, and would then
send again whatever lies before it: nothing, because a cursor was the identifier of
a row, and retention deletes a row only with those before it (`Anchored`). Rendered
events lie before those in flight and were sent (`AcksPrecede`, `AcksAreSent`), so
neither an acknowledgement nor a hello moves the cursor past one.

*Nothing skipped* holds of all steps but `Overflow`, by a third invariant,
`Complete`. The client loses what is under way only at a hello whose high water lies
behind its cursor, so the hellos must know what is in front of them
(`HellosAreCurrent`). The answer to a client's hello reads the table; the other
hello in the middle of a session announces that the writer has stopped, and a
writer that has stopped records nothing more (`StatusesEnd`), so that by then the
Agent has heard of every row (`HighIsCurrent`). The hello of an overflow is sent
while the writer still records, and may be older than a page: that is the case of
section 7, and the only one the theorem excludes.

`OwnerHandoffProofs` proves, for any number of Agents, generations and markers,
under `HandoffAssumption`:

- `HandoffTypeCorrect`, `Invariance`;
- `Exclusive` (`NoDoubleOwner`), `Recoverable` (`HolderCanRecover`),
  `NeverHeldAgain` (`RevokedStaysRevoked`), `ConsumedOnce` (`MarkerUsedOnce`).

*The argument.* An Agent reads state and marker before it takes the lock, so what
it holds in its hands when it writes is old. It is true nevertheless, because a
marker is prepared only while no Agent runs: between the reading and the writing
nobody can have put another one there. The invariant says so: Agents that have
passed the reading agree with the files, and with one another, on the
generation; the token of the marker that lies there is unspent; invalidated
generations lie behind the state's. Only the holder of the lock may be anywhere
from the write on; and where a call of launchctl may still load the Hub's units,
the previous supervisor is not there.

`LaunchdCommandsProofs` proves, for every list of units and every bound, under
`LaunchdAssumption`:

- `LaunchdTypeCorrect`, `Invariance`;
- `CertainFailure` (`CertainFailureChangedNothing`), `NobodyElseCalls`
  (`NoStrayCall`), `SuccessIsKept` (`SuccessLasts`), `RestartIsReal`
  (`RestartReplaces`), `OthersAreSpared` (`OnlyOwnJobs`), `SeenAfterwards`
  (`JudgedAfterwards`).

*The argument.* A command is judged by a look that is over before the verdict;
what it saw must still be so. `Alone` says that nobody can disturb it: no call is
retiring while a command goes on, nor when the worker would let one through,
which holds because a change is noted as an attempt before, or in the same step
in which, it can take effect (`Attended`, `Noted`), an attempt makes a failure
uncertain, an uncertain failure blocks the module, and an acknowledgement waits
for what is retiring. `Known`, `Renewed` and `Recent` then say that what the
probe has seen of a unit since the last call is so still, unless people have
changed it; with it the verdict is true and remains so. What the plan contains
plays no part so far: these proofs never expand `Plan`, so they hold for any
sequence of calls.

`OthersAreSpared` does depend on the plan, and has an invariant of its own on top
(`Aimed`). `PlanDirected` says that a plan calls nothing but units the command is
for, in whatever order they are configured; that the positions `Picked` takes
exist is the counting argument of `RankHits`. `Directed` keeps it for the calls
left and for the one that runs. `Vetted` says that each of these units is ours,
absent, or changed since by hand, from the end of the preflight (`Proceeds` and
`Known`) to the last call: a call keeps it so (`OutcomesOwn`), and no other
command's call is out (`Alone`). `Harmless` says it for a call that outlives its
command, until it is done or another command looks. One case is exempt everywhere
(`gap`): a deadline between the fork of a call and its signal, see section 7.

`UploadSupervisorProofs` proves, for every configuration that `read_config`
accepts, every set of process identifiers, every window and every list of delays,
under `SupervisorAssumption`:

- `SupervisorInvariance`: `Spec => []UInv`, and `SupervisorTypeCorrect`;
- `NothingIsForgotten` (`NothingForgotten`), `NoDuplicateWriters`
  (`WritersExclusive`), `CompletionIsEarned` (`CompletionEarned`),
  `RestartsAreLimited` (`RateLimited`), `RecordedRunsAreFinal`
  (`RecordedIsFinal`), `ReadinessIsEarned` (`ReadyIsEarned`).

*The argument.* An identifier is used again as soon as it is free, so the invariant
says of each one whose it is: what the supervisor holds under a worker's name is
that worker's process, is not free and no orphan (`OwnsItsProcesses`), and whatever
else is not free is an orphan (`OthersAreOrphans`). Reaping one worker and
launching it then disturbs no other (`ReapedAlone`), and two processes of enabled
workers have different names, which `read_config` keeps out of one overlap. A
process that has exited with zero has earned the key it was launched for
(`ZeroIsEarned`), so what is completed is earned; what the file records, a living
supervisor has completed (`SavedIsKnown`), except under the names of runs by hand,
which no daily run is due for. A health file says of a worker that it has succeeded
since its launch only if its own process, or an orphan of its own, has reported, or
if the file names another process (`SuccessIsOwn`). The limit on restarts is about
two lists of ages. Seen from the newest, every launch has an exit that is not older
(`Leads`), and between a launch and the next exit every launch but the last has one
(`Lags`); ages of both lists grow and are dropped together. So a burst shorter than
`Burst` leaves room for one more launch, and a longer one puts the worker off until
every earlier launch is forgotten (`Rated`). The delays before that play no part.

`HealthAlertsProofs` proves, for any number of sources and reasons and every
interval with `Retry <= Confirm <= Repeat`, under `AlertAssumption`:

- `AlertsInvariance`: `Spec => []AInv`, and `AlertsTypeCorrect`;
- `AlertIsEarned` (`AlertEarned`), `AlertsKeepDistance` (`AlertsSpaced`),
  `RecoveryIsEarned` (`RecoveryEarned`).

*The argument.* The code decides by the ages an incident carries, the properties
speak of what has happened; the invariant ties each age to the history. An
incident of today that nobody was told of is no older than the problem, and one
that somebody was told of was told today (`Earns`). The last alert is known to the
process, and to the file unless it is unsaved (`Tells`); a start that cannot read
the file forgets it, and the history with it, which is the exemption that
`AlertsSpaced` names. The last attempt is known
as long as its incident lasts; a later incident of the source is younger than the
attempt, or the attempt is older than `Retry`, and as it must be confirmed first
and `Retry <= Confirm`, it is not attempted too early either (`Spaces`). Good
observations that are counted were made (`Recovering`). Because a crash replaces
the process's incidents by those of the file, all this is kept for both; the save
in front of each message is what keeps the last attempt in the file, and `_load`,
which drops what nobody was told of, what makes the confirmation start afresh.

*Only model-checked:* liveness (`EveryCommandSettles`, `AcceptedIsRecorded`,
`AgentComesBack`, `AcceptedIsSeen`, `Recovers`, `ClosedPipeStops`), which is
beyond the prover.

## 7. Where code and documents disagree

`delivery_overflow` is expected to fail, and `PROJECT.json` quotes the lines. A
full queue repeats a hello with a high water that may be older than what the
client has acknowledged from a page read since; the client takes that for a
rolled-back database and drops what it holds, while the Agent counts it as sent
and waits.

Noticed while modelling, and not the subject of a run:

*Control plane and audit*
- The documents call `expected_revision` optimistic concurrency control
  (`docs/06:53`, `docs/02:172`). It is compared with a cached revision at
  acceptance (`HubAgent.cpp:861`), so two changes accepted at the same revision
  both run, the second at a revision its client never saw.
- After an append that was cut short the next one writes its event behind the
  unfinished line and reports success (`AuditWriter.cpp:353`); the event is then
  in no readable line. `AcceptedIsDurable` therefore ends with the first torn
  append.
- An append that fails or dies before its first byte leaves an empty emergency
  file, with which `initialize` fails on every start (`AuditWriter.cpp:140`).
  `AgentComesBack` exempts that file and nothing else.
- A read of the replay that fails is reported to the client, and the connection
  goes on (`HubAgent.cpp:1176-1181`, `1193-1197`). Behind a hello
  `criticalReplayActive` is still false then, so the next broadcast marks as sent
  every row up to its own, and its acknowledgement moves the client's durable
  cursor over rows nobody was shown: the jump "over an older undelivered ID" that
  `HubAgent.cpp:1217-1219` says can never happen. `NoGap` and `NothingSkipped` exempt what
  follows (`misled`); without the exemption `delivery_reconnect` fails at both. While a
  client is being paged the flag stays true, nothing asks for the page again, and
  delivery waits for a reconnect; `AcceptedIsSeen` exempts it.
- The comment in `AuditWriter::close` says that startup replays the file before
  control is enabled, where `readyChanged(true)` precedes the queued drain.
- `docs/08:21` says critical events are delivered only when persisted, where the
  fallback broadcasts with `audit_persisted=false`.
- `acknowledge_uncertain` resumes the adapters (`ModuleWorker.cpp:1079`), which
  restarts an engine the operator had stopped.

*Lifecycle*
- A deadline between the fork of launchctl and `QProcess::started` is reported as
  a certain failure, without an interlock, while the call may still act
  (`docs/10:154` calls a timeout an unknown outcome). Such a call can then meet
  the next command's units. The properties of `LaunchdCommands` exempt it (`gap`).
- A launchctl that cannot be executed hangs its step until the deadline, as
  `errorOccurred` is not connected.

*Handoff*
- An Agent that dies between the commit of the state and the removal of the
  marker leaves a fresh marker: if the state is invalidated within the marker's
  fifteen minutes, the same generation can be activated again (`docs/10:10,25`).
  `RevokedStaysRevoked` exempts it (`torn`).
- A failed activation frees the lock and then removes the state file
  (`LifecycleController.cpp:332-333`), which may by then be another Agent's, and
  with it the history of generations. `HolderCanRecover` exempts it (`erased`).

*Upload supervisor*
- Running a disabled worker by hand puts it beside the enabled worker of the same
  quotes, and a killed supervisor's orphans beside the next one's workers;
  `WritersExclusive` exempts both.
- Running a daily worker by hand records its name and not the day, so that it runs
  once more when it is due.
- An orphan's success in a health file, with a heartbeat of the new process, makes
  a worker look ready (`haunted` in `ReadyIsEarned`).
- `stop_worker` does not end descendants once the leader of their group is gone;
  a full queue drops a command without an answer.

*Health monitor*
- A save that raises ends the tick: observations not yet gone through are not
  counted, and a disk that cannot be written silences all alerts.
- A file that cannot be read or parsed is passed over (`_load`, lines 291-292): the
  incidents are forgotten, and one that a person was told of is told again after the
  grace of a start and its confirmation, 180 seconds, where the alert itself says
  that repetitions are at least six minutes apart. `AlertsSpaced` exempts alerts
  before such a start.
- A death between a message and the save tells a person the same again; so does a
  lost answer of PushPlus, half a minute later. A recovery message that fails is
  not tried again.

## 8. What is not modelled

Each component's note in `PROJECT.json` says why. In short: parsing, framing,
layout, market arithmetic and scraping are data; helpers wrap vendor SDKs;
earlier versions of the hub, SDK ports and research scripts are not the running
system; the components of steps 8 to 10 of the plan are still to come.

Of the modelled components the following is left out: redaction and byte limits of
the audit; the shaping of snapshots and the schedules of engines in the worker;
managed groups in the lifecycle controller; commands, approvals and telemetry in the
client; a second client; the three ways in which the Agent restarts the upload
supervisor; the monitor's once-a-day reports and the keys of its earlier version;
`install.sh` and `rollback.sh`.

By lines the models cover little of the repository. Its control logic, the hub, is
C++; most of the Python beside it (some 120,000 lines) are ports of vendors' SDK
protocols, collectors that read one vendor's format each, numeric studies of single
trading days, and the same upload scripts once more in every earlier version of
the hub. There is nothing in them that changes state against another actor, and so
nothing a state machine would say that reading them does not. The Python that does
coordinate processes, files and people (the supervisor, the handoff tool, the
health monitor) is modelled.
