-------------------------- MODULE UploadSupervisor --------------------------
(***************************************************************************)
(* The supervisor of the Upload component (components/upload/supervisor.py)*)
(* with the worker processes it owns, the files they share with it, and    *)
(* the Agent that starts it and writes to its standard input               *)
(* (UploadBusinessComponent.cpp).                                          *)
(*                                                                         *)
(* A pass of Supervisor.run takes commands, visits every worker in the     *)
(* order of the configuration and publishes a status.  Workers end, write  *)
(* their health files and reuse process identifiers at any moment, and the *)
(* supervisor may be killed between any two steps: its workers have their  *)
(* own sessions and live on, as orphans.                                   *)
(***************************************************************************)
EXTENDS Naturals, Sequences, FiniteSets, FiniteSetsExt, SequencesExt

CONSTANTS
    Workers,      \* ALLOW: the worker ids
    Data,         \* data_ids: a status needs their acknowledgements
    Overlaps,     \* sets of ids that upload the same quotes
    Configs,      \* what the configuration file may hold when it is read
    Clocks,       \* daily_at, as parts of a day
    Pids,         \* process identifiers, which the system reuses
    Collecting,   \* the parts of a day in which collection is expected
    LastPart,     \* bound: a day has the parts 0 .. LastPart
    Days,         \* bound: the days of the calendar
    Weekend,      \* the days that are not working days
    Window,       \* bound: the 300 s of the restart limit, in ticks
    Delays,       \* bound: the 2, 4 and 8 s after the first exits of a burst
    QueueMax,     \* bound: the queue's maxsize of 128
    MaxCommands,  \* bound: how many commands the Agent writes
    MaxRuns       \* bound: how often the supervisor is started

\* Every worker but the daily and the once ones runs all the time.
Config == [order : Seq(Workers), disabled : SUBSET Workers, daily : SUBSET Workers,
           once : SUBSET Workers]
NoConfig == [order |-> <<>>, disabled |-> {}, daily |-> {}, once |-> {}]

\* read_config: no id twice, and no two enabled writers of the same quotes.
Accepted(c) ==
    /\ c \in Config
    /\ IsInjective(c.order)
    /\ UNION {c.disabled, c.daily, c.once} \subseteq ToSet(c.order)
    /\ \A o \in Overlaps : Cardinality(o \intersect (ToSet(c.order) \ c.disabled)) <= 1

ASSUME SupervisorAssumption ==
    /\ \A c \in Configs : Accepted(c)
    /\ Data \subseteq Workers
    /\ 0 \notin Pids /\ Pids \subseteq Nat
    /\ {LastPart, QueueMax, MaxCommands, MaxRuns} \subseteq Nat
    /\ {Window, Days} \subseteq Nat \ {0} /\ Delays \in Seq(Nat)
    /\ Clocks \subseteq 1 .. LastPart /\ Collecting \subseteq 0 .. LastPart

VARIABLES
    sup,        \* where Supervisor.run is, "down" when there is no supervisor
    config,     \* self.cfg
    at,         \* the worker of the configuration that the pass is at
    stopping,   \* self.stopping
    events,     \* self.events
    procs,      \* self.procs: the process identifier, 0 for none
    key,        \* the schedule_key of that process
    state,      \* self.states
    attempts,   \* self.restarts: the ages of the exits, below Window
    wait,       \* self.next_start, as the time that is left
    completed,  \* self.completed
    saved,      \* component-schedule.json
    claim,      \* what the status of the pass that has just ended says
    proc,       \* the processes: whose they are and how they are
    health,     \* the health file of each data worker
    part, day,  \* the wall clock
    sent, runs, \* bounds: commands written, supervisors started
    orphans,    \* history: processes whose supervisor was killed
    haunted,    \* history: workers with an orphan when this supervisor began
    earned,     \* history: the keys whose process has exited with zero
    acked,      \* history: workers whose process recorded a success itself
    relaunched  \* history: ages of the launches that followed an exit

memory == <<config, procs, key, state, attempts, wait, completed>>
control == <<sup, at, stopping, events, claim>>
files == <<saved, health>>
clock == <<part, day>>
history == <<orphans, haunted, earned, acked, relaunched>>
vars == <<control, memory, files, proc, clock, sent, runs, history>>

-----------------------------------------------------------------------------
(* Data.                                                                   *)

Configured == ToSet(config.order)
Enabled == Configured \ config.disabled
Scheduled(n) == n \in config.once \union config.daily

NameKey(n) == [job |-> n, day |-> 0, part |-> 0]
DayKey(n, d, c) == [job |-> n, day |-> d, part |-> c]
Keys == [job : Workers, day : 0 .. Days, part : 0 .. LastPart]

FreePid == [job |-> "", life |-> "free"]
NoFile == [pid |-> 0, ok |-> FALSE, since |-> {}]
Restart(n) == [action |-> "restart", job |-> n]
Stop == [action |-> "stop", job |-> ""]

Running(p) == proc[p].life = "running"

\* due: the keys for which worker n should be launched now, at most one.
Due(n) ==
    LET open == {c \in Clocks : c <= part /\ DayKey(n, day, c) \notin completed}
    IN IF n \in config.daily
       THEN {DayKey(n, day, Min(open)) : c \in IF day \in Weekend THEN {} ELSE open}
       ELSE {NameKey(n)} \ (IF n \in config.once THEN completed ELSE {})

\* Mutant: every start is put off by the same time.
FixedDelay(k) == 1

\* The exits that make a burst.
Burst == Len(Delays) + 1

\* How long the next start is put off after the k-th exit of a burst.
Backoff(k) == IF k >= Burst THEN Window ELSE Delays[k]

\* Ages, the oldest first, after a tick; those that reach Window are dropped.
Age(ages) ==
    LET gone == Max({0} \union {i \in DOMAIN ages : ages[i] + 1 >= Window})
    IN [i \in 1 .. Len(ages) - gone |-> ages[gone + i] + 1]

\* Mutant: an acknowledgement that the current process's file carries counts,
\* however old it is.
ValidByPid(n, m) == health[m].pid = procs[n] /\ health[m].ok

\* business_readiness: file m names worker n's process, and its last success is
\* not older than that process.
Valid(n, m) == health[m].pid = procs[n] /\ health[m].ok /\ n \in health[m].since

Expected(n) == n \in Data /\ day \notin Weekend /\ part \in Collecting

\* Without a process identifier of its own a worker matches no file.  The
\* successes in stale are longer ago than NNN_UPLOAD_MONITOR_FRESHNESS.
Ready(stale) ==
    /\ Data \intersect Enabled # {}
    /\ \A n \in Enabled : state[n] \in {"running", "idle", "completed"}
    /\ \A n \in Enabled : Expected(n) =>
         procs[n] # 0 /\ \E m \in Data \ stale : Valid(n, m)

-----------------------------------------------------------------------------
(* Processes.                                                              *)

\* Mutant: the process is killed, and nobody waits for it.
ReapedNever(n) ==
    IF procs[n] = 0 THEN proc ELSE [proc EXCEPT ![procs[n]].life = "zombie"]

\* stop_worker: the processes after the one of worker n was ended and reaped.
Reaped(n) == IF procs[n] = 0 THEN proc ELSE [proc EXCEPT ![procs[n]] = FreePid]

\* launch: one of the free identifiers becomes the process of worker n.
Launch(n, k, others) ==
    \E p \in {q \in Pids : others[q].life = "free"} :
        /\ proc' = [others EXCEPT ![p] = [job |-> n, life |-> "running"]]
        /\ procs' = [procs EXCEPT ![n] = p]
        /\ key' = [key EXCEPT ![n] = k]
        /\ state' = [state EXCEPT ![n] = "running"]
        /\ health' = [m \in Data |-> [health[m] EXCEPT !.since = @ \ {n}]]
        /\ acked' = acked \ {n}

\* launch raises: the supervisor leaves run and shuts down.
LaunchFails(n, others) ==
    /\ sup' = "closing"
    /\ proc' = others
    /\ procs' = [procs EXCEPT ![n] = 0]
    /\ UNCHANGED <<key, health, acked>>

-----------------------------------------------------------------------------
(* What a supervisor that is not there keeps in memory: nothing.           *)
Empty == [n \in Workers |-> <<>>]
NoProcs == [n \in Workers |-> 0]
NoState == [n \in Workers |-> "unknown"]
NoKey == [n \in Workers |-> NameKey(n)]

Init ==
    /\ sup = "down" /\ at = 0 /\ stopping = FALSE /\ events = <<>> /\ claim = "none"
    /\ config = NoConfig
    /\ procs = NoProcs /\ key = NoKey /\ state = NoState
    /\ attempts = Empty /\ wait = NoProcs /\ completed = {} /\ saved = {}
    /\ proc = [p \in Pids |-> FreePid]
    /\ health = [n \in Data |-> NoFile]
    /\ part = 0 /\ day = 1 /\ sent = 0 /\ runs = 0
    /\ orphans = {} /\ haunted = {} /\ earned = {} /\ acked = {}
    /\ relaunched = Empty

\* The supervisor is gone, with its memory and component.lock.
Gone ==
    /\ sup' = "down" /\ at' = 0 /\ stopping' = FALSE /\ events' = <<>> /\ claim' = "none"
    /\ config' = NoConfig
    /\ procs' = NoProcs /\ key' = NoKey /\ state' = NoState
    /\ attempts' = Empty /\ wait' = NoProcs /\ completed' = {}
    /\ acked' = {} /\ haunted' = {} /\ relaunched' = Empty
    /\ UNCHANGED <<files, clock, sent, runs, earned>>

\* Mutant: the schedule is not read back.
StartAfresh ==
    /\ sup = "down" /\ runs < MaxRuns
    /\ sup' = "draining" /\ runs' = runs + 1
    /\ config' \in Configs
    /\ haunted' = {proc[p].job : p \in orphans}
    /\ UNCHANGED <<at, stopping, events, claim, procs, key, state, attempts, wait, completed,
                   files, proc, clock, sent, orphans, earned, acked, relaunched>>

\* The Agent starts the component: main takes component.lock and reads the
\* configuration, and Supervisor reads the schedule back.
Start ==
    /\ sup = "down" /\ runs < MaxRuns
    /\ sup' = "draining" /\ runs' = runs + 1
    /\ config' \in Configs
    /\ completed' = saved
    /\ haunted' = {proc[p].job : p \in orphans}
    /\ UNCHANGED <<at, stopping, events, claim, procs, key, state, attempts, wait, files, proc,
                   clock, sent, orphans, earned, acked, relaunched>>

\* submit and stop of UploadBusinessComponent write a line; the thread that
\* reads it drops it when the queue is full.
Write(cmd) ==
    /\ sup # "down" /\ ~stopping /\ sent < MaxCommands
    /\ sent' = sent + 1
    /\ events' = IF Len(events) < QueueMax THEN Append(events, cmd) ELSE events
    /\ UNCHANGED <<sup, at, stopping, claim, memory, files, proc, clock, runs, history>>

\* The pipe is closed, or the supervisor gets SIGTERM.
ClosePipe ==
    /\ sup # "down" /\ ~stopping
    /\ stopping' = TRUE
    /\ UNCHANGED <<sup, at, events, claim, memory, files, proc, clock, sent, runs, history>>

\* The supervisor is killed; its workers have sessions of their own.
Kill ==
    /\ sup # "down" /\ runs < MaxRuns
    /\ Gone
    /\ orphans' = orphans \union {p \in Pids : Running(p)}
    /\ proc' = [p \in Pids |-> IF Running(p) THEN proc[p] ELSE FreePid]

-----------------------------------------------------------------------------
(* Supervisor.run.                                                         *)

\* Mutant: the supervisor waits for its workers to end first.
LoopEndsIdle == stopping /\ \A n \in Workers : procs[n] = 0

LoopEnds == stopping

\* No command is left: the pass begins, or the loop ends.
BeginPass ==
    /\ sup = "draining" /\ (stopping \/ events = <<>>)
    /\ sup' = IF LoopEnds THEN "closing" ELSE "visiting"
    /\ at' = 1 /\ claim' = "none"
    /\ UNCHANGED <<stopping, events, memory, files, proc, clock, sent, runs, history>>

TakeStop ==
    /\ sup = "draining" /\ ~stopping /\ events # <<>> /\ Head(events) = Stop
    /\ stopping' = TRUE /\ sup' = "closing" /\ events' = Tail(events)
    /\ UNCHANGED <<at, claim, memory, files, proc, clock, sent, runs, history>>

\* A job that is not configured is answered and no more.
TakeUnknown ==
    /\ sup = "draining" /\ ~stopping /\ events # <<>>
    /\ Head(events) # Stop /\ Head(events).job \notin Configured
    /\ events' = Tail(events)
    /\ UNCHANGED <<sup, at, stopping, claim, memory, files, proc, clock, sent, runs, history>>

\* Mutant: the process that is replaced is not stopped.
RestartBeside ==
    /\ sup = "draining" /\ ~stopping /\ events # <<>> /\ Head(events).job \in Configured
    /\ events' = Tail(events)
    /\ LET n == Head(events).job IN
       /\ attempts' = [attempts EXCEPT ![n] = <<>>]
       /\ relaunched' = [relaunched EXCEPT ![n] = <<>>]
       /\ wait' = [wait EXCEPT ![n] = 0]
       /\ completed' = completed \ {NameKey(n)}
       /\ Launch(n, NameKey(n), proc) /\ sup' = sup
    /\ UNCHANGED <<at, stopping, claim, config, saved, clock, sent, runs, orphans, haunted,
                   earned>>

\* A worker is run again by hand, whether or not it is enabled.  The process
\* gets no schedule_key, for which its name stands in.
TakeRestart ==
    /\ sup = "draining" /\ ~stopping /\ events # <<>> /\ Head(events).job \in Configured
    /\ events' = Tail(events)
    /\ LET n == Head(events).job IN
       /\ attempts' = [attempts EXCEPT ![n] = <<>>]
       /\ relaunched' = [relaunched EXCEPT ![n] = <<>>]
       /\ wait' = [wait EXCEPT ![n] = 0]
       /\ completed' = completed \ {NameKey(n)}
       /\ \/ Launch(n, NameKey(n), Reaped(n)) /\ sup' = sup
          \/ /\ LaunchFails(n, Reaped(n))
             /\ state' = [state EXCEPT ![n] = IF procs[n] = 0 THEN @ ELSE "stopped"]
    /\ UNCHANGED <<at, stopping, claim, config, saved, clock, sent, runs, orphans, haunted,
                   earned>>

\* The pass is at worker n.
Visiting(n) == sup = "visiting" /\ at \in DOMAIN config.order /\ n = config.order[at]
Exited(n) == procs[n] # 0 /\ ~Running(procs[n])

\* Mutant: a fault is latched.
PutOffInFault(n) == wait[n] > 0 \/ state[n] = "fault"

\* Before self.next_start.
PutOff(n) == wait[n] > 0

VisitDisabled(n) ==
    /\ Visiting(n) /\ n \in config.disabled
    /\ state' = [state EXCEPT ![n] = "disabled"]
    /\ at' = at + 1
    /\ UNCHANGED <<sup, stopping, events, claim, config, procs, key, attempts, wait, completed,
                   files, proc, clock, sent, runs, history>>

\* Nothing to do: the process runs, or its next start is put off.
VisitBusy(n) ==
    /\ Visiting(n) /\ n \in Enabled
    /\ IF procs[n] = 0 THEN PutOff(n) ELSE Running(procs[n])
    /\ at' = at + 1
    /\ UNCHANGED <<sup, stopping, events, claim, memory, files, proc, clock, sent, runs,
                   history>>

\* Mutant: a run is recorded for what is due when it ends.
CompletesLate(n) == completed \union Due(n)

\* The key that was captured when the process was launched.
Completes(n) == completed \union {key[n]}

\* A scheduled worker has succeeded; the file is written in the next step.
VisitCompleted(n) ==
    /\ Visiting(n) /\ n \in Enabled /\ Exited(n)
    /\ Scheduled(n) /\ proc[procs[n]].life = "zero"
    /\ sup' = "saving"
    /\ proc' = Reaped(n)
    /\ procs' = [procs EXCEPT ![n] = 0] /\ key' = [key EXCEPT ![n] = NameKey(n)]
    /\ completed' = Completes(n)
    /\ state' = [state EXCEPT ![n] = "completed"]
    /\ UNCHANGED <<at, stopping, events, claim, config, attempts, wait, files, clock, sent, runs,
                   history>>

\* atomic_json, after which the same worker is looked at again.
Save ==
    /\ sup = "saving"
    /\ sup' = "visiting"
    /\ saved' = completed
    /\ UNCHANGED <<at, stopping, events, claim, memory, health, proc, clock, sent, runs,
                   history>>

\* A file cannot be written: atomic_json raises, and run ends.
WriteFails ==
    /\ sup = "saving" \/ (sup = "visiting" /\ at > Len(config.order))
    /\ sup' = "closing"
    /\ UNCHANGED <<at, stopping, events, claim, memory, files, proc, clock, sent, runs, history>>

\* A worker has failed, or has ended although it should run for ever.
VisitFailed(n) ==
    /\ Visiting(n) /\ n \in Enabled /\ Exited(n)
    /\ ~(Scheduled(n) /\ proc[procs[n]].life = "zero")
    /\ proc' = Reaped(n)
    /\ procs' = [procs EXCEPT ![n] = 0]
    /\ attempts' = [attempts EXCEPT ![n] = Append(@, 0)]
    /\ wait' = [wait EXCEPT ![n] = Backoff(Len(attempts[n]) + 1)]
    /\ state' = [state EXCEPT ![n] =
                    IF Len(attempts[n]) + 1 >= Burst THEN "fault" ELSE "recovering"]
    /\ at' = at + 1
    /\ UNCHANGED <<sup, stopping, events, claim, config, key, completed, files, clock, sent, runs,
                   history>>

\* The worker is due and has no process.
VisitLaunches(n) ==
    /\ Visiting(n) /\ n \in Enabled /\ procs[n] = 0 /\ ~PutOff(n)
    /\ \E k \in Due(n) :
       \/ /\ Launch(n, k, proc)
          /\ at' = at + 1
          /\ relaunched' = IF state[n] \in {"recovering", "fault"}
                           THEN [relaunched EXCEPT ![n] = Append(@, 0)] ELSE relaunched
          /\ UNCHANGED sup
       \/ LaunchFails(n, proc) /\ UNCHANGED <<state, at, relaunched>>
    /\ UNCHANGED <<stopping, events, claim, config, attempts, wait, completed, saved, clock,
                   sent, runs, orphans, haunted, earned>>

VisitIdle(n) ==
    /\ Visiting(n) /\ n \in Enabled /\ procs[n] = 0 /\ ~PutOff(n) /\ Due(n) = {}
    /\ state' = [state EXCEPT ![n] = IF @ = "completed" THEN @ ELSE "idle"]
    /\ at' = at + 1
    /\ UNCHANGED <<sup, stopping, events, claim, config, procs, key, attempts, wait, completed,
                   files, proc, clock, sent, runs, history>>

\* The end of a pass: the status that the Agent shows.
Publish ==
    /\ sup = "visiting" /\ at > Len(config.order)
    /\ sup' = "draining" /\ at' = 0
    /\ \E stale \in SUBSET Data : claim' = IF Ready(stale) THEN "ready" ELSE "degraded"
    /\ UNCHANGED <<stopping, events, memory, files, proc, clock, sent, runs, history>>

\* Mutant: the supervisor ends the workers that its configuration enables.
ShutdownEnabled ==
    /\ sup = "closing"
    /\ Gone
    /\ LET owned == {procs[n] : n \in Enabled} IN
       proc' = [p \in Pids |-> IF p \in owned THEN FreePid ELSE proc[p]]
    /\ UNCHANGED orphans

\* shutdown: every process group is ended, and so is the supervisor.
Shutdown ==
    /\ sup = "closing"
    /\ Gone
    /\ LET owned == {procs[n] : n \in Workers} IN
       proc' = [p \in Pids |-> IF p \in owned THEN FreePid ELSE proc[p]]
    /\ UNCHANGED orphans

-----------------------------------------------------------------------------
(* The workers, the clocks.                                                *)

\* A process ends; an orphan is reaped by the system.  The exit code is looked
\* at only for scheduled workers.
Exit(p, life) ==
    /\ Running(p)
    /\ life = "zero" => p \notin orphans /\ Scheduled(proc[p].job)
    /\ proc' = [proc EXCEPT ![p] = IF p \in orphans THEN FreePid ELSE [@ EXCEPT !.life = life]]
    /\ orphans' = orphans \ {p}
    /\ earned' = IF p \notin orphans /\ life = "zero" /\ procs[proc[p].job] = p
                 THEN earned \union {key[proc[p].job]} ELSE earned
    /\ UNCHANGED <<control, memory, files, clock, sent, runs, haunted, acked, relaunched>>

\* upload_monitor_status: a report is merged into the file of the worker.
Report(p, kind) ==
    /\ Running(p) /\ proc[p].job \in Data
    /\ LET n == proc[p].job
           merged == [health[n] EXCEPT !.pid = p, !.ok = kind # "failure"]
       IN /\ health' = [health EXCEPT ![n] =
                IF kind = "success" THEN [merged EXCEPT !.since = Data] ELSE merged]
          /\ acked' = IF kind = "success" /\ procs[n] = p THEN acked \union {n} ELSE acked
    /\ UNCHANGED <<control, memory, saved, proc, clock, sent, runs, orphans, haunted, earned,
                   relaunched>>

\* time.monotonic advances.  Both clocks are read once, before a pass takes its
\* commands, so that they need to advance only between two passes.
Tick ==
    /\ sup = "draining"
    /\ \E n \in Workers : wait[n] > 0 \/ attempts[n] # <<>> \/ relaunched[n] # <<>>
    /\ wait' = [n \in Workers |-> IF wait[n] = 0 THEN 0 ELSE wait[n] - 1]
    /\ attempts' = [n \in Workers |-> Age(attempts[n])]
    /\ relaunched' = [n \in Workers |-> Age(relaunched[n])]
    /\ UNCHANGED <<control, config, procs, key, state, completed, files, proc, clock, sent, runs,
                   orphans, haunted, earned, acked>>

\* The wall clock advances.
NextPart ==
    /\ sup \in {"draining", "down"}
    /\ part < LastPart \/ day < Days
    /\ part' = IF part < LastPart THEN part + 1 ELSE 0
    /\ day' = IF part < LastPart THEN day ELSE day + 1
    /\ UNCHANGED <<control, memory, files, proc, sent, runs, history>>

Step(n) ==
    \/ VisitDisabled(n) \/ VisitBusy(n) \/ VisitCompleted(n) \/ VisitFailed(n)
    \/ VisitLaunches(n) \/ VisitIdle(n)
Supervise ==
    BeginPass \/ TakeStop \/ TakeUnknown \/ TakeRestart \/ Save \/ WriteFails \/ Publish
        \/ Shutdown \/ \E n \in Workers : Step(n)
Agent == Start \/ ClosePipe \/ Write(Stop) \/ \E n \in Workers : Write(Restart(n))
World ==
    \/ Kill \/ NextPart
    \/ \E p \in Pids : \E life \in {"zero", "failed"} : Exit(p, life)
    \/ \E p \in Pids : \E kind \in {"success", "failure", "heartbeat"} : Report(p, kind)

Next == Supervise \/ Agent \/ World \/ Tick

\* The loop does not stop of itself, and time passes.
Spec == Init /\ [][Next]_vars /\ WF_vars(Supervise) /\ SF_vars(Tick)
-----------------------------------------------------------------------------
(* Properties.                                                             *)

\* Every variable stays in its domain.
TypeOK ==
    /\ sup \in {"down", "draining", "visiting", "saving", "closing"}
    /\ config \in Configs \union {NoConfig}
    /\ at \in 0 .. Len(config.order) + 1 /\ stopping \in BOOLEAN
    /\ events \in Seq([action : {"restart"}, job : Workers] \union {Stop})
    /\ Len(events) <= QueueMax
    /\ procs \in [Workers -> Pids \union {0}] /\ key \in [Workers -> Keys]
    /\ state \in [Workers -> {"unknown", "running", "stopped", "disabled", "completed",
                              "fault", "recovering", "idle"}]
    /\ attempts \in [Workers -> Seq(0 .. Window)] /\ relaunched \in [Workers -> Seq(0 .. Window)]
    /\ wait \in [Workers -> Nat]
    /\ completed \subseteq Keys /\ saved \subseteq Keys /\ earned \subseteq Keys
    /\ claim \in {"none", "ready", "degraded"}
    /\ proc \in [Pids -> [job : Workers, life : {"running", "zero", "failed"}] \union {FreePid}]
    /\ health \in [Data -> [pid : Pids \union {0}, ok : BOOLEAN, since : SUBSET Data]]
    /\ part \in 0 .. LastPart /\ day \in Nat /\ sent \in Nat /\ runs \in Nat
    /\ orphans \subseteq Pids /\ haunted \subseteq Workers /\ acked \subseteq Workers

\* A process that runs is known to the supervisor under its worker's name, or
\* lost its supervisor to a kill: no restart, exit or shutdown leaves one
\* behind ("stops the complete process group of every owned worker").
NothingForgotten ==
    \A p \in Pids : Running(p) => p \in orphans \/ procs[proc[p].job] = p

\* "never run duplicate upload writers": two processes that upload the same
\* quotes run side by side only if one survived a killed supervisor or belongs
\* to a disabled worker that was run by hand.
SameQuotes(n, m) == n = m \/ \E o \in Overlaps : {n, m} \subseteq o
WritersExclusive ==
    \A p, q \in Pids :
        p # q /\ Running(p) /\ Running(q) /\ SameQuotes(proc[p].job, proc[q].job)
            => {p, q} \intersect orphans # {}
               \/ {proc[p].job, proc[q].job} \intersect config.disabled # {}

\* component-schedule.json holds a run only if the process that was launched
\* for that very worker, day and time has exited with zero, also when the run
\* crosses a later time or midnight, and when the supervisor dies around it.
CompletionEarned == saved \union completed \subseteq earned

\* "Rate-limit a crash burst": between two runs by hand no worker is relaunched
\* after an exit more than Burst times within the window.
RateLimited == \A n \in Workers : Len(relaunched[n]) <= Burst

\* A daily run that the file records is never launched again, not even by
\* another supervisor.
RecordedIsFinal ==
    [][\A n \in config.daily :
         procs'[n] \notin {0, procs[n]} => key'[n] \notin saved \/ key'[n] = NameKey(n)]_vars

\* A status says ready only when every worker that should be collecting has
\* itself uploaded since it was launched: not on the word of a file that an
\* earlier process left and the present one has merged a heartbeat into.
ReadyIsEarned ==
    [][sup = "visiting" /\ sup' = "draining" /\ claim' = "ready" =>
         \A n \in Enabled : Expected(n) => n \in acked \union haunted]_vars

\* "never latch it forever": a worker that should run all the time runs again
\* and again, unless the supervisor itself ends.
Recovers ==
    \A n \in Workers :
        []<>(n \in Enabled /\ ~Scheduled(n) => procs[n] # 0 /\ Running(procs[n]))

\* "A closed parent pipe stops the complete process group of every owned
\* worker": the supervisor comes to its end, with NothingForgotten behind it.
ClosedPipeStops == stopping ~> sup = "down"
=============================================================================
