-------------------------- MODULE LaunchdCommands --------------------------
(***************************************************************************)
(* How LifecycleController carries out start_service, stop_service and     *)
(* restart_service on the launchd units of a module, step by step: it      *)
(* probes the units, plans launchctl calls from what it has seen, runs     *)
(* them one after the other and probes again.                              *)
(*                                                                         *)
(* launchd, and people at the machine, change the units meanwhile; a call  *)
(* whose command has passed its deadline may still do its work.  What the  *)
(* worker does with a verdict (ModuleWorker.cpp) is here as its interlock; *)
(* HubControl has the rest of it, and OwnerHandoff has the lease.          *)
(***************************************************************************)
EXTENDS Naturals, Sequences, FiniteSets

CONSTANTS
    Order,         \* config_.launchdUnits, in the order of the configuration
    Required,      \* the units without which the module does not run
    Targets,       \* the units that a command may name as its only one
    Attempts,      \* bound: the 10 probes of a verification
    MaxCommands,   \* bound: commands
    MaxMeddling,   \* bound: changes by people at the machine
    All            \* no target: the command is for the whole module

Units == {Order[i] : i \in DOMAIN Order}
Actions == {"start_service", "stop_service", "restart_service"}

ASSUME LaunchdAssumption ==
    /\ Order \in Seq(Units) /\ Order # <<>>
    /\ Required \subseteq Units /\ Targets \subseteq Units /\ All \notin Units
    /\ {Attempts, MaxCommands, MaxMeddling} \subseteq Nat /\ Attempts > 0

VARIABLES
    job,        \* what launchd has for each unit
    phase,      \* where the command is
    cmd,        \* currentAction_ and currentTargetUnit_
    steps,      \* steps_
    child,      \* stepProcess_
    attempted,  \* externalMutationAttempted_
    failed,     \* commandFailed_
    tries,      \* verificationAttempts_
    probe,      \* whose probe is under way
    probed,     \* probeIndex_
    seen,       \* probeUnits_
    retiring,   \* retiringProcesses_: calls that nobody waits for
    verdict,    \* the last result
    blocked,    \* timedOutPending_ of the worker
    commands, meddling,   \* bounds
    meddled,    \* history: units changed by people since a command looked
    touched,    \* history: has a call of the command changed anything
    gap,        \* history: a verdict came between a fork and its signal
    wronged     \* history: a call has hit a job of somebody else

probing == <<probe, probed, seen>>
progress == <<steps, child, attempted, failed, tries>>
bounds == <<commands, meddling>>
history == <<meddled, touched, gap, wronged>>
vars == <<job, phase, cmd, progress, probing, retiring, verdict, blocked, bounds, history>>

-----------------------------------------------------------------------------
(* Data.                                                                   *)

\* A unit that is loaded is ours when program, arguments and artifacts are the
\* expected ones.  Its process is the one of the command's first look, or newer.
Job == [loaded : BOOLEAN, ours : BOOLEAN, run : {"no", "old", "new"}]
Absent == [loaded |-> FALSE, ours |-> FALSE, run |-> "no"]

Running(o) == o.loaded /\ o.ours /\ o.run # "no"

\* What a probe says of a unit; fresh tells that no call was left to be made.
Unseen == [auth |-> FALSE, loaded |-> FALSE, ours |-> FALSE, run |-> "no", fresh |-> FALSE]
NothingSeen == [u \in Units |-> Unseen]

NoCommand == [action |-> "", target |-> All]
NoVerdict == [state |-> "none", uncertain |-> FALSE]
NoChild == [step |-> <<>>, signalled |-> FALSE, life |-> "none"]

Step(op, u, tolerate) == [op |-> op, unit |-> u, tolerate |-> tolerate]

\* The units of set, in the order of the configuration.
Picked(set) ==
    LET at == {i \in DOMAIN Order : Order[i] \in set} IN
    [k \in 1 .. Cardinality(at) |->
        Order[CHOOSE i \in at : Cardinality({j \in at : j <= i}) = k]]

\* selectedLaunchdUnits, in order.
Selected == {u \in Units : cmd.target \in {All, u}}
SelectedOrder == Picked(Selected)

\* The units that the outcome of a start or restart depends on.
Needed == IF cmd.target = All THEN Required ELSE Selected

Init ==
    /\ job \in [Units -> {o \in Job : o = Absent \/ (o.loaded /\ o.run # "old")}]
    /\ phase = "idle" /\ cmd = NoCommand
    /\ steps = <<>> /\ child = NoChild /\ attempted = FALSE /\ failed = FALSE /\ tries = 0
    /\ probe = "none" /\ probed = 0 /\ seen = NothingSeen
    /\ retiring = {} /\ verdict = NoVerdict /\ blocked = FALSE
    /\ commands = 0 /\ meddling = 0
    /\ meddled = {} /\ touched = FALSE /\ gap = FALSE /\ wronged = FALSE

-----------------------------------------------------------------------------
(* launchd.                                                                *)

\* What call s makes of its unit, when it can do its work.
Changes(s) ==
    LET o == job[s.unit] IN
    CASE s.op = "bootout" /\ o.loaded -> {Absent}
      [] s.op = "bootstrap" /\ ~o.loaded ->
            {[loaded |-> TRUE, ours |-> TRUE, run |-> r] : r \in {"no", "new"}}
      [] s.op = "kickstart" /\ o.loaded -> {[o EXCEPT !.run = IF @ = "no" THEN "new" ELSE @]}
      [] s.op = "kickstart -k" /\ o.loaded -> {[o EXCEPT !.run = "new"]}
      [] s.op = "enable" -> {o}
      [] OTHER -> {}

\* It may also change nothing, and may say in either case that it went wrong.
Outcomes(s) == {[job |-> job[s.unit], ok |-> FALSE]} \union [job : Changes(s), ok : BOOLEAN]

\* The call takes place, with outcome result.
Performs(s, result) ==
    /\ job' = [job EXCEPT ![s.unit] = result.job]
    /\ touched' = (touched \/ job' # job)
    /\ wronged' = \/ wronged
                  \/ /\ s.op \in {"bootout", "kickstart -k"} /\ job' # job
                     /\ ~job[s.unit].ours /\ s.unit \notin meddled /\ ~gap

\* A process ends by itself, and launchd may start another one.
Exits(u) ==
    /\ job[u].run # "no"
    /\ \E r \in {"no", "new"} : job' = [job EXCEPT ![u].run = r]
    /\ UNCHANGED <<phase, cmd, progress, probing, retiring, verdict, blocked, bounds, history>>

\* People load and unload what they like.
Meddle(u) ==
    /\ meddling < MaxMeddling /\ meddling' = meddling + 1
    /\ \E o \in Job : o.run # "old" /\ (o.loaded \/ o = Absent) /\ job' = [job EXCEPT ![u] = o]
    /\ meddled' = meddled \union {u}
    /\ UNCHANGED <<phase, cmd, progress, probing, retiring, verdict, blocked, commands, touched,
                   gap, wronged>>

-----------------------------------------------------------------------------
(* Probes.                                                                 *)

\* Mutant: a probe that is under way is made use of.
AdoptProbe ==
    IF probe = "none" THEN probe' = "own" /\ probed' = 0 /\ seen' = NothingSeen
    ELSE probe' = "own" /\ UNCHANGED <<probed, seen>>

\* beginLaunchdProbe(true): a probe that is under way is replaced.
ReplaceProbe == probe' = "own" /\ probed' = 0 /\ seen' = NothingSeen

\* beginLaunchdProbe(false).
RefreshProbe == probe' = "refresh" /\ probed' = 0 /\ seen' = NothingSeen

\* The timer of refresh.
Refresh ==
    /\ probe = "none"
    /\ RefreshProbe
    /\ UNCHANGED <<job, phase, cmd, progress, retiring, verdict, blocked, bounds, history>>

\* launchctl print says what there is, or nothing that can be relied on.
Observations(u) ==
    LET o == job[u] IN
    {Unseen,
     [auth |-> TRUE, loaded |-> o.loaded, ours |-> o.ours,
      run |-> IF probe = "own" /\ phase = "preflight" /\ o.run = "new" THEN "old" ELSE o.run,
      fresh |-> phase \in {"verifying", "waiting"}]}

\* The unit that the probe is at, and whether it is the last one.
At(u) == probe # "none" /\ u = Order[probed + 1]
AtLast == probed + 1 = Len(Order)

Findings(u) == {[seen EXCEPT ![u] = o] : o \in Observations(u)}

\* A command looks at unit u; in a preflight its process becomes the old one.
Looks(u, found) ==
    IF probe = "own" /\ found[u].auth
    THEN job' = [job EXCEPT ![u].run = found[u].run] /\ meddled' = meddled \ {u}
    ELSE UNCHANGED <<job, meddled>>

ProbeNext ==
    /\ ~AtLast /\ probed' = probed + 1
    /\ \E u \in Units : At(u) /\ \E found \in Findings(u) : seen' = found /\ Looks(u, found)
    /\ UNCHANGED <<phase, cmd, progress, probe, retiring, verdict, blocked, bounds, touched, gap,
                   wronged>>

NoProbe == probe' = "none" /\ probed' = 0 /\ seen' = NothingSeen

\* What a refresh has seen is shown, and decides nothing.
RefreshEnds ==
    /\ probe = "refresh" /\ AtLast
    /\ NoProbe
    /\ UNCHANGED <<job, phase, cmd, progress, retiring, verdict, blocked, bounds, history>>

-----------------------------------------------------------------------------
(* A command.                                                              *)

\* execute: the worker lets it through, and the lease is held.
Execute(c) ==
    /\ phase = "idle" /\ ~blocked /\ commands < MaxCommands
    /\ commands' = commands + 1
    /\ phase' = "preflight" /\ cmd' = c
    /\ steps' = <<>> /\ child' = NoChild
    /\ attempted' = FALSE /\ failed' = FALSE /\ tries' = 0
    /\ verdict' = NoVerdict
    /\ ReplaceProbe
    /\ touched' = FALSE /\ gap' = (gap /\ retiring # {})
    /\ UNCHANGED <<job, retiring, blocked, meddling, meddled, wronged>>

\* finishCommand, with the refresh that follows and the interlock of the worker.
Finish(state, uncertain) ==
    /\ phase' = "idle"
    /\ verdict' = [state |-> state, uncertain |-> uncertain] /\ blocked' = uncertain
    /\ steps' = <<>> /\ child' = NoChild /\ attempted' = FALSE
    /\ probe' = "refresh" /\ probed' = 0 /\ seen' = NothingSeen
    /\ UNCHANGED <<failed, tries>>

Goes(place) ==
    /\ phase' = place
    /\ UNCHANGED <<verdict, blocked>>

\* Mutant: a loaded unit is not looked at more closely.
ProceedsUnverified(found) == \A u \in Selected : found[u].auth

\* validateMutationPreflight, but for the plists of units to be loaded.
Proceeds(found) ==
    \A u \in Selected :
        /\ found[u].auth
        /\ found[u].loaded => found[u].ours
        /\ ~found[u].loaded /\ cmd.action = "restart_service" =>
               u \notin Required /\ cmd.target = All

\* validatePlistIdentity is asked for these.
ToLoad(found) == {u \in Selected : cmd.action = "start_service" /\ ~found[u].loaded}

Backwards(s) == [i \in DOMAIN s |-> s[Len(s) + 1 - i]]

StartOps == <<"bootstrap", "enable", "kickstart">>

\* prepareLaunchdSteps, from what the preflight has seen.
Plan(found) ==
    LET loaded == Picked({u \in Selected : found[u].loaded})
        stops == Backwards(loaded)
    IN CASE cmd.action = "stop_service" ->
              [i \in DOMAIN stops |-> Step("bootout", stops[i], TRUE)]
         [] cmd.action = "restart_service" ->
              [i \in DOMAIN loaded |-> Step("kickstart -k", loaded[i], loaded[i] \notin Required)]
         [] OTHER ->
              [i \in 1 .. 3 * Len(SelectedOrder) |->
                 LET op == StartOps[((i - 1) % 3) + 1]
                     u == SelectedOrder[((i - 1) \div 3) + 1]
                 IN Step(op, u, op # "kickstart" \/ u \notin Required)]

\* startStep: the next call is forked, or the verification begins.
StartStep(left) ==
    IF left # <<>>
    THEN /\ Goes("stepping")
         /\ steps' = Tail(left)
         /\ child' = [step |-> Head(left), signalled |-> FALSE, life |-> "alive"]
    ELSE /\ Goes("verifying")
         /\ steps' = <<>> /\ child' = NoChild

\* What StartStep does to probes: beginLaunchdVerification begins one.
StepProbe(left) == IF left = <<>> THEN ReplaceProbe ELSE UNCHANGED probing

\* continueAfterPreflight, when the last unit has been looked at.
ContinueAfterPreflight ==
    /\ phase = "preflight" /\ probe = "own" /\ AtLast
    /\ \E u \in Units : At(u) /\ \E found \in Findings(u) :
         /\ Looks(u, found)
         /\ \/ /\ Proceeds(found)
               /\ StartStep(Plan(found))
               /\ IF Plan(found) = <<>> THEN ReplaceProbe ELSE NoProbe
               /\ UNCHANGED <<attempted, failed, tries>>
            \/ /\ ~Proceeds(found) \/ ToLoad(found) # {}
               /\ Finish("failed", FALSE)
    /\ UNCHANGED <<cmd, retiring, bounds, touched, gap, wronged>>

\* launchctl runs.
ChildRuns ==
    /\ child.life = "alive"
    /\ \E result \in Outcomes(child.step) :
         /\ Performs(child.step, result)
         /\ child' = [child EXCEPT !.life = IF result.ok THEN "ok" ELSE "bad"]
    /\ UNCHANGED <<phase, cmd, steps, attempted, failed, tries, probing, retiring, verdict, blocked,
                   bounds, meddled, gap>>

\* It cannot be executed, which nobody hears of.
ChildStuck ==
    /\ child.life = "alive" /\ ~child.signalled
    /\ child' = [child EXCEPT !.life = "stuck"]
    /\ UNCHANGED <<job, phase, cmd, steps, attempted, failed, tries, probing, retiring, verdict,
                   blocked, bounds, history>>

\* Mutant: only a call that has ended counts as an attempt.
SignalsLate ==
    /\ child.life \in {"alive", "ok", "bad"} /\ ~child.signalled
    /\ child' = [child EXCEPT !.signalled = TRUE]
    /\ attempted' = (attempted \/ child.life # "alive")
    /\ UNCHANGED <<job, phase, cmd, steps, failed, tries, probing, retiring, verdict, blocked,
                   bounds, history>>

\* QProcess::started.
Signals ==
    /\ child.life \in {"alive", "ok", "bad"} /\ ~child.signalled
    /\ child' = [child EXCEPT !.signalled = TRUE]
    /\ attempted' = TRUE
    /\ UNCHANGED <<job, phase, cmd, steps, failed, tries, probing, retiring, verdict, blocked,
                   bounds, history>>

\* A required step has failed.
Fatal == child.life = "bad" /\ ~child.step.tolerate

\* QProcess::finished; a unit that is started may be given time.
StepFinished ==
    /\ child.signalled /\ child.life \in {"ok", "bad"}
    /\ failed' = (failed \/ Fatal)
    /\ LET left == IF Fatal THEN <<>> ELSE steps IN
       \/ StartStep(left) /\ StepProbe(left)
       \/ /\ child.step.op \in {"kickstart", "kickstart -k"}
          /\ Goes("delay") /\ steps' = left /\ child' = NoChild /\ UNCHANGED probing
    /\ UNCHANGED <<job, cmd, attempted, tries, retiring, bounds, history>>

DelayOver ==
    /\ phase = "delay"
    /\ StartStep(steps) /\ StepProbe(steps)
    /\ UNCHANGED <<job, cmd, attempted, failed, tries, retiring, bounds, history>>

\* Mutant: any running process will do after a restart.
SatisfiedByOld(found) ==
    /\ \A u \in Selected : found[u].auth
    /\ IF cmd.action = "stop_service" THEN \A u \in Selected : ~found[u].loaded
       ELSE Needed # {} /\ \A u \in Needed : Running(found[u])

\* launchdOutcomeSatisfied.
Satisfied(found) ==
    /\ \A u \in Selected : found[u].auth
    /\ IF cmd.action = "stop_service" THEN \A u \in Selected : ~found[u].loaded
       ELSE Needed # {} /\ \A u \in Needed : Running(found[u])
    /\ cmd.action = "restart_service" => ~failed /\ \A u \in Needed : found[u].run = "new"

\* verifyLaunchdOutcome.
VerifyOutcome ==
    /\ phase = "verifying" /\ probe = "own" /\ AtLast
    /\ \E u \in Units : At(u) /\ \E found \in Findings(u) :
         /\ Looks(u, found)
         /\ IF Satisfied(found) THEN Finish("succeeded", FALSE)
            ELSE IF tries + 1 >= Attempts THEN Finish("failed", attempted)
            ELSE /\ Goes("waiting") /\ tries' = tries + 1
                 /\ NoProbe
                 /\ UNCHANGED <<steps, child, attempted, failed>>
    /\ UNCHANGED <<cmd, retiring, bounds, touched, gap, wronged>>

\* The half second before the next look is over.
LookAgain ==
    /\ phase = "waiting"
    /\ Goes("verifying") /\ ReplaceProbe
    /\ UNCHANGED <<job, cmd, progress, retiring, bounds, history>>

\* commandDeadline_: what runs is told to end, and nothing waits for it.
Deadline ==
    /\ phase # "idle"
    /\ Finish("failed", attempted)
    /\ retiring' = retiring \union {s \in {child.step} : child.life = "alive"}
    /\ gap' = (gap \/ (~attempted /\ ~child.signalled /\ child.life \in {"alive", "ok", "bad"}))
    /\ UNCHANGED <<job, cmd, bounds, meddled, touched, wronged>>

\* A call that has been told to end does its work yet, or not.
Retires ==
    \E s \in retiring :
        /\ retiring' = retiring \ {s}
        /\ \E result \in Outcomes(s) : Performs(s, result)
        /\ UNCHANGED <<phase, cmd, progress, probing, verdict, blocked, bounds, meddled, gap>>

-----------------------------------------------------------------------------
(* The worker, and the whole.                                              *)

\* Mutant: the processes that are told to end are not asked about.
QuiescentButRetiring == phase = "idle" /\ probe = "none"

\* transportQuiescent.
Quiescent == phase = "idle" /\ probe = "none" /\ retiring = {}

\* acknowledge_uncertain.
Acknowledge ==
    /\ blocked /\ Quiescent
    /\ blocked' = FALSE
    /\ UNCHANGED <<job, phase, cmd, progress, probing, retiring, verdict, bounds, history>>

Command == [action : Actions, target : Targets \union {All}]

Next ==
    \/ \E c \in Command : Execute(c)
    \/ Refresh \/ ProbeNext \/ RefreshEnds
    \/ ContinueAfterPreflight \/ ChildRuns \/ ChildStuck \/ Signals \/ StepFinished \/ DelayOver
    \/ VerifyOutcome \/ LookAgain \/ Deadline \/ Retires
    \/ Acknowledge
    \/ \E u \in Units : Exits(u) \/ Meddle(u)

Spec == Init /\ [][Next]_vars

-----------------------------------------------------------------------------
(* Properties.                                                             *)

Phases ==
    {"idle", "preflight", "stepping", "delay", "verifying", "waiting"}
Observation ==
    [auth : BOOLEAN, loaded : BOOLEAN, ours : BOOLEAN, run : {"no", "old", "new"},
     fresh : BOOLEAN]

\* What decides about a command stays in its domain: launchd's units, what has
\* been seen of them, and the flags of the controller and the worker.
TypeOK ==
    /\ job \in [Units -> Job]
    /\ phase \in Phases
    /\ attempted \in BOOLEAN
    /\ probe \in {"none", "refresh", "own"} /\ seen \in [Units -> Observation]
    /\ verdict \in [state : {"none", "succeeded", "failed"}, uncertain : BOOLEAN]
    /\ blocked \in BOOLEAN
    /\ meddled \subseteq Units
    /\ touched \in BOOLEAN /\ gap \in BOOLEAN

\* A command that has failed for certain, which leaves the module open to the next
\* one, has changed nothing, and nothing of it can change anything yet.  Exempt
\* is a command whose deadline passed between the fork of its first call and the
\* signal that it runs.
CertainFailureChangedNothing ==
    verdict.state = "failed" /\ ~verdict.uncertain /\ ~gap => ~touched /\ retiring = {}

\* While a command plans, runs and verifies, no call of an earlier one can still
\* do its work (transportQuiescent and the worker's interlock); the same exemption.
NoStrayCall == phase # "idle" /\ ~gap => retiring = {}

\* What a command has succeeded in lasts: as long as nobody else loads or unloads
\* a unit, no late call of an earlier command undoes it; the same exemption.
SuccessLasts ==
    verdict.state = "succeeded" /\ ~gap =>
        IF cmd.action = "stop_service"
        THEN \A u \in Selected \ meddled : ~job[u].loaded
        ELSE \A u \in Needed \ meddled : job[u].loaded /\ job[u].ours

\* After a restart that succeeded, none of the processes that it had to replace is
\* left, though launchd may have replaced some itself while it was prepared.
RestartReplaces ==
    verdict.state = "succeeded" /\ cmd.action = "restart_service" =>
        \A u \in Needed : job[u].run # "old"

\* No call boots out or kills a job of somebody else under one of our labels,
\* but for one that was put there after the command had looked; the same exemption.
OnlyOwnJobs == ~wronged

\* Success is judged by what was seen after the last call had ended, never by a
\* probe that was under way before.
JudgedAfterwards ==
    [][verdict'.state = "succeeded" /\ verdict.state # "succeeded" =>
         \A u \in Selected : seen[u].fresh \/ u = Order[Len(Order)]]_vars
=============================================================================
