----------------------------- MODULE HealthAlerts -----------------------------
(***************************************************************************)
(* The incidents of scripts/upload_health_monitor.py: when a problem of a  *)
(* source is told to a person, when it is told again, and when its end is. *)
(*                                                                         *)
(* A tick observes every source, writes the state file before each message *)
(* and at its end, and sends messages whose answer may be lost.  The       *)
(* process may die, and the file may fail to be written, at any point; or  *)
(* fail to be read, and then what was known of the incidents is forgotten. *)
(* One scope of sources is modelled, whose monitoring window may be shut;  *)
(* times are ages, up to the limit they are compared with.                 *)
(***************************************************************************)
EXTENDS Integers, FiniteSets

CONSTANTS
    Sources,     \* the sources of the scope
    Reasons,     \* missing, error, stale, coverage
    Confirm,     \* incident_confirmation_seconds: 60 seconds
    Repeat,      \* repeat_seconds: 360 seconds
    Retry,       \* retry_seconds: 30 seconds
    MaxCrashes,  \* bound: how often the process dies
    MaxFaults    \* bound: how often the file cannot be written, or not read

ASSUME AlertAssumption ==
    /\ {Confirm, Repeat, Retry} \subseteq Nat \ {0}
    /\ Retry <= Confirm /\ Confirm <= Repeat
    /\ {MaxCrashes, MaxFaults} \subseteq Nat

VARIABLES
    phase,      \* where the process is in a tick
    incidents,  \* data["incidents"]: from the keys of incidents to incidents
    file,       \* what the state file has of it
    problems,   \* what the tick has observed and not yet gone through
    rest,       \* the incidents without a problem, likewise
    taken,      \* the problem whose alert is being sent
    crashes, faults,   \* bounds
    streak,     \* history: age of a problem observed without interruption
    attempted,  \* history: age of the last attempt to send an alert
    heard,      \* history: age of the last alert of the incident known to be sent
    unsaved,    \* history: sources whose alert is known and not in the file yet
    today,      \* history: sources with an alert known to be sent today
    wellFor     \* history: how many observations in a row found the source fine

bounds == <<crashes, faults>>
history == <<streak, attempted, heard, unsaved, today, wellFor>>
tick == <<problems, rest, taken>>
vars == <<phase, incidents, file, tick, bounds, history>>

-----------------------------------------------------------------------------
Never == -1
NoProblem == <<>>
Empty == [k \in {} |-> {}]

Older(age, by, limit) ==
    IF age = Never THEN Never ELSE IF age + by < limit THEN age + by ELSE limit

With(dict, k, incident) ==
    [x \in DOMAIN dict \union {k} |-> IF x = k THEN incident ELSE dict[x]]
Without(dict, keys) == [k \in DOMAIN dict \ keys |-> dict[k]]

\* Mutant: an incident for every reason.
ByReason(problem) == problem

\* source_incident_key.
SourceIncidentKey(problem) == <<problem[1], "health">>

\* Keys start with their source.
Under(sources) == {k \in DOMAIN incidents : k[1] \in sources}

NewIncident ==
    [opened |-> 0, notified |-> Never, attempt |-> Never, good |-> 0, sameDay |-> TRUE]

Init ==
    /\ phase = "down" /\ incidents = Empty /\ file = Empty
    /\ problems = {} /\ rest = {} /\ taken = NoProblem /\ crashes = 0 /\ faults = 0
    /\ streak = [s \in Sources |-> Never] /\ attempted = [s \in Sources |-> Never]
    /\ heard = [s \in Sources |-> Never]
    /\ unsaved = {} /\ today = {} /\ wellFor = [s \in Sources |-> 0]

\* Mutant: what was waiting for its confirmation goes on waiting.
KeepAll(k) == TRUE

\* _load drops an incident that nobody was told of.
KeepOnLoad(k) == file[k].notified # Never

Start ==
    /\ phase = "down"
    /\ phase' = "idle"
    /\ incidents' = [k \in {x \in DOMAIN file : KeepOnLoad(x)} |-> file[k]]
    /\ UNCHANGED <<file, tick, bounds, history>>

\* The file cannot be read, or not be parsed: _load passes over it, and the
\* process goes on with no incident.  The file stays as it is until a save.
StartUnread ==
    /\ phase = "down"
    /\ faults < MaxFaults /\ faults' = faults + 1
    /\ phase' = "idle"
    /\ incidents' = Empty
    /\ heard' = [s \in Sources |-> Never]
    /\ UNCHANGED <<file, tick, crashes, streak, attempted, unsaved, today, wellFor>>

-----------------------------------------------------------------------------
\* save.
Save(dict) ==
    /\ file' = dict
    /\ unsaved' = {}
    /\ faults' = faults

\* save raises, and the tick is over: run catches it.
TickRaises ==
    /\ faults < MaxFaults /\ faults' = faults + 1
    /\ phase' = "idle" /\ problems' = {} /\ rest' = {} /\ taken' = NoProblem

SaveRaises == TickRaises /\ file' = file /\ unsaved' = unsaved

Pending(keys) == {k \in keys : incidents[k].notified = Never}

\* pause, without its save.
Paused(sources) ==
    [k \in DOMAIN incidents \ Pending(Under(sources)) |->
        IF k[1] \in sources THEN [incidents[k] EXCEPT !.good = 0] ELSE incidents[k]]

\* Has somebody been told of an incident of this source, after this step?
Told(s) == \E k \in DOMAIN incidents' : k[1] = s /\ incidents'[k].notified # Never

\* What a pause means for the history.
Interrupted(sources) ==
    /\ streak' = [s \in Sources |-> IF s \in sources THEN Never ELSE streak[s]]
    /\ wellFor' = [s \in Sources |-> IF s \in sources THEN 0 ELSE wellFor[s]]

\* Outside the window, tick pauses the whole scope.
Pause ==
    /\ phase = "idle"
    /\ incidents' = Paused(Sources)
    /\ Interrupted(Sources)
    /\ \/ /\ IF incidents' # incidents THEN Save(incidents') ELSE UNCHANGED <<file, unsaved, faults>>
          /\ UNCHANGED <<phase, tick>>
       \/ incidents' # incidents /\ SaveRaises
    /\ UNCHANGED <<crashes, attempted, heard, today>>

\* A new business date starts afresh.
OfAnotherDay(dict) == {k \in DOMAIN dict : ~dict[k].sameDay}

\* The windows of done are paused, each with its save, and the save for s raises:
\* the windows after it stay as they are, and so does an earlier day.
PauseRaises(done, s) ==
    /\ incidents' = Paused(done \union {s}) /\ incidents' # Paused(done)
    /\ IF Paused(done) # incidents THEN file' = Paused(done) /\ unsaved' = {}
       ELSE UNCHANGED <<file, unsaved>>
    /\ Interrupted(done \union {s})
    /\ TickRaises

\* The loop of reconcile over the problems begins.
BeginProblems(paused, bad) ==
    LET kept == Paused(paused)
        active == {p \in bad : p[1] \notin paused} IN
    /\ incidents' = Without(kept, OfAnotherDay(kept))
    /\ IF kept # incidents THEN Save(kept) ELSE UNCHANGED <<file, unsaved, faults>>
    /\ phase' = "problems" /\ problems' = active /\ taken' = taken
    /\ rest' = {k \in DOMAIN incidents' \ {SourceIncidentKey(p) : p \in active} :
                   k[1] \notin paused}
    /\ Interrupted(paused)

\* reconcile, up to its loop over the problems.  Some of the sources may have a
\* window of their own that is shut.
Reconcile(paused, bad) ==
    /\ phase = "idle"
    /\ \/ BeginProblems(paused, bad)
       \/ \E s \in paused : \E done \in SUBSET (paused \ {s}) : PauseRaises(done, s)
    /\ heard' = [s \in Sources |-> IF Told(s) THEN heard[s] ELSE Never]
    /\ UNCHANGED <<crashes, attempted, today>>

-----------------------------------------------------------------------------
\* Mutant: earlier good observations still count.
CurrentAsIs(k) ==
    [(IF k \in DOMAIN incidents THEN incidents[k] ELSE NewIncident) EXCEPT !.sameDay = TRUE]

\* current.update.
Current(k) ==
    [(IF k \in DOMAIN incidents THEN incidents[k] ELSE NewIncident)
        EXCEPT !.good = 0, !.sameDay = TRUE]

\* confirmed and should_send and can_attempt.
Due(current) ==
    /\ current.notified # Never \/ current.opened >= Confirm
    /\ current.notified = Never \/ current.notified >= Repeat
    /\ current.attempt = Never \/ current.attempt >= Retry

Observed(s) ==
    /\ streak' = [streak EXCEPT ![s] = IF @ = Never THEN 0 ELSE @]
    /\ wellFor' = [wellFor EXCEPT ![s] = 0]

\* A problem that is not to be told, or not yet.
Note ==
    /\ phase = "problems"
    /\ \E p \in problems :
        LET k == SourceIncidentKey(p) IN
        /\ ~Due(Current(k))
        /\ incidents' = With(incidents, k, Current(k))
        /\ problems' = problems \ {p}
        /\ Observed(p[1])
    /\ UNCHANGED <<phase, file, rest, taken, bounds, attempted, heard, unsaved, today>>

\* Mutant: the attempt is written down after the message has been sent.
SaveLater(dict) == UNCHANGED <<file, unsaved, faults>>

\* The save that comes before a message.
SaveAttempt(dict) == Save(dict)

\* A problem to be told: the attempt is written to the file first.
Attempt ==
    /\ phase = "problems"
    /\ \E p \in problems :
        LET k == SourceIncidentKey(p) IN
        /\ Due(Current(k))
        /\ incidents' = With(incidents, k, [Current(k) EXCEPT !.attempt = 0])
        /\ Observed(p[1])
        /\ \/ /\ SaveAttempt(incidents')
              /\ phase' = "sending" /\ taken' = p /\ problems' = problems \ {p}
              /\ attempted' = [attempted EXCEPT ![p[1]] = 0]
              /\ rest' = rest
           \/ SaveRaises /\ attempted' = attempted
    /\ UNCHANGED <<crashes, heard, today>>

\* sender.send returns.
Sent ==
    /\ phase = "sending" /\ phase' = "problems"
    /\ taken' = NoProblem
    /\ incidents' = [incidents EXCEPT ![SourceIncidentKey(taken)].notified = 0]
    /\ LET s == taken[1] IN
       /\ heard' = [heard EXCEPT ![s] = 0]
       /\ unsaved' = unsaved \union {s} /\ today' = today \union {s}
    /\ UNCHANGED <<file, problems, rest, bounds, streak, attempted, wellFor>>

\* sender.send raises, whether or not the message has arrived.
NotSent ==
    /\ phase = "sending" /\ phase' = "problems"
    /\ taken' = NoProblem
    /\ UNCHANGED <<incidents, file, problems, rest, bounds, history>>

\* Mutant: one observation too many.
RecoversLater(k) == incidents[k].good + 1 > 3

\* Three good observations in a row.
HasRecovered(k) == incidents[k].good + 1 >= 3

\* An incident without a problem: one that nobody was told of goes away, another
\* one after the third time, with a message that is not sent again if it fails.
Clear ==
    /\ phase = "problems" /\ problems = {}
    /\ \E k \in rest :
        /\ rest' = rest \ {k}
        /\ incidents' =
             IF incidents[k].notified = Never \/ HasRecovered(k) THEN Without(incidents, {k})
             ELSE [incidents EXCEPT ![k].good = @ + 1]
        /\ streak' = [streak EXCEPT ![k[1]] = Never]
        /\ wellFor' = [wellFor EXCEPT ![k[1]] = IF @ = 3 THEN 3 ELSE @ + 1]
        /\ IF Told(k[1]) THEN UNCHANGED <<heard, today>>
           ELSE heard' = [heard EXCEPT ![k[1]] = Never] /\ today' = today \ {k[1]}
    /\ UNCHANGED <<phase, file, problems, taken, bounds, attempted, unsaved>>

\* The save at the end of reconcile.
Finish ==
    /\ phase = "problems" /\ problems = {} /\ rest = {}
    /\ \/ Save(incidents) /\ phase' = "idle" /\ UNCHANGED tick
       \/ SaveRaises
    /\ UNCHANGED <<incidents, crashes, streak, attempted, heard, today, wellFor>>

-----------------------------------------------------------------------------
(* The rest of the world.                                                   *)

\* What the file has of a source is what the process has.
Recorded(s) ==
    LET of(dict) == [k \in {x \in DOMAIN dict : x[1] = s} |-> dict[k].good] IN
    of(file) = of(incidents)

\* The process dies.  History goes on from what the file tells.
Crash ==
    /\ phase # "down" /\ crashes < MaxCrashes
    /\ crashes' = crashes + 1
    /\ phase' = "down" /\ incidents' = Empty
    /\ problems' = {} /\ rest' = {} /\ taken' = NoProblem
    /\ streak' = [s \in Sources |-> Never]
    /\ heard' = [s \in Sources |-> IF s \in unsaved THEN Never ELSE heard[s]]
    /\ unsaved' = {}
    /\ today' = today \union
            {k[1] : k \in {x \in DOMAIN file : file[x].notified # Never /\ file[x].sameDay}}
    /\ wellFor' = [s \in Sources |-> IF Recorded(s) THEN wellFor[s] ELSE 3]
    /\ UNCHANGED <<file, faults, attempted>>

AgedBy(by, sameDay, dict) ==
    [k \in DOMAIN dict |->
        [dict[k] EXCEPT !.opened = Older(@, by, Confirm), !.notified = Older(@, by, Repeat),
                        !.attempt = Older(@, by, Retry), !.sameDay = @ /\ sameDay]]

\* Time passes between two ticks, by the smallest time that is told apart.
Elapse ==
    /\ phase \in {"idle", "down"}
    /\ incidents' = AgedBy(1, TRUE, incidents) /\ file' = AgedBy(1, TRUE, file)
    /\ streak' = [s \in Sources |-> Older(streak[s], 1, Confirm)]
    /\ attempted' = [s \in Sources |-> Older(attempted[s], 1, Retry)]
    /\ heard' = [s \in Sources |-> Older(heard[s], 1, Repeat)]
    /\ UNCHANGED <<phase, tick, bounds, unsaved, today, wellFor>>

\* A night goes by, which is longer than any limit.
NewDay ==
    /\ phase \in {"idle", "down"}
    /\ incidents' = AgedBy(Repeat, FALSE, incidents) /\ file' = AgedBy(Repeat, FALSE, file)
    /\ streak' = [s \in Sources |-> Never]
    /\ attempted' = [s \in Sources |-> Older(attempted[s], Repeat, Retry)]
    /\ heard' = [s \in Sources |-> Older(heard[s], Repeat, Repeat)]
    /\ today' = {}
    /\ UNCHANGED <<phase, tick, bounds, unsaved, wellFor>>

\* source_problems finds at most one reason for each source.
Observations == UNION {[S -> Reasons] : S \in SUBSET Sources}

Next ==
    \/ Start \/ StartUnread \/ Pause
    \/ \E paused \in SUBSET Sources, seen \in Observations :
         Reconcile(paused, {<<s, seen[s]>> : s \in DOMAIN seen})
    \/ Note \/ Attempt \/ Sent \/ NotSent \/ Clear \/ Finish
    \/ Crash \/ Elapse \/ NewDay

Spec == Init /\ [][Next]_vars

-----------------------------------------------------------------------------
(* Properties.                                                              *)

Incident ==
    [opened : 0 .. Confirm, notified : Never .. Repeat, attempt : Never .. Retry,
     good : 0 .. 2, sameDay : BOOLEAN]
Key == Sources \X {"health"}
Problem == Sources \X Reasons
IsDict(dict) == DOMAIN dict \subseteq Key /\ \A k \in DOMAIN dict : dict[k] \in Incident

\* Every variable stays in its domain; a process that is down has nothing.
TypeOK ==
    /\ phase \in {"down", "idle", "problems", "sending"}
    /\ IsDict(incidents) /\ IsDict(file)
    /\ problems \subseteq Problem /\ rest \subseteq DOMAIN incidents
    /\ taken \in Problem \union {NoProblem}
    /\ taken # NoProblem <=> phase = "sending"
    /\ phase = "down" => incidents = Empty
    /\ crashes \in 0 .. MaxCrashes /\ faults \in 0 .. MaxFaults
    /\ streak \in [Sources -> Never .. Confirm] /\ attempted \in [Sources -> Never .. Retry]
    /\ heard \in [Sources -> Never .. Repeat] /\ wellFor \in [Sources -> 0 .. 3]
    /\ unsaved \subseteq Sources /\ today \subseteq Sources

Alerts(s) == phase = "problems" /\ phase' = "sending" /\ taken'[1] = s

\* Nobody is alerted of a source before it has been seen broken for a minute by
\* one process, on this day, in its window and with no good observation between that
\* its tick came to; unless the incident has already been told of today (reconcile's confirmed,
\* with _load, pause and the new business date).
AlertEarned ==
    [][\A s \in Sources : Alerts(s) => streak'[s] >= Confirm \/ s \in today]_vars

\* An incident that was told is not told again within six minutes, and attempts
\* to tell of one source are half a minute apart: though its reason changes, it
\* comes back for an observation or two, the window is shut or the process starts
\* anew.  Exempt from the six minutes, but never from the half minute, are an alert
\* whose success is not in the file when the process dies, and every alert before a
\* start that cannot read the file: the incident is forgotten, and told again as
\* soon as it is confirmed.
AlertsSpaced ==
    [][\A s \in Sources : Alerts(s) =>
         /\ heard[s] = Never \/ heard[s] >= Repeat
         /\ attempted[s] = Never \/ attempted[s] >= Retry]_vars

\* An incident that was told is closed, with the message of its recovery, only
\* after three good observations in a row, some perhaps by an earlier process;
\* unless the process died before it could write down what it had seen.
RecoveryEarned ==
    [][\A k \in DOMAIN incidents :
          phase = "problems" /\ phase' = "problems"
          /\ k \notin DOMAIN incidents' /\ incidents[k].notified # Never
              => wellFor'[k[1]] = 3]_vars
=============================================================================
