----------------------------- MODULE AuditSpool -----------------------------
(***************************************************************************)
(* The durable path of critical events: AuditWriter.cpp on its own thread. *)
(*                                                                         *)
(* An event the Agent accepts is queued to the writer, appended to an      *)
(* emergency file and synced, and then drained from that file into the     *)
(* audit table of SQLite, which gives it its identifier.  The writer tells *)
(* the Agent through queued signals.  The process may die between any two  *)
(* steps and inside the two that touch both files.                         *)
(***************************************************************************)
EXTENDS Integers, Sequences, SequencesExt, FiniteSets

CONSTANTS
    Events,       \* the critical events, each with its event_id
    Other,        \* a row of the audit table that is no critical event
    Torn,         \* a line of the emergency file without its end
    Garbage,      \* a whole line that is not an event
    QueueLimit,   \* MaximumQueuedCriticalEvents
    MaxEmits,     \* bound: how often an event is emitted
    MaxCrashes,   \* bound: how often the process may die
    MaxFaults,    \* bound: how many writes may fail
    MaxTears,     \* bound: how many appends may be cut short
    MaxOthers     \* bound: how many other rows are recorded

ASSUME SpoolAssumption ==
    /\ Other \notin Events
    /\ Torn \notin Events /\ Garbage \notin Events /\ Torn # Garbage
    /\ QueueLimit \in Nat /\ MaxEmits \in Nat
    /\ MaxCrashes \in Nat /\ MaxFaults \in Nat
    /\ MaxTears \in Nat /\ MaxOthers \in Nat

VARIABLES
    file,      \* the emergency file exists (durable)
    spool,     \* its lines (durable)
    log,       \* audit_events: the rows in the order of their id (durable)
    pruned,    \* how many of the oldest rows were deleted (durable)
    up,        \* the Agent process runs
    ready,     \* ready_
    toWriter,  \* queued enqueueCritical calls
    offset,    \* emergencyReadOffset_, in lines
    draining,  \* criticalDrainScheduled_
    toHub,     \* queued signals of the writer
    kept,      \* history: the events whose append succeeded
    emits, crashes, faults, tears, others

stored == <<file, spool, log, pruned>>
writer == <<ready, toWriter, offset, draining, toHub>>
limits == <<emits, crashes, faults, tears, others>>
spoolVars == <<stored, up, writer, kept, limits>>

-----------------------------------------------------------------------------
(* The audit table.                                                        *)

Lines == Events \union {Torn, Garbage}

\* The identifiers of critical events in the table.
Rows == {i \in pruned + 1 .. Len(log) : log[i] \in Events}

Recorded(e) == \E i \in Rows : log[i] = e

\* CommandJournal::criticalEventBounds, zero standing for none.
Floor == IF Rows = {} THEN 0 ELSE CHOOSE i \in Rows : \A j \in Rows : i <= j
High == IF Rows = {} THEN 0 ELSE CHOOSE i \in Rows : \A j \in Rows : j <= i

\* pruneRetention after a row was added.  The rule by count takes the oldest rows,
\* the one by size 20000 of them, which may be all, and the one by age those too, as
\* long as the times of the events, which their modules set, are in the order of ids.
Prune == pruned' \in pruned .. Len(log')

\* Signals of the writer: a row was recorded, readyChanged.
RecordedSignal(i) == [kind |-> "recorded", id |-> i]
StatusSignal == [kind |-> "status", id |-> 0]

Fails == faults < MaxFaults /\ faults' = faults + 1

-----------------------------------------------------------------------------
SpoolInit ==
    /\ file = FALSE /\ spool = <<>> /\ log = <<>> /\ pruned = 0
    /\ up = FALSE /\ ready = FALSE
    /\ toWriter = <<>> /\ offset = 0 /\ draining = FALSE /\ toHub = <<>>
    /\ kept = {}
    /\ emits = 0 /\ crashes = 0 /\ faults = 0 /\ tears = 0 /\ others = 0

\* Mutant: an emergency file that was left behind is not read again.
StartAfresh ==
    /\ ~up
    /\ file => spool # <<>>
    /\ up' = TRUE /\ ready' = TRUE
    /\ offset' = Len(spool)
    /\ draining' = FALSE
    /\ UNCHANGED <<stored, toWriter, toHub, kept, limits>>

\* AuditWriter::initialize: an emergency file that exists must not be empty,
\* and is read again from its first line.  Its readyChanged reaches the Agent
\* before any client does, and is left out.
StartWriter ==
    /\ ~up
    /\ file => spool # <<>>
    /\ up' = TRUE /\ ready' = TRUE
    /\ offset' = 0
    /\ draining' = file
    /\ UNCHANGED <<stored, toWriter, toHub, kept, limits>>

\* What the death of the process does to the writer.
LoseWriter ==
    /\ up
    /\ crashes < MaxCrashes
    /\ crashes' = crashes + 1
    /\ up' = FALSE /\ ready' = FALSE
    /\ toWriter' = <<>> /\ toHub' = <<>>
    /\ offset' = 0 /\ draining' = FALSE
    /\ UNCHANGED <<kept, emits, faults, others>>

CrashWriter == LoseWriter /\ UNCHANGED <<stored, tears>>

-----------------------------------------------------------------------------
(* Appending to the emergency file: enqueueCritical.                       *)

\* The lines after e was appended; an unfinished line swallows it.
Appended(e) ==
    IF spool # <<>> /\ Last(spool) = Torn
    THEN [spool EXCEPT ![Len(spool)] = Garbage] ELSE Append(spool, e)

\* enqueueCriticalAsync, called by the Agent: the limit is on what has been
\* queued and not been appended.
RoomForEvent == Len(toWriter) < QueueLimit

\* A module may emit an event again under the event_id it had.
Emits ==
    /\ up
    /\ emits < MaxEmits
    /\ emits' = emits + 1
    /\ UNCHANGED <<stored, up, ready, offset, draining, kept, crashes, faults,
                   tears, others>>

Enqueue(e) ==
    /\ Emits
    /\ RoomForEvent
    /\ toWriter' = Append(toWriter, e)
    /\ UNCHANGED toHub

NextEvent == Head(toWriter)

TakesEvent ==
    /\ up
    /\ toWriter # <<>>
    /\ toWriter' = Tail(toWriter)
    /\ UNCHANGED <<log, pruned, up, offset, emits, crashes, others>>

\* The line is written, flushed and synced, and the drain is scheduled.
AppendLine ==
    /\ TakesEvent
    /\ file' = TRUE
    /\ spool' = Appended(NextEvent)
    /\ kept' = kept \union {NextEvent}
    /\ draining' = TRUE
    /\ UNCHANGED <<ready, toHub, faults, tears>>

\* The append is refused, or fails after the whole line was written.
AppendFails ==
    /\ TakesEvent
    /\ Fails
    /\ \/ UNCHANGED <<file, spool>>
       \/ file' = TRUE /\ spool' = Appended(NextEvent)
    /\ UNCHANGED <<ready, toHub, kept, draining, tears>>

\* What an append that is cut short leaves: a file without a byte of it, or
\* the beginning of a line.
CutShort ==
    /\ tears < MaxTears
    /\ tears' = tears + 1
    /\ file' = TRUE
    /\ \/ UNCHANGED spool
       \/ spool' = IF spool # <<>> /\ Last(spool) = Torn
                   THEN spool ELSE Append(spool, Torn)

AppendTears ==
    /\ TakesEvent
    /\ CutShort
    /\ UNCHANGED <<ready, toHub, kept, draining, faults>>

\* The process dies inside an append.
CrashInAppend ==
    /\ toWriter # <<>>
    /\ LoseWriter
    /\ CutShort \/ (file' = TRUE /\ spool' = Appended(NextEvent) /\ UNCHANGED tears)
    /\ UNCHANGED <<log, pruned>>

-----------------------------------------------------------------------------
(* Draining it into the table: drainCriticalQueue, one line a step.        *)

NextLine == spool[offset + 1]

Drains == up /\ draining /\ offset < Len(spool)

\* Mutant: the line is inserted again whenever it is read again.
InsertAlways(e) == log' = Append(log, e)

\* persist: INSERT OR IGNORE by event_id.
Insert(e) == log' = IF Recorded(e) THEN log ELSE Append(log, e)

\* Mutant: the Agent is told of a row again when its line is read again.
AnnounceAgain(e) ==
    LET row == IF Recorded(e) THEN CHOOSE i \in Rows : log[i] = e
               ELSE Len(log) + 1
    IN toHub' = Append(toHub, RecordedSignal(row))

\* persistCriticalAndNotify: the Agent is told of a new row.
Announce(e) ==
    toHub' = IF Recorded(e) THEN toHub
             ELSE Append(toHub, RecordedSignal(Len(log) + 1))

\* Mutant: the emergency file is removed with its first line.
CommitEarly ==
    /\ file' = FALSE /\ spool' = <<>> /\ offset' = 0
    /\ draining' = FALSE

\* Mutant: the file is emptied and not removed.
CommitTruncates ==
    IF offset + 1 < Len(spool)
    THEN offset' = offset + 1 /\ UNCHANGED <<file, spool, draining>>
    ELSE /\ spool' = <<>> /\ offset' = 0 /\ draining' = FALSE
         /\ UNCHANGED file

\* Mutant: the offset into the file outlives the file.
CommitKeepsOffset ==
    /\ offset' = offset + 1
    /\ IF offset + 1 < Len(spool)
       THEN UNCHANGED <<file, spool, draining>>
       ELSE file' = FALSE /\ spool' = <<>> /\ draining' = FALSE

\* commitEmergency: the file goes with its last line.
CommitEmergency ==
    IF offset + 1 < Len(spool)
    THEN offset' = offset + 1 /\ UNCHANGED <<file, spool, draining>>
    ELSE /\ file' = FALSE /\ spool' = <<>> /\ offset' = 0
         /\ draining' = FALSE

\* A line is recorded, the Agent is told of a new row.
DrainLine ==
    /\ Drains
    /\ ready
    /\ NextLine \in Events
    /\ Insert(NextLine)
    /\ Prune
    /\ Announce(NextLine)
    /\ CommitEmergency
    /\ UNCHANGED <<up, ready, toWriter, kept, limits>>

\* The writer stops for good: the file cannot be read, or the table not written.
StopWriter ==
    /\ ready' = FALSE
    /\ draining' = FALSE
    /\ toHub' = Append(toHub, StatusSignal)
    /\ UNCHANGED <<stored, up, toWriter, offset, kept, emits, crashes, tears,
                   others>>

DrainUnreadable ==
    /\ Drains
    /\ NextLine \notin Events
    /\ StopWriter
    /\ UNCHANGED faults

DrainFails ==
    /\ Drains
    /\ ready
    /\ Fails
    /\ StopWriter

\* A writer that has stopped leaves the line where it is.
DrainRefused ==
    /\ Drains
    /\ ~ready
    /\ NextLine \in Events
    /\ draining' = FALSE
    /\ UNCHANGED <<stored, up, ready, toWriter, offset, toHub, kept, limits>>

\* The process dies after the insert and before the file has moved on.
CrashInDrain ==
    /\ Drains
    /\ ready
    /\ NextLine \in Events
    /\ Insert(NextLine)
    /\ Prune
    /\ LoseWriter
    /\ UNCHANGED <<file, spool, tears>>

\* AuditWriter::record: another row, and the retention with it.
RecordOther ==
    /\ up
    /\ others < MaxOthers
    /\ others' = others + 1
    /\ IF ready
       THEN log' = Append(log, Other) /\ Prune /\ UNCHANGED toHub
       ELSE toHub' = Append(toHub, StatusSignal) /\ UNCHANGED <<log, pruned>>
    /\ UNCHANGED <<file, spool, up, ready, toWriter, offset, draining, kept,
                   emits, crashes, faults, tears>>

\* record: the row cannot be written.
RecordFails ==
    /\ up
    /\ ready
    /\ Fails
    /\ ready' = FALSE
    /\ toHub' = Append(toHub, StatusSignal)
    /\ UNCHANGED <<stored, up, toWriter, offset, draining, kept, emits, crashes,
                   tears, others>>

WriterStep ==
    \/ AppendLine \/ AppendFails \/ AppendTears
    \/ DrainLine \/ DrainUnreadable \/ DrainFails \/ DrainRefused
    \/ RecordOther \/ RecordFails

WriterDies == CrashWriter \/ CrashInAppend \/ CrashInDrain

-----------------------------------------------------------------------------
(* The writer on its own: the Agent emits events and hears the signals.    *)

EmitEvent == \E e \in Events : Enqueue(e)

HearSignal ==
    /\ toHub # <<>>
    /\ toHub' = Tail(toHub)
    /\ UNCHANGED <<stored, up, ready, toWriter, offset, draining, kept, limits>>

SpoolNext ==
    \/ StartWriter \/ WriterDies
    \/ EmitEvent \/ HearSignal
    \/ WriterStep

\* launchd restarts the Agent, and its threads run.
SpoolFairness ==
    /\ WF_spoolVars(StartWriter)
    /\ WF_spoolVars(AppendLine)
    /\ WF_spoolVars(DrainLine)

SpoolSpec == SpoolInit /\ [][SpoolNext]_spoolVars /\ SpoolFairness

-----------------------------------------------------------------------------
(* Properties of the writer.                                               *)

Signals == [kind : {"recorded"}, id : Nat \ {0}]
           \union [kind : {"status"}, id : {0}]

\* Every variable has its type, what the process holds is gone when it is
\* down, and an event waits to be drained only if there is one.
SpoolTypeOK ==
    /\ file \in BOOLEAN /\ spool \in Seq(Lines)
    /\ log \in Seq(Events \union {Other})
    /\ pruned \in 0 .. Len(log)
    /\ up \in BOOLEAN /\ ready \in BOOLEAN
    /\ toWriter \in Seq(Events) /\ Len(toWriter) <= QueueLimit
    /\ offset \in 0 .. Len(spool)
    /\ draining \in BOOLEAN
    /\ toHub \in Seq(Signals)
    /\ kept \subseteq Events
    /\ emits \in 0 .. MaxEmits /\ crashes \in 0 .. MaxCrashes
    /\ faults \in 0 .. MaxFaults /\ tears \in 0 .. MaxTears
    /\ others \in 0 .. MaxOthers
    /\ ~up => ~ready /\ toWriter = <<>> /\ toHub = <<>> /\ ~draining
    /\ draining => offset < Len(spool)
    /\ spool # <<>> => file

\* No event has two rows in the table, although a crash between the insert
\* and the removal of the file makes the writer read the line again, and
\* although a module may emit an event twice.
OneRowEach == \A i, j \in Rows : log[i] = log[j] => i = j

\* e is a line of the emergency file that can be read, or has had a row.
Held(e) ==
    \/ \E k \in DOMAIN spool : spool[k] = e
    \/ \E i \in DOMAIN log : log[i] = e

\* An event whose append succeeded is in the emergency file as a line that
\* can be read, until it has had a row.
AcceptedSurvives == \A e \in kept : Held(e)

\* A line that can be read stays so until the event has its row, whatever is
\* appended behind it, torn or whole, and wherever the process dies:
\* commitEmergency moves on only behind persist.
HeldStaysHeld == [][\A e \in Events : Held(e) => Held(e)']_spoolVars

\* The Agent hears of the rows in the order of their id, each once, so that
\* what it broadcasts as they come is in order.
SignalsAscend ==
    \A m, n \in DOMAIN toHub :
        m < n /\ toHub[m].kind = "recorded" /\ toHub[n].kind = "recorded" =>
            toHub[m].id < toHub[n].id

\* An event whose append succeeded gets its row, through crashes of the Agent.
\* Not so once a torn line stands before it, which stops the reading of the file
\* at every start, or a failed write of the table has ended the draining.
AcceptedIsRecorded ==
    \A e \in Events :
        e \in kept ~> (\E i \in DOMAIN log : log[i] = e) \/ tears > 0 \/ faults > 0

\* The Agent, when it is down, comes up again, unless a death inside an append has
\* left an emergency file without a byte in it: initialize refuses that one at
\* every start.
AgentComesBack == ~up ~> up \/ (file /\ spool = <<>> /\ tears > 0)
=============================================================================
