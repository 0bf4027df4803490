-------------------------- MODULE HubControlProofs --------------------------
(***************************************************************************)
(* Machine-checked proofs about HubControl, for every set of commands and  *)
(* modules and every number of crashes and faults.                         *)
(***************************************************************************)
EXTENDS HubControl, TLAPS

(***************************************************************************)
(* The inductive invariant.  The queues matter mostly as sets: the         *)
(* commands a worker has still to take, and the results under way.         *)
(***************************************************************************)
Asked(m) == {toWorker[m][i].cmd : i \in 1 .. Len(toWorker[m])}
Sent(m) == {toAgent[m][i] : i \in 1 .. Len(toAgent[m])}
Reported(m) == {msg.cmd : msg \in Sent(m)}

\* Nothing that lives in memory survives the process.
NothingWhenDown ==
    ~up => /\ \A m \in Modules : toWorker[m] = <<>> /\ toAgent[m] = <<>>
           /\ executing = {} /\ pending = {} /\ unknown = {}

\* Only changes have effects, and an effect under way is somebody's work
\* inside its quiescence window.
EffectsAreWork ==
    \A c \in Commands :
        /\ world[c] # "idle" => Changes(c)
        /\ world[c] = "inflight" =>
              c \in executing \union pending \union unknown /\ c \in window

\* What LifecycleController executes holds the serial gate of its module,
\* which has no unknown outcome.
ExecutingIsSerial ==
    \A c \in executing :
        /\ KindOf[c] = "launchd"
        /\ c \in window
        /\ c \notin pending
        /\ active[ModuleOf[c]] = c
        /\ UnknownIn(ModuleOf[c]) = {}
        /\ world[c] # "orphaned"

\* A pending change has begun, and holds the serial gate until it is unknown.
PendingIsSerial ==
    /\ armed \subseteq pending
    /\ \A c \in pending : Mutation(c) =>
          /\ world[c] \notin {"idle", "orphaned"}
          /\ c \in unknown \/ active[ModuleOf[c]] = c

\* The row of a command that has been accepted and not reported on.
RowIsNew(c) ==
    row[c].state = "accepted" /\ ~row[c].unresolved /\ ~row[c].resolved

\* A command in a worker's queue has had no effect and no result.
RequestsAreNew ==
    \A m \in Modules : \A c \in Asked(m) :
        /\ ModuleOf[c] = m
        /\ world[c] = "idle"
        /\ RowIsNew(c)
        /\ c \notin executing \union pending
        /\ c \notin Reported(m)

\* A command is in its queue at most once.
RequestsAreDistinct ==
    \A m \in Modules : \A i, j \in 1 .. Len(toWorker[m]) :
        toWorker[m][i].cmd = toWorker[m][j].cmd => i = j

ExecutingIsNew ==
    \A c \in executing : RowIsNew(c) /\ c \notin Reported(ModuleOf[c])

\* An unknown identifier is nowhere in the system.
AbsentIsUntouched ==
    \A c \in Commands : row[c].state = "absent" =>
        world[c] = "idle" /\ c \notin pending /\ c \notin Reported(ModuleOf[c])

\* Results come from living workers, and the certain ones are true.
ResultsAreTrue ==
    \A m \in Modules : \A msg \in Sent(m) : msg.state # "snapshot" =>
        /\ msg.cmd \in Commands
        /\ ModuleOf[msg.cmd] = m
        /\ world[msg.cmd] # "orphaned"
        /\ msg.state \in Certain => world[msg.cmd] # "inflight"

\* Behind a granted acknowledgement, no result is about an effect under way.
GrantsFollowEffects ==
    \A m \in Modules : \A i, j \in 1 .. Len(toAgent[m]) :
        /\ i < j
        /\ toAgent[m][j].state # "snapshot" /\ Granted(toAgent[m][j])
        /\ toAgent[m][i].state # "snapshot"
        => world[toAgent[m][i].cmd] # "inflight"

\* No unknown outcome a granted acknowledgement settles is still under way.
GrantsSettleEndedEffects ==
    \A m \in Modules : \A msg \in Sent(m) :
        msg.state # "snapshot" /\ Granted(msg) =>
            \A d \in Commands :
                ModuleOf[d] = m /\ row[d].unresolved => world[d] # "inflight"

\* What a dead process left behind keeps its module locked and idle.
OrphansAreLocked ==
    up => \A d \in Commands :
        world[d] = "orphaned" /\ ~row[d].resolved =>
            /\ row[d].unresolved
            /\ ModuleOf[d] \in locked
            /\ \A c \in Commands : Changes(c) /\ ModuleOf[c] = ModuleOf[d] =>
                  c \notin Asked(ModuleOf[d]) /\ c \notin executing

IInv ==
    /\ TypeOK
    /\ NothingWhenDown
    /\ EffectsAreWork
    /\ ExecutingIsSerial
    /\ PendingIsSerial
    /\ RequestsAreNew
    /\ RequestsAreDistinct
    /\ ExecutingIsNew
    /\ AbsentIsUntouched
    /\ ResultsAreTrue
    /\ GrantsFollowEffects
    /\ GrantsSettleEndedEffects
    /\ LedgerCoversEffects
    /\ OrphansAreLocked

-----------------------------------------------------------------------------
(* Sequences, as the queues use them.                                      *)

\* What a sequence holds.
LEMMA ElementType ==
    ASSUME NEW S, NEW s \in Seq(S)
    PROVE  \A i \in 1 .. Len(s) : s[i] \in S
OBVIOUS

\* Append puts its element behind the others.
LEMMA AppendElements ==
    ASSUME NEW S, NEW s \in Seq(S), NEW e \in S
    PROVE  /\ Append(s, e) \in Seq(S)
           /\ Len(Append(s, e)) = Len(s) + 1
           /\ \A i \in 1 .. Len(s) : Append(s, e)[i] = s[i]
           /\ Append(s, e)[Len(s) + 1] = e
OBVIOUS

\* Tail moves every element but the first one forward.
LEMMA TailElements ==
    ASSUME NEW S, NEW s \in Seq(S), s # <<>>
    PROVE  /\ Len(s) \in Nat \ {0}
           /\ Head(s) \in S
           /\ Head(s) = s[1]
           /\ Tail(s) \in Seq(S)
           /\ Len(Tail(s)) = Len(s) - 1
           /\ \A i \in 1 .. Len(s) - 1 : Tail(s)[i] = s[i + 1]
OBVIOUS

-----------------------------------------------------------------------------
(* Type correctness.                                                       *)

Request == [cmd : Commands, expected : Int]

\* publishCommand keeps the types of what it changes.
LEMMA PublishType ==
    ASSUME TypeOK, HubAssumption,
           NEW c \in Commands, NEW state \in Open \union Terminal,
           NEW gate \in [Modules -> Commands \union {None}],
           Publish(c, state, gate)
    PROVE  /\ controlRevision' \in [Modules -> Int]
           /\ active' \in [Modules -> Commands \union {None}]
           /\ toAgent' \in [Modules -> Seq(Message)]
<1> DEFINE m == ModuleOf[c]
           r == controlRevision[m]
                  + (IF state = "succeeded" /\ Mutation(c) THEN 1 ELSE 0)
           msg == [cmd |-> c, state |-> state, revision |-> r]
<1>1. m \in Modules BY DEF HubAssumption
<1>2. r \in Int BY <1>1 DEF TypeOK
<1>3. msg \in Message BY <1>2 DEF Message
<1>4. Append(toAgent[m], msg) \in Seq(Message)
  BY <1>1, <1>3, AppendElements DEF TypeOK
<1>5. /\ controlRevision' = [controlRevision EXCEPT ![m] = r]
      /\ toAgent' = [toAgent EXCEPT ![m] = Append(@, msg)]
      /\ active' = IF state \in Terminal /\ gate[m] = c
                   THEN [gate EXCEPT ![m] = None] ELSE gate
  BY DEF Publish
<1> QED BY <1>1, <1>2, <1>4, <1>5 DEF TypeOK

\* A worker takes a command that is in its queue.
LEMMA TakeType ==
    ASSUME TypeOK, NEW m \in Modules, NEW c, Take(m, c)
    PROVE  /\ c \in Commands
           /\ toWorker' \in [Modules -> Seq(Request)]
<1>1. toWorker[m] \in Seq(Request) /\ toWorker[m] # <<>>
  BY DEF TypeOK, Request, Take
<1>2. Head(toWorker[m]) \in Request /\ Tail(toWorker[m]) \in Seq(Request)
  BY <1>1, TailElements
<1> QED BY <1>2 DEF Take, TypeOK, Request

\* The initial state is well typed.
LEMMA InitType ==
    ASSUME HubAssumption, Init
    PROVE  TypeOK
<1>1. <<>> \in Seq(Message) /\ <<>> \in Seq([cmd : Commands, expected : Int])
  OBVIOUS
<1>2. NoRow \in Row BY DEF NoRow, Row
<1>3. row \in [Commands -> Row] BY <1>2 DEF Init
<1>4. /\ toWorker \in [Modules -> Seq([cmd : Commands, expected : Int])]
      /\ toAgent \in [Modules -> Seq(Message)]
  BY <1>1 DEF Init
<1>5. /\ controlRevision \in [Modules -> Int]
      /\ moduleRevision \in [Modules -> Int]
      /\ active \in [Modules -> Commands \union {None}]
  BY DEF Init
<1>6. crashes \in 0 .. MaxCrashes /\ faults \in 0 .. MaxFaults
  BY DEF Init, HubAssumption
<1> QED BY <1>3, <1>4, <1>5, <1>6 DEF Init, TypeOK

\* Losing the process keeps the types, whatever well-typed ledger is left.
LEMMA LoseType ==
    ASSUME HubAssumption, TypeOK,
           NEW ledger \in [Commands -> Row], Lose(ledger)
    PROVE  TypeOK'
<1>1. <<>> \in Seq(Message) /\ <<>> \in Seq([cmd : Commands, expected : Int])
  OBVIOUS
<1>2. crashes' \in 0 .. MaxCrashes
  BY DEF Lose, TypeOK, HubAssumption
<1>3. world' \in [Commands -> {"idle", "inflight", "orphaned", "done"}]
  BY DEF Lose, TypeOK
<1>4. /\ toWorker' \in [Modules -> Seq([cmd : Commands, expected : Int])]
      /\ toAgent' \in [Modules -> Seq(Message)]
  BY <1>1 DEF Lose
<1>5. /\ controlRevision' \in [Modules -> Int]
      /\ moduleRevision' \in [Modules -> Int]
      /\ active' \in [Modules -> Commands \union {None}]
  BY DEF Lose
<1> QED BY <1>2, <1>3, <1>4, <1>5 DEF Lose, TypeOK

\* A result written to the ledger is a row.
LEMMA WrittenType ==
    ASSUME TypeOK, NEW msg \in Message, msg.state # "snapshot",
           NEW wrote \in BOOLEAN
    PROVE  Written(msg, wrote) \in [Commands -> Row]
<1>1. \A r \in Row : Updated(r, msg) \in Row
  BY DEF Updated, Uncertain, Mutation, ReadOnly, Message, Row
<1> QED BY <1>1 DEF Written, TypeOK

\* The result at the head of a queue.
LEMMA HeadType ==
    ASSUME TypeOK, NEW m \in Modules, toAgent[m] # <<>>
    PROVE  /\ Head(toAgent[m]) \in Message
           /\ Tail(toAgent[m]) \in Seq(Message)
BY TailElements DEF TypeOK

LEMMA ResolveType ==
    ASSUME NEW ledger \in [Commands -> Row], NEW m
    PROVE  ResolveModule(ledger, m) \in [Commands -> Row]
BY DEF ResolveModule, Row

\* The Agent's own steps keep the types.
LEMMA AgentType ==
    ASSUME HubAssumption, TypeOK,
           \/ Start \/ Crash \/ JournalFails \/ AuditReadyChanged
           \/ \E c \in Commands : Submit(c)
           \/ \E m \in Modules : AgentStep(m) \/ CrashInAck(m)
    PROVE  TypeOK'
<1>1. CASE Start
  <2>1. row' \in [Commands -> Row]
    BY <1>1 DEF Start, Recovered, TypeOK, Row, Mutation, ReadOnly, Terminal, Open, Certain
  <2>2. Revisions \subseteq Int BY DEF Revisions, TypeOK, Row
  <2>3. moduleRevision' \in [Modules -> Int] BY <1>1, <2>2 DEF Start
  <2>4. controlRevision' \in [Modules -> Int] BY <1>1, <2>3 DEF Start
  <2>5. \A m \in Modules :
           [cmd |-> None, state |-> "snapshot", revision |-> controlRevision'[m]]
               \in Message
    BY <2>4 DEF Message
  <2>6. toAgent' \in [Modules -> Seq(Message)]
    BY <1>1, <2>5 DEF Start
  <2>7. locked' \subseteq Modules BY <1>1 DEF Start, Interlocks
  <2> QED BY <1>1, <2>1, <2>3, <2>4, <2>6, <2>7 DEF Start, TypeOK, work, bounds
<1>2. CASE Crash
  BY <1>2, LoseType DEF Crash, TypeOK
<1>3. CASE JournalFails
  <2>1. faults' \in 0 .. MaxFaults
    BY <1>3 DEF JournalFails, TypeOK, HubAssumption
  <2> QED BY <1>3, <2>1 DEF JournalFails, TypeOK, durable, serial, work
<1>4. CASE AuditReadyChanged
  <2>1. faults' \in 0 .. MaxFaults
    BY <1>4 DEF AuditReadyChanged, TypeOK, HubAssumption
  <2>2. auditHealthy' \in BOOLEAN
    BY <1>4 DEF AuditReadyChanged, TypeOK
  <2> QED BY <1>4, <2>1, <2>2 DEF AuditReadyChanged, TypeOK, durable, serial, work
<1>5. ASSUME NEW c \in Commands, Submit(c) PROVE TypeOK'
  <2>1. PICK expected \in Int : Accept(c, expected) \/ RefuseStale(c, expected)
    BY <1>5 DEF Submit
  <2>2. ModuleOf[c] \in Modules BY DEF HubAssumption
  <2>3. moduleRevision[ModuleOf[c]] \in Int BY <2>2 DEF TypeOK
  <2>4. Reserved("accepted", moduleRevision[ModuleOf[c]]) \in Row
        /\ Reserved("failed", moduleRevision[ModuleOf[c]]) \in Row
    BY <2>3 DEF Reserved, Row, Open, Terminal, Certain
  <2>5. CASE Accept(c, expected)
    <3>1. Append(toWorker[ModuleOf[c]], [cmd |-> c, expected |-> expected])
             \in Seq([cmd : Commands, expected : Int])
      BY <2>2, AppendElements DEF TypeOK
    <3> QED BY <2>2, <2>4, <2>5, <3>1
            DEF Accept, TypeOK, agentVars, serial, work, bounds
  <2>6. CASE RefuseStale(c, expected)
    BY <2>4, <2>6 DEF RefuseStale, TypeOK, agentVars, serial, work, bounds
  <2> QED BY <2>1, <2>5, <2>6
<1>6. ASSUME NEW m \in Modules, AgentStep(m) PROVE TypeOK'
  <2>1. CASE TakeSnapshot(m)
    BY <2>1, HeadType
    DEF TakeSnapshot, Receive, Dequeue, Message, TypeOK, serial, work
  <2>2. CASE \E wrote, cleared \in BOOLEAN :
                toAgent[m] # <<>> /\ TakeResult(m, Head(toAgent[m]), wrote, cleared)
    <3>1. PICK wrote, cleared \in BOOLEAN :
             toAgent[m] # <<>> /\ TakeResult(m, Head(toAgent[m]), wrote, cleared)
      BY <2>2
    <3> DEFINE msg == Head(toAgent[m])
               ledger == Written(msg, wrote)
    <3>2. msg \in Message /\ msg.state # "snapshot"
      BY <3>1, HeadType DEF TakeResult
    <3>3. ledger \in [Commands -> Row] BY <3>2, WrittenType
    <3>4. ResolveModule(ledger, m) \in [Commands -> Row] BY <3>3, ResolveType
    <3>5. row' \in [Commands -> Row] BY <3>1, <3>3, <3>4 DEF TakeResult
    <3>6. locked' \subseteq Modules
      BY <3>1 DEF TakeResult, LockedAfter, TypeOK
    <3>7. moduleRevision' \in [Modules -> Int] /\ toAgent' \in [Modules -> Seq(Message)]
      BY <3>1, <3>2, HeadType DEF TakeResult, Receive, Dequeue, Message, TypeOK
    <3>8. journalHealthy' \in BOOLEAN BY <3>1 DEF TakeResult, TypeOK
    <3>9. faults' \in 0 .. MaxFaults
      BY <3>1 DEF TakeResult, TypeOK, HubAssumption
    <3> QED BY <3>1, <3>5, <3>6, <3>7, <3>8, <3>9
            DEF TakeResult, Dequeue, TypeOK, serial, work
  <2> QED BY <1>6, <2>1, <2>2 DEF AgentStep
<1>7. ASSUME NEW m \in Modules, CrashInAck(m) PROVE TypeOK'
  <2>1. toAgent[m] # <<>> /\ Head(toAgent[m]).state = "succeeded"
        /\ Lose(Written(Head(toAgent[m]), TRUE))
    BY <1>7 DEF CrashInAck
  <2>2. Written(Head(toAgent[m]), TRUE) \in [Commands -> Row]
    BY <2>1, HeadType, WrittenType
  <2> QED BY <2>1, <2>2, LoseType
<1> QED BY <1>1, <1>2, <1>3, <1>4, <1>5, <1>6, <1>7

\* The serial gate is one of the values PublishType asks for.
LEMMA GateType ==
    ASSUME TypeOK, NEW m, NEW c \in Commands
    PROVE  /\ Gate(m, c) \in [Modules -> Commands \union {None}]
           /\ active \in [Modules -> Commands \union {None}]
BY DEF Gate, TypeOK

\* The worker's steps keep the types.
LEMMA WorkerType ==
    ASSUME HubAssumption, TypeOK, NEW m \in Modules, WorkerStep(m)
    PROVE  TypeOK'
<1>1. PICK c \in Commands :
         \/ RefuseAtGate(m, c) \/ RefuseCommand(m, c) \/ AnswerAtOnce(m, c)
         \/ RunNative(m, c) \/ Begin(m, c) \/ BeginLaunchd(m, c)
         \/ RefuseAck(m, c) \/ GrantAck(m, c)
  BY DEF WorkerStep
<1>2. Take(m, c)
  BY <1>1 DEF RefuseAtGate, RefuseCommand, AnswerAtOnce, RunNative, Begin,
              BeginLaunchd, RefuseAck, GrantAck
<1>3. toWorker' \in [Modules -> Seq([cmd : Commands, expected : Int])]
  BY <1>2, TakeType DEF Request
<1>4. /\ controlRevision' \in [Modules -> Int]
      /\ active' \in [Modules -> Commands \union {None}]
      /\ toAgent' \in [Modules -> Seq(Message)]
  <2>1. CASE BeginLaunchd(m, c)
    BY <2>1, GateType DEF BeginLaunchd, TypeOK
  <2>2. CASE ~BeginLaunchd(m, c)
    <3>1. \E state \in Open \union Terminal :
             \/ Publish(c, state, active)
             \/ Publish(c, state, Gate(m, c))
      BY <1>1, <2>2 DEF RefuseAtGate, RefuseCommand, AnswerAtOnce, RunNative,
                        Begin, RefuseAck, GrantAck, Open, Terminal, Certain
    <3> QED BY <3>1, GateType, PublishType
  <2> QED BY <2>1, <2>2
<1>5. world' \in [Commands -> {"idle", "inflight", "orphaned", "done"}]
  BY <1>1 DEF RefuseAtGate, RefuseCommand, AnswerAtOnce, RunNative, Begin,
              BeginLaunchd, RefuseAck, GrantAck, TypeOK
<1>6. /\ executing' \subseteq Commands /\ pending' \subseteq Commands
      /\ unknown' \subseteq Commands /\ armed' \subseteq Commands
      /\ window' \subseteq Commands
  BY <1>1 DEF RefuseAtGate, RefuseCommand, AnswerAtOnce, RunNative, Begin,
              BeginLaunchd, RefuseAck, GrantAck, TypeOK, work
<1> QED BY <1>2, <1>3, <1>4, <1>5, <1>6
        DEF Take, TypeOK, agentVars, bounds

\* The later events of a command keep the types.
LEMMA EventType ==
    ASSUME HubAssumption, TypeOK, NEW c \in Commands, CommandEvent(c)
    PROVE  TypeOK'
<1> DEFINE Typed ==
             /\ UNCHANGED Quiet
             /\ world' \in [Commands -> {"idle", "inflight", "orphaned", "done"}]
             /\ executing' \subseteq Commands /\ pending' \subseteq Commands
             /\ unknown' \subseteq Commands /\ armed' \subseteq Commands
             /\ window' \subseteq Commands
             /\ \/ UNCHANGED <<toAgent, serial>>
                \/ \E state \in Open \union Terminal : Publish(c, state, active)
<1>1. Typed
  <2>1. CASE Deadline(c)
    BY <2>1 DEF Deadline, TypeOK, Open, Terminal
  <2>2. ASSUME NEW state \in Certain, Finish(c, state) PROVE Typed
    BY <2>2 DEF Finish, TypeOK, Open, Terminal
  <2>3. CASE FinishUncertain(c)
    BY <2>3 DEF FinishUncertain, TypeOK, Open, Terminal
  <2>4. CASE LifecycleMutate(c)
    BY <2>4 DEF LifecycleMutate, TypeOK, work
  <2>5. ASSUME NEW state \in Certain, LifecycleCertain(c, state) PROVE Typed
    BY <2>5 DEF LifecycleCertain, LifecycleEnds, TypeOK, Open, Terminal
  <2>6. CASE LifecycleUncertain(c)
    BY <2>6 DEF LifecycleUncertain, LifecycleEnds, TypeOK, Open, Terminal
  <2>7. CASE AwaitReadiness(c)
    BY <2>7 DEF AwaitReadiness, LifecycleEnds, TypeOK, Open, Terminal
  <2>8. CASE WindowExpires(c)
    BY <2>8 DEF WindowExpires, TypeOK
  <2>9. CASE EffectEnds(c)
    BY <2>9 DEF EffectEnds, TypeOK, work
  <2> QED BY <2>1, <2>2, <2>3, <2>4, <2>5, <2>6, <2>7, <2>8, <2>9
          DEF CommandEvent, LifecycleFinishes
<1>2. /\ controlRevision' \in [Modules -> Int]
      /\ active' \in [Modules -> Commands \union {None}]
      /\ toAgent' \in [Modules -> Seq(Message)]
  BY <1>1, PublishType DEF TypeOK, serial
<1> QED BY <1>1, <1>2 DEF TypeOK, Quiet, agentVars, bounds

\* Every step keeps the types.
LEMMA StepType ==
    ASSUME HubAssumption, TypeOK, [Next]_vars
    PROVE  TypeOK'
<1>1. CASE UNCHANGED vars
  BY <1>1 DEF TypeOK, vars, durable, agentVars, serial, work, bounds
<1>2. CASE Next
  BY <1>2, AgentType, WorkerType, EventType DEF Next
<1> QED BY <1>1, <1>2

\* Every variable stays in its domain.
THEOREM TypeCorrect == Spec => []TypeOK
<1>1. Init => TypeOK BY HubAssumption, InitType
<1>2. TypeOK /\ [Next]_vars => TypeOK' BY HubAssumption, StepType
<1> QED BY <1>1, <1>2, PTL DEF Spec

-----------------------------------------------------------------------------
(* The queues as sets.                                                     *)

\* What a worker has been asked are commands.
LEMMA AskedType ==
    ASSUME TypeOK, NEW m \in Modules
    PROVE  Asked(m) \subseteq Commands
<1>1. toWorker[m] \in Seq(Request) BY DEF TypeOK, Request
<1>2. \A i \in 1 .. Len(toWorker[m]) : toWorker[m][i] \in Request
  BY <1>1, ElementType
<1> QED BY <1>2 DEF Asked, Request

\* A published result joins the results of its module and no others.
LEMMA PublishSends ==
    ASSUME HubAssumption, TypeOK,
           NEW c \in Commands, NEW state \in Open \union Terminal,
           NEW gate, Publish(c, state, gate)
    PROVE  /\ ModuleOf[c] \in Modules
           /\ \E msg \in Message :
                 /\ msg.cmd = c /\ msg.state = state
                 /\ toAgent' = [toAgent EXCEPT ![ModuleOf[c]] = Append(@, msg)]
                 /\ Sent(ModuleOf[c])' = Sent(ModuleOf[c]) \union {msg}
           /\ \A m \in Modules \ {ModuleOf[c]} : Sent(m)' = Sent(m)
           /\ Reported(ModuleOf[c])' = Reported(ModuleOf[c]) \union {c}
           /\ \A m \in Modules \ {ModuleOf[c]} : Reported(m)' = Reported(m)
<1> DEFINE m == ModuleOf[c]
           r == controlRevision[m]
                  + (IF state = "succeeded" /\ Mutation(c) THEN 1 ELSE 0)
           msg == [cmd |-> c, state |-> state, revision |-> r]
<1>1. m \in Modules BY DEF HubAssumption
<1>2. r \in Int BY <1>1 DEF TypeOK
<1>3. msg \in Message BY <1>2 DEF Message
<1>4. toAgent' = [toAgent EXCEPT ![m] = Append(@, msg)] BY DEF Publish
<1>5. /\ toAgent[m] \in Seq(Message)
      /\ toAgent'[m] = Append(toAgent[m], msg)
      /\ \A n \in Modules \ {m} : toAgent'[n] = toAgent[n]
  BY <1>1, <1>4 DEF TypeOK
<1> HIDE DEF msg
<1>6. Sent(m)' = Sent(m) \union {msg}
  BY <1>3, <1>5, AppendElements DEF Sent
<1>7. \A n \in Modules \ {m} : Sent(n)' = Sent(n)
  BY <1>5 DEF Sent
<1>8. msg.cmd = c /\ msg.state = state BY DEF msg
<1>9. Reported(m)' = Reported(m) \union {c}
  BY <1>6, <1>8 DEF Reported
<1>10. \A n \in Modules \ {m} : Reported(n)' = Reported(n)
  BY <1>7 DEF Reported
<1> QED BY <1>1, <1>3, <1>4, <1>6, <1>7, <1>8, <1>9, <1>10

\* What a published result does to the serial gates.
LEMMA PublishGates ==
    ASSUME HubAssumption,
           NEW c \in Commands, NEW state \in Open \union Terminal,
           NEW gate \in [Modules -> Commands \union {None}],
           Publish(c, state, gate)
    PROVE  \A m \in Modules :
              active'[m] = IF m = ModuleOf[c] /\ state \in Terminal /\ gate[m] = c
                           THEN None ELSE gate[m]
BY DEF Publish, HubAssumption

\* A command is taken from the queue it is in, and is in it no more.
LEMMA TakeAsks ==
    ASSUME HubAssumption, TypeOK, RequestsAreNew, RequestsAreDistinct,
           NEW m \in Modules, NEW c, Take(m, c)
    PROVE  /\ c \in Commands
           /\ c \in Asked(m)
           /\ ModuleOf[c] = m
           /\ Asked(m)' = Asked(m) \ {c}
           /\ \A n \in Modules \ {m} : Asked(n)' = Asked(n)
           /\ RequestsAreDistinct'
<1>1. /\ toWorker[m] \in Seq(Request)
      /\ toWorker[m] # <<>>
      /\ c = Head(toWorker[m]).cmd
      /\ toWorker'[m] = Tail(toWorker[m])
      /\ \A n \in Modules \ {m} : toWorker'[n] = toWorker[n]
  BY DEF TypeOK, Request, Take
<1>2. /\ Len(toWorker[m]) \in Nat \ {0}
      /\ c = toWorker[m][1].cmd
      /\ Len(toWorker'[m]) = Len(toWorker[m]) - 1
      /\ \A i \in 1 .. Len(toWorker[m]) - 1 : toWorker'[m][i] = toWorker[m][i + 1]
  BY <1>1, TailElements
<1>3. c \in Asked(m) BY <1>2 DEF Asked
<1>4. \A n \in Modules \ {m} : Asked(n)' = Asked(n) BY <1>1 DEF Asked
<1>5. \A i \in 1 .. Len(toWorker[m]) - 1 : toWorker[m][i + 1].cmd # c
  BY <1>2 DEF RequestsAreDistinct
<1>6. Asked(m)' \subseteq Asked(m) \ {c}
  BY <1>2, <1>5 DEF Asked
<1>7. ASSUME NEW d \in Asked(m) \ {c} PROVE d \in Asked(m)'
  <2>1. PICK i \in 1 .. Len(toWorker[m]) : toWorker[m][i].cmd = d
    BY <1>7 DEF Asked
  <2>2. i - 1 \in 1 .. Len(toWorker'[m]) /\ toWorker'[m][i - 1] = toWorker[m][i]
    BY <1>2, <1>7, <2>1
  <2> QED BY <2>1, <2>2 DEF Asked
<1>8. ASSUME NEW n \in Modules,
             NEW i \in 1 .. Len(toWorker'[n]), NEW j \in 1 .. Len(toWorker'[n]),
             toWorker'[n][i].cmd = toWorker'[n][j].cmd
      PROVE  i = j
  <2>1. CASE n = m
    <3>1. /\ i \in 1 .. Len(toWorker[m]) - 1 /\ j \in 1 .. Len(toWorker[m]) - 1
          /\ toWorker'[m][i].cmd = toWorker'[m][j].cmd
      BY <1>2, <1>8, <2>1
    <3>2. toWorker[m][i + 1].cmd = toWorker[m][j + 1].cmd
      BY <1>2, <3>1
    <3>3. i + 1 \in 1 .. Len(toWorker[m]) /\ j + 1 \in 1 .. Len(toWorker[m])
      BY <1>2, <3>1
    <3>4. i + 1 = j + 1 BY <3>2, <3>3 DEF RequestsAreDistinct
    <3> QED BY <3>1, <3>4
  <2>2. CASE n # m
    BY <1>1, <1>8, <2>2 DEF RequestsAreDistinct
  <2> QED BY <2>1, <2>2
<1>9. c \in Commands BY TakeType
<1>10. ModuleOf[c] = m BY <1>3 DEF RequestsAreNew
<1>11. RequestsAreDistinct' BY <1>8 DEF RequestsAreDistinct
<1> QED BY <1>3, <1>4, <1>6, <1>7, <1>9, <1>10, <1>11

\* The Agent takes the oldest result of a module.
LEMMA DequeueTakes ==
    ASSUME TypeOK, NEW m \in Modules, toAgent[m] # <<>>, Dequeue(m)
    PROVE  /\ Head(toAgent[m]) \in Sent(m)
           /\ \A n \in Modules : Sent(n)' \subseteq Sent(n)
           /\ \A n \in Modules : Reported(n)' \subseteq Reported(n)
           /\ \A n \in Modules \ {m} : toAgent'[n] = toAgent[n]
           /\ Len(toAgent[m]) \in Nat \ {0}
           /\ Head(toAgent[m]) = toAgent[m][1]
           /\ Len(toAgent'[m]) = Len(toAgent[m]) - 1
           /\ \A i \in 1 .. Len(toAgent[m]) - 1 : toAgent'[m][i] = toAgent[m][i + 1]
<1>1. /\ toAgent[m] \in Seq(Message)
      /\ toAgent'[m] = Tail(toAgent[m])
      /\ \A n \in Modules \ {m} : toAgent'[n] = toAgent[n]
  BY DEF TypeOK, Dequeue
<1>2. /\ Len(toAgent[m]) \in Nat \ {0}
      /\ Head(toAgent[m]) = toAgent[m][1]
      /\ Len(toAgent'[m]) = Len(toAgent[m]) - 1
      /\ \A i \in 1 .. Len(toAgent[m]) - 1 : toAgent'[m][i] = toAgent[m][i + 1]
  BY <1>1, TailElements
<1>3. Head(toAgent[m]) \in Sent(m) BY <1>2 DEF Sent
<1>4. Sent(m)' \subseteq Sent(m) BY <1>2 DEF Sent
<1>5. \A n \in Modules \ {m} : Sent(n)' = Sent(n) BY <1>1 DEF Sent
<1>6. \A n \in Modules : Sent(n)' \subseteq Sent(n) BY <1>4, <1>5
<1>7. \A n \in Modules : Reported(n)' \subseteq Reported(n)
  BY <1>6 DEF Reported
<1> QED BY <1>1, <1>2, <1>3, <1>6, <1>7

-----------------------------------------------------------------------------
(* How the parts of the invariant survive a result, whoever publishes it.  *)

Results == ResultsAreTrue /\ GrantsFollowEffects /\ GrantsSettleEndedEffects

\* Between two states, effects of commands with results only come to an end.
OnlyUnheardBegin ==
    \A x \in Commands :
        /\ world'[x] = "inflight" /\ world[x] # "inflight" =>
              x \notin Reported(ModuleOf[x]) /\ RowIsNew(x)
        /\ world'[x] = "orphaned" => world[x] = "orphaned"

\* With the queues and the ledger as they are, only the effects matter.
LEMMA ResultsKept ==
    ASSUME Results, OnlyUnheardBegin, UNCHANGED toAgent,
           \A x \in Commands : row'[x].unresolved => row[x].unresolved
    PROVE  Results'
<1>1. \A m \in Modules : Sent(m)' = Sent(m) BY DEF Sent
<1>2. \A m \in Modules : \A msg \in Sent(m) : msg.state # "snapshot" =>
         msg.cmd \in Commands /\ ModuleOf[msg.cmd] = m /\ msg.cmd \in Reported(m)
  BY DEF Results, ResultsAreTrue, Reported
<1>3. ResultsAreTrue'
  BY <1>1, <1>2 DEF Results, ResultsAreTrue, OnlyUnheardBegin
<1>4. GrantsSettleEndedEffects'
  BY <1>1 DEF Results, GrantsSettleEndedEffects, OnlyUnheardBegin, RowIsNew,
             Granted, IsAck
<1>5. GrantsFollowEffects'
  <2>1. \A m \in Modules : \A i \in 1 .. Len(toAgent[m]) :
           toAgent[m][i] \in Sent(m)
    BY DEF Sent
  <2> QED BY <1>2, <2>1 DEF Results, GrantsFollowEffects, OnlyUnheardBegin, Granted, IsAck
<1> QED BY <1>3, <1>4, <1>5 DEF Results

\* A result is published: it must be true, and if it grants an
\* acknowledgement nothing of the module may be under way.
LEMMA ResultsPublished ==
    ASSUME HubAssumption, TypeOK, Results, OnlyUnheardBegin, UNCHANGED row,
           NEW c \in Commands, NEW state \in Open \union Terminal,
           NEW gate, Publish(c, state, gate),
           world'[c] # "orphaned",
           state \in Certain => world'[c] # "inflight",
           state = "succeeded" /\ IsAck(c) =>
               \A d \in Commands :
                   ModuleOf[d] = ModuleOf[c] => world'[d] # "inflight"
    PROVE  Results'
<1> DEFINE m == ModuleOf[c]
<1>1. m \in Modules BY DEF HubAssumption
<1>2. PICK msg \in Message :
         /\ msg.cmd = c /\ msg.state = state
         /\ toAgent' = [toAgent EXCEPT ![m] = Append(@, msg)]
         /\ Sent(m)' = Sent(m) \union {msg}
  BY PublishSends
<1>3. \A n \in Modules \ {m} : Sent(n)' = Sent(n) BY PublishSends
<1>4. \A n \in Modules : \A old \in Sent(n) : old.state # "snapshot" =>
         old.cmd \in Commands /\ ModuleOf[old.cmd] = n /\ old.cmd \in Reported(n)
  BY DEF Results, ResultsAreTrue, Reported
<1>5. ResultsAreTrue'
  <2>1. ASSUME NEW n \in Modules, NEW new \in Sent(n)', new.state # "snapshot"
        PROVE  /\ new.cmd \in Commands
               /\ ModuleOf[new.cmd] = n
               /\ world'[new.cmd] # "orphaned"
               /\ new.state \in Certain => world'[new.cmd] # "inflight"
    <3>1. CASE new \in Sent(n)
      BY <1>4, <2>1, <3>1 DEF Results, ResultsAreTrue, OnlyUnheardBegin
    <3>2. CASE new \notin Sent(n)
      BY <1>2, <1>3, <2>1, <3>2
    <3> QED BY <3>1, <3>2
  <2> QED BY <2>1 DEF ResultsAreTrue
<1>6. GrantsSettleEndedEffects'
  <2>1. ASSUME NEW n \in Modules, NEW new \in Sent(n)', new.state # "snapshot",
               Granted(new), NEW d \in Commands, ModuleOf[d] = n, row'[d].unresolved
        PROVE  world'[d] # "inflight"
    <3>1. CASE new \in Sent(n)
      BY <2>1, <3>1 DEF Results, GrantsSettleEndedEffects, OnlyUnheardBegin, RowIsNew
    <3>2. CASE new \notin Sent(n)
      BY <1>2, <1>3, <2>1, <3>2 DEF Granted
    <3> QED BY <3>1, <3>2
  <2> QED BY <2>1 DEF GrantsSettleEndedEffects, Granted, IsAck
<1>7. GrantsFollowEffects'
  <2>1. ASSUME NEW n \in Modules,
               NEW i \in 1 .. Len(toAgent'[n]), NEW j \in 1 .. Len(toAgent'[n]),
               i < j,
               toAgent'[n][j].state # "snapshot", Granted(toAgent'[n][j]),
               toAgent'[n][i].state # "snapshot"
        PROVE  world'[toAgent'[n][i].cmd] # "inflight"
    <3>1. CASE n # m
      <4>1. toAgent'[n] = toAgent[n] BY <1>2, <3>1 DEF TypeOK
      <4>2. toAgent[n][i] \in Sent(n) BY <2>1, <4>1 DEF Sent
      <4>3. world[toAgent[n][i].cmd] # "inflight"
        BY <2>1, <4>1 DEF Results, GrantsFollowEffects
      <4> QED BY <1>4, <2>1, <4>1, <4>2, <4>3 DEF OnlyUnheardBegin
    <3>2. CASE n = m
      <4>1. /\ Len(toAgent'[m]) = Len(toAgent[m]) + 1
            /\ Len(toAgent[m]) \in Nat
            /\ \A k \in 1 .. Len(toAgent[m]) : toAgent'[m][k] = toAgent[m][k]
            /\ toAgent'[m][Len(toAgent[m]) + 1] = msg
        <5>1. toAgent[m] \in Seq(Message) /\ toAgent'[m] = Append(toAgent[m], msg)
          BY <1>1, <1>2 DEF TypeOK
        <5> QED BY <5>1, AppendElements
      <4>2. /\ i \in 1 .. Len(toAgent[m])
            /\ j \in 1 .. Len(toAgent[m]) + 1
        BY <2>1, <3>2, <4>1
      <4>3. toAgent'[m][i] = toAgent[m][i] /\ toAgent[m][i] \in Sent(m)
        BY <4>1, <4>2 DEF Sent
      <4>4. /\ toAgent[m][i].cmd \in Commands
            /\ ModuleOf[toAgent[m][i].cmd] = m
            /\ toAgent[m][i].cmd \in Reported(m)
        BY <1>4, <1>1, <2>1, <3>2, <4>3
      <4>5. CASE j = Len(toAgent[m]) + 1
        <5>1. Granted(msg) BY <2>1, <3>2, <4>1, <4>5
        <5> QED BY <1>2, <3>2, <4>3, <4>4, <5>1 DEF Granted
      <4>6. CASE j # Len(toAgent[m]) + 1
        <5>1. j \in 1 .. Len(toAgent[m]) /\ toAgent'[m][j] = toAgent[m][j]
          BY <4>1, <4>2, <4>6
        <5>2. world[toAgent[m][i].cmd] # "inflight"
          BY <1>1, <2>1, <3>2, <4>2, <4>3, <5>1 DEF Results, GrantsFollowEffects
        <5> QED BY <3>2, <4>3, <4>4, <5>2 DEF OnlyUnheardBegin
      <4> QED BY <4>5, <4>6
    <3> QED BY <3>1, <3>2
  <2> QED BY <2>1 DEF GrantsFollowEffects, Granted, IsAck
<1> QED BY <1>5, <1>6, <1>7 DEF Results

-----------------------------------------------------------------------------
(* How the parts of the invariant survive a step on behalf of one command. *)

Requests ==
    RequestsAreNew /\ RequestsAreDistinct /\ ExecutingIsNew /\ AbsentIsUntouched

\* A step of a worker touches one command, which has left the queue.
Touches(c) ==
    /\ UNCHANGED <<row, up, locked>>
    /\ row[c].state # "absent"
    /\ c \notin Asked(ModuleOf[c])'
    /\ c \in executing' => RowIsNew(c) /\ c \notin Reported(ModuleOf[c])'
    /\ executing' \subseteq executing \union {c}
    /\ pending' \subseteq pending \union {c}
    /\ \A x \in Commands \ {c} : world'[x] = world[x]
    /\ \A m \in Modules : /\ Asked(m)' \subseteq Asked(m)
                          /\ Reported(m)' \subseteq Reported(m) \union {c}

LEMMA RequestsKept ==
    ASSUME HubAssumption, TypeOK, TypeOK', Requests, RequestsAreDistinct',
           NEW c \in Commands, Touches(c)
    PROVE  Requests'
<1>1. RequestsAreNew'
  <2>1. ASSUME NEW m \in Modules, NEW d \in Asked(m)'
        PROVE  /\ ModuleOf[d] = m
               /\ world'[d] = "idle"
               /\ RowIsNew(d)'
               /\ d \notin executing' \union pending'
               /\ d \notin Reported(m)'
    <3>1. d \in Asked(m) BY <2>1 DEF Touches
    <3>2. ModuleOf[d] = m BY <3>1 DEF Requests, RequestsAreNew
    <3>3. d \in Commands BY <3>1, AskedType
    <3>4. d # c BY <2>1, <3>2 DEF Touches
    <3> QED BY <2>1, <3>1, <3>2, <3>3, <3>4
            DEF Requests, RequestsAreNew, Touches, RowIsNew
  <2> QED BY <2>1 DEF RequestsAreNew
<1>2. ExecutingIsNew'
  <2>1. ASSUME NEW d \in executing'
        PROVE  RowIsNew(d)' /\ d \notin Reported(ModuleOf[d])'
    <3>1. CASE d = c
      BY <2>1, <3>1 DEF Touches, RowIsNew
    <3>2. CASE d # c
      <4>1. d \in executing BY <2>1, <3>2 DEF Touches
      <4>2. ModuleOf[d] \in Modules BY <4>1 DEF TypeOK, HubAssumption
      <4>3. d \notin Reported(ModuleOf[d])' /\ RowIsNew(d)
        BY <3>2, <4>1, <4>2 DEF Touches, Requests, ExecutingIsNew
      <4> QED BY <4>3 DEF RowIsNew, Touches
    <3> QED BY <3>1, <3>2
  <2> QED BY <2>1 DEF ExecutingIsNew
<1>3. AbsentIsUntouched'
  BY DEF Requests, AbsentIsUntouched, Touches, HubAssumption
<1> QED BY <1>1, <1>2, <1>3 DEF Requests

\* The ledger goes on covering the effects.
LEMMA LedgerKept ==
    ASSUME LedgerCoversEffects, OnlyUnheardBegin,
           NEW c \in Commands, Touches(c)
    PROVE  LedgerCoversEffects'
BY DEF LedgerCoversEffects, OnlyUnheardBegin, Touches, RowIsNew, Certain

\* Nothing starts in a module an orphan has locked.
LEMMA OrphansKept ==
    ASSUME HubAssumption, OrphansAreLocked, OnlyUnheardBegin,
           NEW c \in Commands, Touches(c),
           c \in executing' => c \in executing \union Asked(ModuleOf[c])
    PROVE  OrphansAreLocked'
<1> SUFFICES ASSUME up', NEW d \in Commands,
                    world'[d] = "orphaned", ~row'[d].resolved
             PROVE  /\ row'[d].unresolved
                    /\ ModuleOf[d] \in locked'
                    /\ \A x \in Commands :
                          Changes(x) /\ ModuleOf[x] = ModuleOf[d] =>
                              x \notin Asked(ModuleOf[d])' /\ x \notin executing'
  BY DEF OrphansAreLocked, Changes, Mutation, ReadOnly, IsAck
<1>1. up /\ world[d] = "orphaned" /\ ~row[d].resolved
  BY DEF Touches, OnlyUnheardBegin
<1>2. /\ row[d].unresolved
      /\ ModuleOf[d] \in locked
      /\ \A x \in Commands :
            Changes(x) /\ ModuleOf[x] = ModuleOf[d] =>
                x \notin Asked(ModuleOf[d]) /\ x \notin executing
  BY <1>1 DEF OrphansAreLocked
<1>3. ModuleOf[d] \in Modules BY DEF HubAssumption
<1> QED BY <1>2, <1>3 DEF Touches

-----------------------------------------------------------------------------
(* The worker takes a command: every conjunct of the invariant survives.   *)

Work ==
    NothingWhenDown /\ EffectsAreWork /\ ExecutingIsSerial /\ PendingIsSerial

\* The invariant in the parts the lemmas below work on.
LEMMA IInvParts ==
    IInv <=> /\ TypeOK /\ Work /\ Requests /\ Results
             /\ LedgerCoversEffects /\ OrphansAreLocked
BY DEF IInv, Work, Requests, Results

LEMMA IInvPartsNext ==
    ASSUME TypeOK', Work', Requests', Results',
           LedgerCoversEffects', OrphansAreLocked'
    PROVE  IInv'
BY DEF IInv, Work, Requests, Results

\* What is known of a command a worker has just taken.
LEMMA Taken ==
    ASSUME HubAssumption, IInv, NEW m \in Modules, NEW c, Take(m, c)
    PROVE  /\ c \in Commands /\ ModuleOf[c] = m
           /\ up /\ c \in Asked(m) /\ c \notin Asked(m)'
           /\ world[c] = "idle" /\ RowIsNew(c)
           /\ c \notin executing /\ c \notin pending
           /\ c \notin Reported(m)
           /\ \A n \in Modules : Asked(n)' \subseteq Asked(n)
           /\ RequestsAreDistinct'
           /\ UNCHANGED <<row, up, locked>>
<1>1. TypeOK /\ RequestsAreNew /\ RequestsAreDistinct BY DEF IInv
<1>2. c \in Asked(m) BY <1>1, TakeAsks
<1>3. /\ ModuleOf[c] = m /\ world[c] = "idle" /\ RowIsNew(c)
      /\ c \notin executing /\ c \notin pending /\ c \notin Reported(m)
  BY <1>1, <1>2 DEF RequestsAreNew
<1>4. /\ c \in Commands
      /\ Asked(m)' = Asked(m) \ {c}
      /\ \A n \in Modules \ {m} : Asked(n)' = Asked(n)
      /\ RequestsAreDistinct'
  BY <1>1, TakeAsks
<1>5. up /\ UNCHANGED <<row, up, locked>> BY DEF Take, agentVars
<1> QED BY <1>2, <1>3, <1>4, <1>5

\* Nothing is under way in a module whose worker is free and has no unknown
\* outcome inside its quiescence window.
LEMMA NothingUnderWay ==
    ASSUME HubAssumption, IInv, NEW m \in Modules,
           active[m] = None, UnknownIn(m) \intersect window = {}
    PROVE  /\ \A d \in Commands : ModuleOf[d] = m => world[d] # "inflight"
           /\ \A d \in executing : ModuleOf[d] # m
<1>1. \A d \in executing : ModuleOf[d] # m
  BY DEF IInv, ExecutingIsSerial, HubAssumption, TypeOK
<1>2. ASSUME NEW d \in Commands, ModuleOf[d] = m, world[d] = "inflight"
      PROVE  FALSE
  <2>1. Changes(d) /\ d \in pending \union unknown /\ d \in window
    BY <1>1, <1>2 DEF IInv, EffectsAreWork
  <2>2. d \in unknown
    BY <1>2, <2>1 DEF IInv, PendingIsSerial, Changes, HubAssumption
  <2> QED BY <1>2, <2>1, <2>2 DEF UnknownIn
<1> QED BY <1>1, <1>2

\* A command is answered at once, whether or not it had an effect; only an
\* acknowledgement that is granted is a matter of its own.
AnswersWith(m, c, state, gate) ==
    /\ Take(m, c)
    /\ Publish(c, state, gate)
    /\ gate = active \/ active[m] = None
    /\ ~(state = "succeeded" /\ IsAck(c))
    /\ UNCHANGED work
    /\ \/ world' = world
       \/ Changes(c) /\ world' = [world EXCEPT ![c] = "done"]

LEMMA Answered ==
    ASSUME HubAssumption, IInv, TypeOK', NEW m \in Modules, NEW c,
           NEW state \in Certain, NEW gate \in {active, Gate(m, c)},
           AnswersWith(m, c, state, gate)
    PROVE  IInv'
<1>1. /\ Take(m, c) /\ Publish(c, state, gate)
      /\ gate = active \/ active[m] = None
      /\ ~(state = "succeeded" /\ IsAck(c))
      /\ UNCHANGED work
      /\ \/ world' = world
         \/ Changes(c) /\ world' = [world EXCEPT ![c] = "done"]
  BY DEF AnswersWith
<1>2. /\ c \in Commands /\ ModuleOf[c] = m
      /\ up /\ c \in Asked(m) /\ c \notin Asked(m)'
      /\ world[c] = "idle" /\ RowIsNew(c)
      /\ c \notin executing /\ c \notin pending
      /\ c \notin Reported(m)
      /\ \A n \in Modules : Asked(n)' \subseteq Asked(n)
      /\ RequestsAreDistinct'
      /\ UNCHANGED <<row, up, locked>>
  BY <1>1, Taken
<1>3. TypeOK BY DEF IInv
<1>4. state \in Open \union Terminal BY DEF Terminal
<1>5. gate \in [Modules -> Commands \union {None}]
  <2>1. {active, Gate(m, c)} \subseteq [Modules -> Commands \union {None}]
    BY <1>2, <1>3, GateType, SMTT(30)
  <2> QED BY <2>1
<1>6. /\ \A x \in Commands \ {c} : world'[x] = world[x]
      /\ world'[c] = "idle" \/ (world'[c] = "done" /\ Changes(c))
  BY <1>1, <1>2, <1>3 DEF TypeOK
<1>7. OnlyUnheardBegin BY <1>6 DEF OnlyUnheardBegin
<1>8. Touches(c)
  <2>1. \A n \in Modules : Reported(n)' \subseteq Reported(n) \union {c}
    BY <1>1, <1>2, <1>3, <1>4, PublishSends
  <2> QED BY <1>1, <1>2, <1>6, <2>1 DEF Touches, RowIsNew, work
<1>9. Results'
  BY <1>1, <1>2, <1>3, <1>4, <1>6, <1>7, ResultsPublished, IInvParts DEF Certain
<1>10. Requests' BY <1>2, <1>3, <1>8, RequestsKept, IInvParts
<1>11. LedgerCoversEffects' BY <1>2, <1>7, <1>8, LedgerKept DEF IInv
<1>12. OrphansAreLocked'
  BY <1>1, <1>2, <1>7, <1>8, OrphansKept DEF IInv, work
<1>13. Work'
  <2>1. NothingWhenDown' BY <1>2 DEF NothingWhenDown
  <2>2. EffectsAreWork'
    BY <1>1, <1>6 DEF IInv, EffectsAreWork, work, Changes, Mutation, ReadOnly, IsAck
  <2>3. ASSUME NEW d \in Commands, d # c, active[ModuleOf[d]] = d
        PROVE  active'[ModuleOf[d]] = d
    <3>1. ModuleOf[d] \in Modules /\ d # None BY DEF HubAssumption
    <3>2. gate[ModuleOf[d]] = d
      BY <1>1, <1>3, <2>3, <3>1 DEF Gate, TypeOK
    <3> QED BY <1>1, <1>2, <1>4, <1>5, <2>3, <3>1, <3>2, PublishGates
  <2>4. ExecutingIsSerial'
    <3>1. \A d \in executing : d \in Commands /\ d # c BY <1>2, <1>3 DEF TypeOK
    <3>2. \A n : UnknownIn(n)' = UnknownIn(n) BY <1>1 DEF UnknownIn, work
    <3> QED BY <1>1, <1>6, <2>3, <3>1, <3>2 DEF IInv, ExecutingIsSerial, work
  <2>5. PendingIsSerial'
    BY <1>1, <1>2, <1>3, <1>6, <2>3
    DEF IInv, PendingIsSerial, work, TypeOK, Mutation, ReadOnly
  <2> QED BY <2>1, <2>2, <2>4, <2>5 DEF Work
<1> QED BY <1>3, <1>9, <1>10, <1>11, <1>12, <1>13, IInvPartsNext

\* An engine change, a query or an observation begins.
LEMMA Begun ==
    ASSUME HubAssumption, IInv, TypeOK', NEW m \in Modules, NEW c, Begin(m, c)
    PROVE  IInv'
<1>1. Take(m, c) BY DEF Begin
<1>2. /\ c \in Commands /\ ModuleOf[c] = m
      /\ up /\ c \in Asked(m) /\ c \notin Asked(m)'
      /\ world[c] = "idle" /\ RowIsNew(c)
      /\ c \notin executing /\ c \notin pending
      /\ c \notin Reported(m)
      /\ \A n \in Modules : Asked(n)' \subseteq Asked(n)
      /\ RequestsAreDistinct'
      /\ UNCHANGED <<row, up, locked>>
  BY <1>1, Taken
<1>3. TypeOK BY DEF IInv
<1>4. "running" \in Open \union Terminal BY DEF Open
<1>5. /\ \A x \in Commands \ {c} : world'[x] = world[x]
      /\ \/ world'[c] = "inflight" /\ Changes(c) /\ c \in window'
         \/ world'[c] = "idle" /\ ~Mutation(c)
      /\ pending' = pending \union {c} /\ armed' = armed \union {c}
      /\ window \subseteq window'
      /\ UNCHANGED <<executing, unknown>>
  BY <1>2, <1>3 DEF Begin, TypeOK, Changes, Mutation, ReadOnly, IsAck
<1>6. Publish(c, "running", Gate(m, c)) BY DEF Begin
<1>7. OnlyUnheardBegin BY <1>2, <1>5 DEF OnlyUnheardBegin
<1>8. Touches(c)
  <2>1. \A n \in Modules : Reported(n)' \subseteq Reported(n) \union {c}
    BY <1>2, <1>3, <1>4, <1>6, PublishSends
  <2> QED BY <1>2, <1>5, <2>1 DEF Touches, RowIsNew
<1>9. Results'
  <2>1. world'[c] # "orphaned" BY <1>5
  <2>2. "running" \notin Certain BY DEF Certain
  <2> QED BY <1>2, <1>3, <1>4, <1>6, <1>7, <2>1, <2>2, ResultsPublished, IInvParts
<1>10. Requests' BY <1>2, <1>3, <1>8, RequestsKept, IInvParts
<1>11. LedgerCoversEffects' BY <1>2, <1>7, <1>8, LedgerKept DEF IInv
<1>12. OrphansAreLocked' BY <1>2, <1>5, <1>7, <1>8, OrphansKept DEF IInv
<1>13. Work'
  <2>1. NothingWhenDown' BY <1>2 DEF NothingWhenDown
  <2>2. EffectsAreWork'
    BY <1>2, <1>5
    DEF IInv, EffectsAreWork, Changes, Mutation, ReadOnly, IsAck
  <2>3. \A n \in Modules : active'[n] = Gate(m, c)[n]
    BY <1>2, <1>3, <1>4, <1>6, GateType, PublishGates
    DEF Terminal, Certain
  <2>4. ~Observe(c) => /\ active[m] = None /\ active'[m] = c
                       /\ UnknownIn(m) = {}
    <3>1. ~Observe(c) => active[m] = None /\ UnknownIn(m) = {}
      BY DEF Begin, Admitted, PassesGate, PassesInterlock, Busy, Observe
    <3>2. ~Observe(c) => active'[m] = c
      BY <1>3, <2>3 DEF Gate, TypeOK
    <3> QED BY <3>1, <3>2
  <2>5. \A n \in Modules : Observe(c) \/ n # m => active'[n] = active[n]
    BY <1>3, <2>3 DEF Gate, TypeOK
  <2>6. ExecutingIsSerial'
    <3>1. \A n : UnknownIn(n)' = UnknownIn(n) BY <1>5 DEF UnknownIn
    <3>2. ASSUME NEW d \in executing
          PROVE  d \in Commands /\ d # c /\ active'[ModuleOf[d]] = d
      <4>1. d \in Commands /\ d # c /\ d # None /\ ModuleOf[d] \in Modules
        BY <1>2, <1>3 DEF TypeOK, HubAssumption
      <4>2. active[ModuleOf[d]] = d BY DEF IInv, ExecutingIsSerial
      <4> QED BY <2>4, <2>5, <4>1, <4>2
    <3> QED BY <1>5, <3>1, <3>2 DEF IInv, ExecutingIsSerial
  <2>7. PendingIsSerial'
    <3>1. ASSUME NEW d \in pending, d # c, Mutation(d)
          PROVE  /\ world'[d] \notin {"idle", "orphaned"}
                 /\ d \in unknown' \/ active'[ModuleOf[d]] = d
      <4>1. d \in Commands /\ d # None /\ ModuleOf[d] \in Modules
        BY <1>3 DEF TypeOK, HubAssumption
      <4>2. /\ world[d] \notin {"idle", "orphaned"}
            /\ d \in unknown \/ active[ModuleOf[d]] = d
        BY <3>1 DEF IInv, PendingIsSerial
      <4> QED BY <1>5, <2>4, <2>5, <3>1, <4>1, <4>2
    <3>2. Mutation(c) => /\ world'[c] \notin {"idle", "orphaned"}
                         /\ active'[ModuleOf[c]] = c
      BY <1>2, <1>5, <2>4 DEF Mutation, ReadOnly, Observe
    <3>3. armed' \subseteq pending' BY <1>5 DEF IInv, PendingIsSerial
    <3> QED BY <1>5, <3>1, <3>2, <3>3 DEF PendingIsSerial, Mutation, ReadOnly
  <2> QED BY <2>1, <2>2, <2>6, <2>7 DEF Work
<1> QED BY <1>3, <1>9, <1>10, <1>11, <1>12, <1>13, IInvPartsNext

\* LifecycleController takes a launchd change over.
LEMMA BegunLaunchd ==
    ASSUME HubAssumption, IInv, TypeOK',
           NEW m \in Modules, NEW c, BeginLaunchd(m, c)
    PROVE  IInv'
<1>1. Take(m, c) BY DEF BeginLaunchd
<1>2. /\ c \in Commands /\ ModuleOf[c] = m
      /\ up /\ c \in Asked(m) /\ c \notin Asked(m)'
      /\ world[c] = "idle" /\ RowIsNew(c)
      /\ c \notin executing /\ c \notin pending
      /\ c \notin Reported(m)
      /\ \A n \in Modules : Asked(n)' \subseteq Asked(n)
      /\ RequestsAreDistinct'
      /\ UNCHANGED <<row, up, locked>>
  BY <1>1, Taken
<1>3. TypeOK BY DEF IInv
<1>4. /\ UNCHANGED <<world, toAgent, pending, unknown, armed>>
      /\ executing' = executing \union {c} /\ window' = window \union {c}
      /\ active' = Gate(m, c)
  BY DEF BeginLaunchd
<1>5. active[m] = None /\ UnknownIn(m) = {} /\ KindOf[c] = "launchd"
  BY DEF BeginLaunchd, Admitted, PassesGate, PassesInterlock, Busy, Observe
<1>6. /\ active'[m] = c
      /\ \A n \in Modules \ {m} : active'[n] = active[n]
  BY <1>3, <1>4, <1>5 DEF Gate, Observe, TypeOK
<1>7. OnlyUnheardBegin BY <1>4 DEF OnlyUnheardBegin
<1>8. Touches(c)
  <2>1. \A n \in Modules : Reported(n)' = Reported(n)
    BY <1>4 DEF Reported, Sent
  <2> QED BY <1>2, <1>4, <2>1 DEF Touches, RowIsNew
<1>9. Results' BY <1>2, <1>4, <1>7, ResultsKept, IInvParts
<1>10. Requests' BY <1>2, <1>3, <1>8, RequestsKept, IInvParts
<1>11. LedgerCoversEffects' BY <1>2, <1>7, <1>8, LedgerKept DEF IInv
<1>12. OrphansAreLocked' BY <1>2, <1>7, <1>8, OrphansKept DEF IInv
<1>13. Work'
  <2>1. NothingWhenDown' BY <1>2 DEF NothingWhenDown
  <2>2. EffectsAreWork'
    BY <1>4 DEF IInv, EffectsAreWork, Changes, Mutation, ReadOnly, IsAck
  <2>3. \A d \in executing : ModuleOf[d] # m
    BY <1>5, NothingUnderWay
  <2>4. ExecutingIsSerial'
    <3>1. \A n : UnknownIn(n)' = UnknownIn(n) BY <1>4 DEF UnknownIn
    <3>2. \A d \in executing : active'[ModuleOf[d]] = active[ModuleOf[d]]
      BY <1>3, <1>6, <2>3 DEF TypeOK, HubAssumption
    <3> QED BY <1>2, <1>4, <1>5, <1>6, <3>1, <3>2 DEF IInv, ExecutingIsSerial
  <2>5. PendingIsSerial'
    <3>1. ASSUME NEW d \in pending, Mutation(d)
          PROVE  d \in unknown \/ active'[ModuleOf[d]] = d
      <4>1. d \in Commands /\ d # None /\ ModuleOf[d] \in Modules
        BY <1>3 DEF TypeOK, HubAssumption
      <4>2. d \in unknown \/ active[ModuleOf[d]] = d
        BY <3>1 DEF IInv, PendingIsSerial
      <4> QED BY <1>5, <1>6, <4>1, <4>2
    <3> QED BY <1>4, <3>1 DEF IInv, PendingIsSerial, Mutation, ReadOnly
  <2> QED BY <2>1, <2>2, <2>4, <2>5 DEF Work
<1> QED BY <1>3, <1>9, <1>10, <1>11, <1>12, <1>13, IInvPartsNext

\* An acknowledgement is granted: nothing of the module is under way.
LEMMA AckGranted ==
    ASSUME HubAssumption, IInv, TypeOK',
           NEW m \in Modules, NEW c, GrantAck(m, c)
    PROVE  IInv'
<1>1. Take(m, c) BY DEF GrantAck
<1>2. /\ c \in Commands /\ ModuleOf[c] = m
      /\ up /\ c \in Asked(m) /\ c \notin Asked(m)'
      /\ world[c] = "idle" /\ RowIsNew(c)
      /\ c \notin executing /\ c \notin pending
      /\ c \notin Reported(m)
      /\ \A n \in Modules : Asked(n)' \subseteq Asked(n)
      /\ RequestsAreDistinct'
      /\ UNCHANGED <<row, up, locked>>
  BY <1>1, Taken
<1>3. TypeOK BY DEF IInv
<1>4. /\ UNCHANGED <<world, executing>>
      /\ pending' = pending \ UnknownIn(m) /\ unknown' = unknown \ UnknownIn(m)
      /\ armed' = armed \ UnknownIn(m) /\ window' = window \ UnknownIn(m)
      /\ Publish(c, "succeeded", Gate(m, c))
  BY DEF GrantAck
<1>5. active[m] = None /\ UnknownIn(m) \intersect window = {}
  BY DEF GrantAck, Admitted, PassesGate, Busy, Observe, IsAck, Reconcilable
<1>6. /\ \A d \in Commands : ModuleOf[d] = m => world[d] # "inflight"
      /\ \A d \in executing : ModuleOf[d] # m
  BY <1>5, NothingUnderWay
<1>7. "succeeded" \in Open \union Terminal BY DEF Terminal, Certain
<1>8. OnlyUnheardBegin BY <1>4 DEF OnlyUnheardBegin
<1>9. Touches(c)
  <2>1. \A n \in Modules : Reported(n)' \subseteq Reported(n) \union {c}
    BY <1>2, <1>3, <1>4, <1>7, PublishSends
  <2> QED BY <1>2, <1>4, <2>1 DEF Touches, RowIsNew
<1>10. Results'
  BY <1>2, <1>3, <1>4, <1>6, <1>7, <1>8, ResultsPublished, IInvParts
<1>11. Requests' BY <1>2, <1>3, <1>9, RequestsKept, IInvParts
<1>12. LedgerCoversEffects' BY <1>2, <1>8, <1>9, LedgerKept DEF IInv
<1>13. OrphansAreLocked' BY <1>2, <1>4, <1>8, <1>9, OrphansKept DEF IInv
<1>14. Work'
  <2>1. NothingWhenDown' BY <1>2 DEF NothingWhenDown
  <2>2. \A d \in Commands : d \in UnknownIn(m) => ModuleOf[d] = m
    BY DEF UnknownIn
  <2>3. EffectsAreWork'
    BY <1>4, <1>6, <2>2
    DEF IInv, EffectsAreWork, Changes, Mutation, ReadOnly, IsAck
  <2>4. \A n \in Modules \ {m} : active'[n] = active[n]
    <3>1. Gate(m, c) \in [Modules -> Commands \union {None}]
      BY <1>2, <1>3, GateType
    <3>2. \A n \in Modules \ {m} : active'[n] = Gate(m, c)[n]
      BY <1>2, <1>4, <1>7, <3>1, PublishGates
    <3> QED BY <1>3, <3>2 DEF Gate, TypeOK
  <2>5. ExecutingIsSerial'
    <3>1. ASSUME NEW d \in executing
          PROVE  /\ active'[ModuleOf[d]] = active[ModuleOf[d]]
                 /\ UnknownIn(ModuleOf[d])' \subseteq UnknownIn(ModuleOf[d])
                 /\ d \notin UnknownIn(m)
      BY <1>3, <1>4, <1>6, <2>2, <2>4 DEF TypeOK, HubAssumption, UnknownIn
    <3> QED BY <1>4, <3>1 DEF IInv, ExecutingIsSerial
  <2>6. PendingIsSerial'
    <3>1. ASSUME NEW d \in pending', Mutation(d)
          PROVE  d \in unknown' \/ active'[ModuleOf[d]] = d
      <4>1. d \in Commands /\ d # None /\ ModuleOf[d] \in Modules
        BY <1>3, <1>4 DEF TypeOK, HubAssumption
      <4>2. d \in unknown \/ active[ModuleOf[d]] = d
        BY <1>4, <3>1 DEF IInv, PendingIsSerial
      <4>3. d \notin UnknownIn(m) BY <1>4, <3>1
      <4> QED BY <1>4, <1>5, <2>4, <4>1, <4>2, <4>3
    <3> QED BY <1>4, <3>1 DEF IInv, PendingIsSerial, Mutation, ReadOnly
  <2> QED BY <2>1, <2>3, <2>5, <2>6 DEF Work
<1> QED BY <1>3, <1>10, <1>11, <1>12, <1>13, <1>14, IInvPartsNext

\* Every step of a worker that takes a command keeps the invariant.
LEMMA WorkerKeeps ==
    ASSUME HubAssumption, IInv, TypeOK', NEW m \in Modules, WorkerStep(m)
    PROVE  IInv'
<1>1. PICK c \in Commands :
         \/ RefuseAtGate(m, c) \/ RefuseCommand(m, c) \/ AnswerAtOnce(m, c)
         \/ RunNative(m, c) \/ Begin(m, c) \/ BeginLaunchd(m, c)
         \/ RefuseAck(m, c) \/ GrantAck(m, c)
  BY DEF WorkerStep
<1>2. TypeOK BY DEF IInv
<1>3. "failed" \in Certain /\ "succeeded" \in Certain BY DEF Certain
<1>4. Admitted(m, c) => Gate(m, c) = active \/ active[m] = None
  BY DEF Admitted, PassesGate, Busy, Gate
<1>5. CASE RefuseAtGate(m, c)
  <2>1. /\ Take(m, c) /\ Publish(c, "failed", active)
        /\ world' = world /\ UNCHANGED work
    BY <1>5 DEF RefuseAtGate
  <2>2. AnswersWith(m, c, "failed", active)
    BY <2>1 DEF AnswersWith
  <2> QED BY <1>3, <2>2, Answered
<1>6. CASE RefuseCommand(m, c)
  <2>1. /\ Take(m, c) /\ Publish(c, "failed", Gate(m, c))
        /\ world' = world /\ UNCHANGED work /\ Admitted(m, c)
    BY <1>6 DEF RefuseCommand
  <2>2. AnswersWith(m, c, "failed", Gate(m, c))
    BY <1>4, <2>1 DEF AnswersWith
  <2> QED BY <1>3, <2>2, Answered
<1>7. CASE AnswerAtOnce(m, c)
  <2>1. /\ Take(m, c) /\ Publish(c, "succeeded", Gate(m, c))
        /\ world' = world /\ UNCHANGED work /\ Admitted(m, c) /\ ~IsAck(c)
    BY <1>7 DEF AnswerAtOnce, IsAck
  <2>2. AnswersWith(m, c, "succeeded", Gate(m, c))
    BY <1>4, <2>1 DEF AnswersWith
  <2> QED BY <1>3, <2>2, Answered
<1>8. CASE RunNative(m, c)
  <2>1. Changes(c) /\ ~IsAck(c)
    BY <1>8 DEF RunNative, Changes, Mutation, ReadOnly, IsAck
  <2>2. \E state \in Certain : AnswersWith(m, c, state, Gate(m, c))
    BY <1>4, <1>8, <2>1 DEF RunNative, AnswersWith, work
  <2> QED BY <2>2, Answered
<1>9. CASE RefuseAck(m, c)
  <2>1. /\ Take(m, c) /\ Publish(c, "failed", Gate(m, c))
        /\ world' = world /\ UNCHANGED work /\ Admitted(m, c)
    BY <1>9 DEF RefuseAck
  <2>2. AnswersWith(m, c, "failed", Gate(m, c))
    BY <1>4, <2>1 DEF AnswersWith
  <2> QED BY <1>3, <2>2, Answered
<1> QED BY <1>1, <1>5, <1>6, <1>7, <1>8, <1>9, Begun, BegunLaunchd, AckGranted

-----------------------------------------------------------------------------
(* Later events of a command.                                              *)

\* The events that publish a result keep the queues of requests, the ledger
\* and the interlocks; they touch the results and the invariant's other parts
\* through one command that had begun.
LEMMA Reporting ==
    ASSUME HubAssumption, IInv, TypeOK',
           NEW c \in executing \union pending,
           NEW state \in Open \union Terminal,
           UNCHANGED Quiet, Publish(c, state, active),
           executing' = executing \ {c},
           pending' \subseteq pending \union {c},
           \A x \in Commands \ {c} : world'[x] = world[x],
           world'[c] \in {world[c], "done"}, world'[c] # "orphaned",
           state \in Certain => world'[c] # "inflight",
           state = "succeeded" => ~IsAck(c)
    PROVE  /\ up /\ c \in Commands
           /\ Requests' /\ Results' /\ LedgerCoversEffects' /\ OrphansAreLocked'
<1>1. TypeOK BY DEF IInv
<1>2. c \in Commands BY <1>1 DEF TypeOK
<1>3. up /\ UNCHANGED <<row, up, locked, toWorker>>
  BY DEF IInv, NothingWhenDown, Quiet, agentVars
<1>4. \A m \in Modules : Asked(m)' = Asked(m) BY <1>3 DEF Asked
<1>5. OnlyUnheardBegin BY DEF OnlyUnheardBegin
<1>6. c \notin Asked(ModuleOf[c]) /\ row[c].state # "absent"
  BY <1>2 DEF IInv, RequestsAreNew, AbsentIsUntouched, ExecutingIsNew, RowIsNew,
              HubAssumption
<1>7. Touches(c)
  <2>1. \A n \in Modules : Reported(n)' \subseteq Reported(n) \union {c}
    BY <1>1, <1>2, PublishSends
  <2>2. ModuleOf[c] \in Modules BY <1>2 DEF HubAssumption
  <2> QED BY <1>3, <1>4, <1>6, <2>1, <2>2 DEF Touches
<1>8. RequestsAreDistinct' BY <1>3 DEF IInv, RequestsAreDistinct
<1>9. Requests' BY <1>1, <1>2, <1>7, <1>8, RequestsKept, IInvParts
<1>10. Results' BY <1>1, <1>2, <1>3, <1>5, ResultsPublished, IInvParts
<1>11. LedgerCoversEffects' BY <1>2, <1>5, <1>7, LedgerKept DEF IInv
<1>12. OrphansAreLocked' BY <1>2, <1>5, <1>7, OrphansKept DEF IInv
<1> QED BY <1>2, <1>3, <1>9, <1>10, <1>11, <1>12

\* A result frees at most the serial gate its own command holds.
LEMMA OthersKeepGates ==
    ASSUME HubAssumption, TypeOK, NEW c \in Commands,
           NEW state \in Open \union Terminal, Publish(c, state, active)
    PROVE  \A d \in Commands : d # c /\ active[ModuleOf[d]] = d =>
              active'[ModuleOf[d]] = d
<1>1. active \in [Modules -> Commands \union {None}] BY DEF TypeOK
<1>2. \A m \in Modules :
         active'[m] = IF m = ModuleOf[c] /\ state \in Terminal /\ active[m] = c
                      THEN None ELSE active[m]
  BY <1>1, PublishGates
<1>3. \A d \in Commands : ModuleOf[d] \in Modules BY DEF HubAssumption
<1> QED BY <1>2, <1>3

\* A deadline passes: a change stays pending and becomes unknown.
LEMMA DeadlineKeeps ==
    ASSUME HubAssumption, IInv, TypeOK', NEW c \in Commands, Deadline(c)
    PROVE  IInv'
<1>1. TypeOK BY DEF IInv
<1>2. /\ c \in pending /\ c \notin executing
  BY DEF Deadline, IInv, PendingIsSerial, ExecutingIsSerial
<1>3. /\ armed' = armed \ {c}
      /\ pending' = IF Mutation(c) THEN pending ELSE pending \ {c}
      /\ unknown' = IF Mutation(c) THEN unknown \union {c} ELSE unknown
      /\ Publish(c, "timed_out", active)
      /\ UNCHANGED Quiet /\ UNCHANGED <<world, executing, window>>
  BY DEF Deadline
<1>4. "timed_out" \in Open \union Terminal /\ "timed_out" \notin Certain
  BY DEF Terminal, Certain
<1>5. world[c] # "orphaned"
  BY <1>2 DEF IInv, PendingIsSerial, EffectsAreWork, Changes
<1>6. /\ up
      /\ Requests' /\ Results' /\ LedgerCoversEffects' /\ OrphansAreLocked'
  <2>1. executing' = executing \ {c} /\ pending' \subseteq pending \union {c}
    BY <1>2, <1>3
  <2>2. /\ \A x \in Commands \ {c} : world'[x] = world[x]
        /\ world'[c] \in {world[c], "done"} /\ world'[c] # "orphaned"
    BY <1>3, <1>5
  <2> QED BY <1>2, <1>3, <1>4, <2>1, <2>2, Reporting
<1>7. Work'
  <2>1. NothingWhenDown' BY <1>3, <1>6 DEF NothingWhenDown, Quiet, agentVars
  <2>2. EffectsAreWork'
    BY <1>3 DEF IInv, EffectsAreWork, Changes, Mutation, ReadOnly, IsAck
  <2>3. \A d \in Commands : d # c /\ active[ModuleOf[d]] = d =>
           active'[ModuleOf[d]] = d
    BY <1>1, <1>3, <1>4, OthersKeepGates
  <2>4. ASSUME NEW d \in executing, Mutation(c)
        PROVE  ModuleOf[c] # ModuleOf[d]
    <3>1. active[ModuleOf[d]] = d /\ UnknownIn(ModuleOf[d]) = {}
      BY DEF IInv, ExecutingIsSerial
    <3>2. c \in unknown \/ active[ModuleOf[c]] = c
      BY <1>2, <2>4 DEF IInv, PendingIsSerial
    <3> QED BY <1>2, <3>1, <3>2 DEF UnknownIn
  <2>5. ExecutingIsSerial'
    <3>1. ASSUME NEW d \in executing
          PROVE  UnknownIn(ModuleOf[d])' = UnknownIn(ModuleOf[d])
      BY <1>3, <2>4 DEF UnknownIn
    <3>2. \A d \in executing : d \in Commands /\ d # c BY <1>1, <1>2 DEF TypeOK
    <3> QED BY <1>3, <2>3, <3>1, <3>2 DEF IInv, ExecutingIsSerial
  <2>6. PendingIsSerial'
    <3>1. \A d \in pending : d \in Commands BY <1>1 DEF TypeOK
    <3> QED BY <1>3, <2>3, <3>1 DEF IInv, PendingIsSerial, Mutation, ReadOnly
  <2> QED BY <2>1, <2>2, <2>5, <2>6 DEF Work
<1> QED BY <1>6, <1>7, IInvPartsNext

\* A certain answer: the effect is over, whatever was known of it.
LEMMA FinishKeeps ==
    ASSUME HubAssumption, IInv, TypeOK',
           NEW c \in Commands, NEW state \in Certain, Finish(c, state)
    PROVE  IInv'
<1>1. TypeOK BY DEF IInv
<1>2. c \in pending /\ c \notin executing
  BY DEF Finish, IInv, ExecutingIsSerial
<1>3. /\ pending' = pending \ {c} /\ unknown' = unknown \ {c}
      /\ armed' = armed \ {c} /\ window' = window \ {c}
      /\ world' = IF Mutation(c) THEN [world EXCEPT ![c] = "done"] ELSE world
      /\ Publish(c, state, active)
      /\ UNCHANGED Quiet /\ UNCHANGED executing
  BY DEF Finish
<1>4. state \in Open \union Terminal BY DEF Terminal
<1>5. Mutation(c) => Changes(c)
  BY <1>2 DEF IInv, PendingIsSerial, EffectsAreWork
<1>6. /\ \A x \in Commands \ {c} : world'[x] = world[x]
      /\ world'[c] = IF Mutation(c) THEN "done" ELSE world[c]
      /\ Mutation(c) \/ world[c] = "idle"
  BY <1>1, <1>3 DEF TypeOK, IInv, EffectsAreWork, Changes
<1>7. /\ up
      /\ Requests' /\ Results' /\ LedgerCoversEffects' /\ OrphansAreLocked'
  <2>1. executing' = executing \ {c} /\ pending' \subseteq pending \union {c}
    BY <1>2, <1>3
  <2>2. /\ world'[c] \in {world[c], "done"} /\ world'[c] # "orphaned"
        /\ world'[c] # "inflight"
    BY <1>6
  <2>3. ~IsAck(c) BY <1>5 DEF Changes, Mutation, ReadOnly, IsAck
  <2> QED BY <1>2, <1>3, <1>4, <1>6, <2>1, <2>2, <2>3, Reporting
<1>8. Work'
  <2>1. NothingWhenDown' BY <1>3, <1>7 DEF NothingWhenDown, Quiet, agentVars
  <2>2. EffectsAreWork'
    BY <1>3, <1>5, <1>6 DEF IInv, EffectsAreWork, Changes, Mutation, ReadOnly, IsAck
  <2>3. \A d \in Commands : d # c /\ active[ModuleOf[d]] = d =>
           active'[ModuleOf[d]] = d
    BY <1>1, <1>3, <1>4, OthersKeepGates
  <2>4. \A n : UnknownIn(n)' \subseteq UnknownIn(n) BY <1>3 DEF UnknownIn
  <2>5. \A d \in executing \union pending : d \in Commands BY <1>1 DEF TypeOK
  <2>6. ExecutingIsSerial'
    BY <1>2, <1>3, <1>6, <2>3, <2>4, <2>5 DEF IInv, ExecutingIsSerial
  <2>7. PendingIsSerial'
    BY <1>3, <1>6, <2>3, <2>5 DEF IInv, PendingIsSerial, Mutation, ReadOnly
  <2> QED BY <2>1, <2>2, <2>6, <2>7 DEF Work
<1> QED BY <1>7, <1>8, IInvPartsNext

\* An answer that says the outcome is uncertain.
LEMMA FinishUncertainKeeps ==
    ASSUME HubAssumption, IInv, TypeOK', NEW c \in Commands, FinishUncertain(c)
    PROVE  IInv'
<1>1. TypeOK BY DEF IInv
<1>2. c \in pending /\ c \notin executing /\ c \notin unknown /\ Mutation(c)
  BY DEF FinishUncertain, IInv, ExecutingIsSerial
<1>3. /\ unknown' = unknown \union {c}
      /\ Publish(c, "timed_out", active)
      /\ UNCHANGED Quiet
      /\ UNCHANGED <<world, executing, pending, armed, window>>
  BY DEF FinishUncertain
<1>4. "timed_out" \in Open \union Terminal /\ "timed_out" \notin Certain
  BY DEF Terminal, Certain
<1>5. /\ up
      /\ Requests' /\ Results' /\ LedgerCoversEffects' /\ OrphansAreLocked'
  <2>1. executing' = executing \ {c} /\ pending' \subseteq pending \union {c}
    BY <1>2, <1>3
  <2>2. /\ \A x \in Commands \ {c} : world'[x] = world[x]
        /\ world'[c] \in {world[c], "done"} /\ world'[c] # "orphaned"
    BY <1>2, <1>3 DEF IInv, PendingIsSerial
  <2> QED BY <1>2, <1>3, <1>4, <2>1, <2>2, Reporting
<1>6. Work'
  <2>1. NothingWhenDown' BY <1>3, <1>5 DEF NothingWhenDown, Quiet, agentVars
  <2>2. EffectsAreWork'
    BY <1>3 DEF IInv, EffectsAreWork, Changes, Mutation, ReadOnly, IsAck
  <2>3. \A d \in Commands : d # c /\ active[ModuleOf[d]] = d =>
           active'[ModuleOf[d]] = d
    BY <1>1, <1>3, <1>4, OthersKeepGates
  <2>4. \A d \in executing \union pending : d \in Commands BY <1>1 DEF TypeOK
  <2>5. ASSUME NEW d \in executing
        PROVE  UnknownIn(ModuleOf[d])' = UnknownIn(ModuleOf[d])
    <3>1. active[ModuleOf[d]] = d /\ active[ModuleOf[c]] = c
      BY <1>2 DEF IInv, ExecutingIsSerial, PendingIsSerial
    <3> QED BY <1>2, <1>3, <3>1 DEF UnknownIn
  <2>6. ExecutingIsSerial'
    BY <1>2, <1>3, <2>3, <2>4, <2>5 DEF IInv, ExecutingIsSerial
  <2>7. PendingIsSerial'
    BY <1>3, <2>3, <2>4 DEF IInv, PendingIsSerial, Mutation, ReadOnly
  <2> QED BY <2>1, <2>2, <2>6, <2>7 DEF Work
<1> QED BY <1>5, <1>6, IInvPartsNext

\* What LifecycleController executes is alone in its module.
LEMMA ExecutingIsAlone ==
    ASSUME HubAssumption, IInv, NEW c \in executing
    PROVE  /\ c \in Commands /\ Changes(c) /\ c \notin pending
           /\ \A d \in executing \ {c} : ModuleOf[d] # ModuleOf[c]
           /\ \A d \in Commands : d # c /\ ModuleOf[d] = ModuleOf[c] =>
                 world[d] # "inflight"
<1>1. c \in Commands BY DEF IInv, TypeOK
<1>2. /\ KindOf[c] = "launchd" /\ c \notin pending
      /\ active[ModuleOf[c]] = c /\ UnknownIn(ModuleOf[c]) = {}
  BY DEF IInv, ExecutingIsSerial
<1>3. Changes(c) BY <1>2 DEF Changes, Mutation, ReadOnly, IsAck
<1>4. \A d \in executing \ {c} : ModuleOf[d] # ModuleOf[c]
  BY <1>2 DEF IInv, ExecutingIsSerial
<1>5. ASSUME NEW d \in Commands, d # c, ModuleOf[d] = ModuleOf[c],
             world[d] = "inflight"
      PROVE  FALSE
  <2>1. Mutation(d) /\ (d \in pending \/ d \in unknown)
    BY <1>4, <1>5 DEF IInv, EffectsAreWork, Changes
  <2>2. d \in unknown
    BY <1>2, <1>5, <2>1 DEF IInv, PendingIsSerial
  <2> QED BY <1>2, <1>5, <2>2 DEF UnknownIn
<1> QED BY <1>1, <1>2, <1>3, <1>4, <1>5

\* launchctl is started.
LEMMA MutateKeeps ==
    ASSUME HubAssumption, IInv, TypeOK', NEW c \in Commands, LifecycleMutate(c)
    PROVE  IInv'
<1>1. TypeOK BY DEF IInv
<1>2. /\ c \in executing /\ world[c] = "idle"
      /\ world' = [world EXCEPT ![c] = "inflight"]
      /\ UNCHANGED Quiet /\ UNCHANGED toAgent /\ UNCHANGED serial /\ UNCHANGED work
  BY DEF LifecycleMutate
<1>3. /\ UNCHANGED <<row, up, locked, toWorker, active>>
      /\ UNCHANGED <<executing, pending, unknown, armed, window>>
  BY <1>2 DEF Quiet, agentVars, serial, work
<1>4. /\ \A x \in Commands \ {c} : world'[x] = world[x]
      /\ world'[c] = "inflight"
  BY <1>1, <1>2 DEF TypeOK
<1>5. Changes(c) BY <1>2, ExecutingIsAlone
<1>6. RowIsNew(c) /\ c \notin Reported(ModuleOf[c]) /\ c \in window
  BY <1>2 DEF IInv, ExecutingIsNew, ExecutingIsSerial
<1>7. OnlyUnheardBegin BY <1>4, <1>6 DEF OnlyUnheardBegin
<1>8. \A n \in Modules : Asked(n)' = Asked(n) /\ Reported(n)' = Reported(n)
  BY <1>2, <1>3 DEF Asked, Reported, Sent
<1>9. Touches(c)
  <2>1. c \notin Asked(ModuleOf[c]) /\ ModuleOf[c] \in Modules
    BY <1>2 DEF IInv, RequestsAreNew, HubAssumption
  <2> QED BY <1>3, <1>4, <1>6, <1>8, <2>1 DEF Touches, RowIsNew
<1>10. Requests'
  <2>1. RequestsAreDistinct' BY <1>3 DEF IInv, RequestsAreDistinct
  <2> QED BY <1>1, <1>9, <2>1, RequestsKept, IInvParts
<1>11. Results' BY <1>2, <1>3, <1>7, ResultsKept, IInvParts
<1>12. LedgerCoversEffects' BY <1>7, <1>9, LedgerKept DEF IInv
<1>13. OrphansAreLocked' BY <1>3, <1>7, <1>9, OrphansKept DEF IInv
<1>14. Work'
  <2>1. NothingWhenDown'
    BY <1>2, <1>3 DEF IInv, NothingWhenDown
  <2>2. EffectsAreWork'
    BY <1>2, <1>3, <1>4, <1>5, <1>6
    DEF IInv, EffectsAreWork, Changes, Mutation, ReadOnly, IsAck
  <2>3. \A n : UnknownIn(n)' = UnknownIn(n) BY <1>3 DEF UnknownIn
  <2>4. \A d \in executing \union pending : d \in Commands BY <1>1 DEF TypeOK
  <2>5. ExecutingIsSerial'
    BY <1>3, <1>4, <2>3, <2>4 DEF IInv, ExecutingIsSerial
  <2>6. PendingIsSerial'
    BY <1>3, <1>4, <2>4 DEF IInv, PendingIsSerial, Mutation, ReadOnly
  <2> QED BY <2>1, <2>2, <2>5, <2>6 DEF Work
<1> QED BY <1>10, <1>11, <1>12, <1>13, <1>14, IInvPartsNext


\* LifecycleController is done with a change.  Either the outcome is unknown
\* or the effect is over, and the change may have to wait for its readiness.
Ended(c, state) ==
    /\ c \in executing
    /\ executing' = executing \ {c}
    /\ window \ {c} \subseteq window'
    /\ UNCHANGED Quiet
    /\ Publish(c, state, active)
    /\ \A x \in Commands \ {c} : world'[x] = world[x]
    /\ world'[c] \in {world[c], "done"}
    /\ state \in Certain => world'[c] # "inflight"
    /\ \/ UNCHANGED unknown /\ world'[c] # "inflight"
       \/ unknown' = unknown \union {c} /\ UNCHANGED window
    /\ \/ UNCHANGED <<pending, armed>>
       \/ /\ state = "running" /\ world'[c] = "done"
          /\ pending' = pending \union {c} /\ armed' = armed \union {c}

LEMMA EndedKeeps ==
    ASSUME HubAssumption, IInv, TypeOK',
           NEW c \in Commands, NEW state \in Open \union Terminal,
           Ended(c, state)
    PROVE  IInv'
<1>1. TypeOK BY DEF IInv
<1>2. c \in executing /\ executing' = executing \ {c}
      /\ Publish(c, state, active) /\ UNCHANGED Quiet
  BY DEF Ended
<1>3. /\ \A x \in Commands \ {c} : world'[x] = world[x]
      /\ world'[c] \in {world[c], "done"}
      /\ state \in Certain => world'[c] # "inflight"
  BY DEF Ended
<1>4. /\ Changes(c) /\ c \notin pending
      /\ \A d \in executing \ {c} : ModuleOf[d] # ModuleOf[c]
  BY <1>2, ExecutingIsAlone
<1>5. /\ active[ModuleOf[c]] = c /\ c \in window /\ world[c] # "orphaned"
  BY <1>2 DEF IInv, ExecutingIsSerial
<1>6. /\ up
      /\ Requests' /\ Results' /\ LedgerCoversEffects' /\ OrphansAreLocked'
  <2>1. pending' \subseteq pending \union {c} BY DEF Ended
  <2>2. world'[c] # "orphaned" BY <1>3, <1>5
  <2>3. ~IsAck(c) BY <1>4 DEF Changes
  <2> QED BY <1>2, <1>3, <2>1, <2>2, <2>3, Reporting
<1>7. Work'
  <2>1. NothingWhenDown' BY <1>2, <1>6 DEF NothingWhenDown, Quiet, agentVars
  <2>2. EffectsAreWork'
    <3>1. ASSUME NEW d \in Commands, d # c
          PROVE  /\ world'[d] # "idle" => Changes(d)
                 /\ world'[d] = "inflight" =>
                       d \in executing' \union pending' \union unknown' /\ d \in window'
      BY <1>3, <3>1 DEF IInv, EffectsAreWork, Ended
    <3>2. world'[c] = "inflight" => c \in unknown' /\ c \in window'
      BY <1>5 DEF Ended
    <3> QED BY <1>4, <3>1, <3>2
            DEF EffectsAreWork, Changes, Mutation, ReadOnly, IsAck
  <2>3. \A d \in Commands : d # c /\ active[ModuleOf[d]] = d =>
           active'[ModuleOf[d]] = d
    BY <1>1, <1>2, OthersKeepGates
  <2>4. \A d \in executing \union pending : d \in Commands BY <1>1 DEF TypeOK
  <2>5. ExecutingIsSerial'
    <3>1. ASSUME NEW d \in executing'
          PROVE  /\ d \in executing /\ d # c /\ d \in window' /\ d \notin pending'
                 /\ UnknownIn(ModuleOf[d])' = UnknownIn(ModuleOf[d])
      <4>1. d \in executing /\ d # c /\ ModuleOf[d] # ModuleOf[c]
        BY <1>2, <1>4
      <4>2. d \in window /\ d \notin pending
        BY <4>1 DEF IInv, ExecutingIsSerial
      <4> QED BY <4>1, <4>2 DEF Ended, UnknownIn
    <3> QED BY <1>3, <2>3, <2>4, <3>1 DEF IInv, ExecutingIsSerial
  <2>6. PendingIsSerial'
    <3>1. ASSUME NEW d \in pending, Mutation(d)
          PROVE  /\ world'[d] \notin {"idle", "orphaned"}
                 /\ d \in unknown' \/ active'[ModuleOf[d]] = d
      <4>1. d \in Commands /\ d # c BY <1>4, <2>4
      <4>2. unknown \subseteq unknown' BY DEF Ended
      <4> QED BY <1>3, <2>3, <3>1, <4>1, <4>2 DEF IInv, PendingIsSerial
    <3>2. CASE UNCHANGED <<pending, armed>>
      BY <3>1, <3>2 DEF IInv, PendingIsSerial, Mutation, ReadOnly
    <3>3. CASE /\ state = "running" /\ world'[c] = "done"
               /\ pending' = pending \union {c} /\ armed' = armed \union {c}
      <4>1. active'[ModuleOf[c]] = c
        <5>1. active \in [Modules -> Commands \union {None}] BY <1>1 DEF TypeOK
        <5>2. "running" \notin Terminal BY DEF Terminal, Certain
        <5> QED BY <1>2, <1>5, <3>3, <5>1, <5>2, PublishGates DEF HubAssumption
      <4> QED BY <3>1, <3>3, <4>1 DEF IInv, PendingIsSerial, Mutation, ReadOnly
    <3> QED BY <3>2, <3>3 DEF Ended
  <2> QED BY <2>1, <2>2, <2>5, <2>6 DEF Work
<1> QED BY <1>6, <1>7, IInvPartsNext

LEMMA LifecycleKeeps ==
    ASSUME HubAssumption, IInv, TypeOK', NEW c \in Commands, LifecycleFinishes(c)
    PROVE  IInv'
<1>1. TypeOK BY DEF IInv
<1>2. "running" \in Open \union Terminal /\ "timed_out" \in Open \union Terminal
      /\ "timed_out" \notin Certain /\ "running" \notin Certain
  BY DEF Open, Terminal, Certain
<1>3. ASSUME NEW state \in Certain, LifecycleCertain(c, state) PROVE IInv'
  <2>1. Ended(c, state)
    BY <1>1, <1>3 DEF LifecycleCertain, LifecycleEnds, Ended, TypeOK
  <2>2. state \in Open \union Terminal BY DEF Terminal
  <2> QED BY <2>1, <2>2, EndedKeeps
<1>4. CASE LifecycleUncertain(c)
  <2>1. Ended(c, "timed_out")
    BY <1>2, <1>4 DEF LifecycleUncertain, LifecycleEnds, Ended
  <2> QED BY <1>2, <2>1, EndedKeeps
<1>5. CASE AwaitReadiness(c)
  <2>1. Ended(c, "running")
    BY <1>1, <1>2, <1>5 DEF AwaitReadiness, LifecycleEnds, Ended, TypeOK
  <2> QED BY <1>2, <2>1, EndedKeeps
<1> QED BY <1>3, <1>4, <1>5 DEF LifecycleFinishes

\* A window expires: the effect it was opened for is over.
LEMMA WindowKeeps ==
    ASSUME HubAssumption, IInv, TypeOK', NEW c \in Commands, WindowExpires(c)
    PROVE  IInv'
<1>1. TypeOK BY DEF IInv
<1>2. /\ c \notin executing /\ world[c] # "inflight"
      /\ window' = window \ {c}
      /\ UNCHANGED Quiet /\ UNCHANGED serial
      /\ UNCHANGED <<world, toAgent, executing, pending, unknown, armed>>
  BY DEF WindowExpires
<1>3. UNCHANGED <<row, up, locked, toWorker, active>>
  BY <1>2 DEF Quiet, agentVars, serial
<1>4. \A n : UnknownIn(n)' = UnknownIn(n) BY <1>2 DEF UnknownIn
<1>5. Work'
  <2>1. NothingWhenDown' BY <1>2, <1>3 DEF IInv, NothingWhenDown
  <2>2. EffectsAreWork'
    BY <1>2 DEF IInv, EffectsAreWork, Changes, Mutation, ReadOnly, IsAck
  <2>3. ExecutingIsSerial'
    BY <1>2, <1>3, <1>4 DEF IInv, ExecutingIsSerial
  <2>4. PendingIsSerial'
    BY <1>2, <1>3 DEF IInv, PendingIsSerial, Mutation, ReadOnly
  <2> QED BY <2>1, <2>2, <2>3, <2>4 DEF Work
<1>6. Requests'
  <2>1. \A m : Asked(m)' = Asked(m) /\ Reported(m)' = Reported(m)
    BY <1>2, <1>3 DEF Asked, Reported, Sent
  <2>2. RequestsAreNew' BY <1>2, <1>3, <2>1 DEF IInv, RequestsAreNew, RowIsNew
  <2>3. RequestsAreDistinct' BY <1>3 DEF IInv, RequestsAreDistinct
  <2>4. ExecutingIsNew' BY <1>2, <1>3, <2>1 DEF IInv, ExecutingIsNew, RowIsNew
  <2>5. AbsentIsUntouched' BY <1>2, <1>3, <2>1 DEF IInv, AbsentIsUntouched
  <2> QED BY <2>2, <2>3, <2>4, <2>5 DEF Requests
<1>7. OnlyUnheardBegin BY <1>2 DEF OnlyUnheardBegin
<1>8. Results' BY <1>2, <1>3, <1>7, ResultsKept, IInvParts
<1>9. LedgerCoversEffects'
  BY <1>2, <1>3 DEF IInv, LedgerCoversEffects, Certain
<1>10. OrphansAreLocked'
  BY <1>2, <1>3
  DEF IInv, OrphansAreLocked, Asked, Changes, Mutation, ReadOnly, IsAck
<1> QED BY <1>5, <1>6, <1>8, <1>9, <1>10, IInvPartsNext

\* An effect ends outside.
LEMMA EffectEndKeeps ==
    ASSUME HubAssumption, IInv, TypeOK', NEW c \in Commands, EffectEnds(c)
    PROVE  IInv'
<1>1. TypeOK BY DEF IInv
<1>2. /\ world[c] \in {"inflight", "orphaned"}
      /\ world' = [world EXCEPT ![c] = "done"]
      /\ UNCHANGED Quiet /\ UNCHANGED toAgent /\ UNCHANGED serial /\ UNCHANGED work
  BY DEF EffectEnds
<1>3. /\ UNCHANGED <<row, up, locked, toWorker, active>>
      /\ UNCHANGED <<executing, pending, unknown, armed, window>>
  BY <1>2 DEF Quiet, agentVars, serial, work
<1>4. /\ \A x \in Commands \ {c} : world'[x] = world[x]
      /\ world'[c] = "done"
  BY <1>1, <1>2 DEF TypeOK
<1>5. OnlyUnheardBegin BY <1>4 DEF OnlyUnheardBegin
<1>6. Work'
  <2>1. NothingWhenDown' BY <1>2, <1>3 DEF IInv, NothingWhenDown
  <2>2. EffectsAreWork'
    BY <1>2, <1>3, <1>4
    DEF IInv, EffectsAreWork, Changes, Mutation, ReadOnly, IsAck
  <2>3. \A n : UnknownIn(n)' = UnknownIn(n) BY <1>3 DEF UnknownIn
  <2>4. \A d \in executing \union pending : d \in Commands BY <1>1 DEF TypeOK
  <2>5. ExecutingIsSerial'
    BY <1>3, <1>4, <2>3, <2>4 DEF IInv, ExecutingIsSerial
  <2>6. PendingIsSerial'
    BY <1>3, <1>4, <2>4 DEF IInv, PendingIsSerial, Mutation, ReadOnly
  <2> QED BY <2>1, <2>2, <2>5, <2>6 DEF Work
<1>7. Requests'
  <2>1. \A m \in Modules : Asked(m)' = Asked(m) /\ Reported(m)' = Reported(m)
    BY <1>2, <1>3 DEF Asked, Reported, Sent
  <2>2. ModuleOf[c] \in Modules BY DEF HubAssumption
  <2>3. RequestsAreDistinct' BY <1>3 DEF IInv, RequestsAreDistinct
  <2>4. RequestsAreNew'
    <3>1. \A m \in Modules : c \notin Asked(m)
      BY <1>2 DEF IInv, RequestsAreNew
    <3> QED BY <1>1, <1>3, <1>4, <2>1, <3>1, AskedType
            DEF IInv, RequestsAreNew, RowIsNew
  <2>5. ExecutingIsNew'
    <3>1. \A d \in executing : ModuleOf[d] \in Modules
      BY <1>1 DEF TypeOK, HubAssumption
    <3> QED BY <1>3, <2>1, <3>1 DEF IInv, ExecutingIsNew, RowIsNew
  <2>6. AbsentIsUntouched'
    BY <1>2, <1>3, <1>4, <2>1 DEF IInv, AbsentIsUntouched, HubAssumption
  <2> QED BY <2>3, <2>4, <2>5, <2>6 DEF Requests
<1>8. Results' BY <1>2, <1>3, <1>5, ResultsKept, IInvParts
<1>9. LedgerCoversEffects'
  BY <1>2, <1>3, <1>4 DEF IInv, LedgerCoversEffects, Certain
<1>10. OrphansAreLocked'
  BY <1>3, <1>4
  DEF IInv, OrphansAreLocked, Asked, Changes, Mutation, ReadOnly, IsAck
<1> QED BY <1>6, <1>7, <1>8, <1>9, <1>10, IInvPartsNext

\* Every later event of a command keeps the invariant.
LEMMA EventKeeps ==
    ASSUME HubAssumption, IInv, TypeOK', NEW c \in Commands, CommandEvent(c)
    PROVE  IInv'
BY DeadlineKeeps, FinishKeeps, FinishUncertainKeeps, MutateKeeps,
   LifecycleKeeps, WindowKeeps, EffectEndKeeps DEF CommandEvent

-----------------------------------------------------------------------------
(* The Agent's steps.                                                      *)

\* The invariant does not speak of the health flags, revisions and bounds.
Concerned ==
    <<row, world, up, locked, toWorker, toAgent, active,
      executing, pending, unknown, armed, window>>

LEMMA Unconcerned ==
    ASSUME IInv, TypeOK', UNCHANGED Concerned
    PROVE  IInv'
<1>1. UNCHANGED <<row, world, up, locked, toWorker, toAgent, active>>
      /\ UNCHANGED <<executing, pending, unknown, armed, window>>
  BY DEF Concerned
<1>2. \A n : /\ UnknownIn(n)' = UnknownIn(n)
             /\ Asked(n)' = Asked(n) /\ Sent(n)' = Sent(n)
             /\ Reported(n)' = Reported(n)
  BY <1>1 DEF UnknownIn, Asked, Sent, Reported
<1>3. Work'
  BY <1>1, <1>2
  DEF IInv, Work, NothingWhenDown, EffectsAreWork, ExecutingIsSerial,
      PendingIsSerial, Changes, Mutation, ReadOnly, IsAck
<1>4. Requests'
  <2>1. RequestsAreNew' BY <1>1, <1>2 DEF IInv, RequestsAreNew, RowIsNew
  <2>2. RequestsAreDistinct' BY <1>1 DEF IInv, RequestsAreDistinct
  <2>3. ExecutingIsNew' BY <1>1, <1>2 DEF IInv, ExecutingIsNew, RowIsNew
  <2>4. AbsentIsUntouched' BY <1>1, <1>2 DEF IInv, AbsentIsUntouched
  <2> QED BY <2>1, <2>2, <2>3, <2>4 DEF Requests
<1>5. Results'
  <2>1. OnlyUnheardBegin BY <1>1 DEF OnlyUnheardBegin
  <2> QED BY <1>1, <2>1, ResultsKept, IInvParts
<1>6. LedgerCoversEffects' BY <1>1 DEF IInv, LedgerCoversEffects, Certain
<1>7. OrphansAreLocked'
  BY <1>1, <1>2 DEF IInv, OrphansAreLocked, Changes, Mutation, ReadOnly, IsAck
<1> QED BY <1>3, <1>4, <1>5, <1>6, <1>7, IInvPartsNext

\* The process dies and leaves a ledger at least as telling as before.
LEMMA LoseKeeps ==
    ASSUME HubAssumption, IInv, TypeOK', NEW ledger, Lose(ledger),
           \A x \in Commands :
              \/ ledger[x].state = row[x].state
              \/ world[x] = "idle" /\ ledger[x].state # "absent"
    PROVE  IInv'
<1>1. TypeOK BY DEF IInv
<1>2. /\ row' = ledger /\ up' = FALSE
      /\ toWorker' = [m \in Modules |-> <<>>]
      /\ toAgent' = [m \in Modules |-> <<>>]
      /\ executing' = {} /\ pending' = {} /\ unknown' = {} /\ armed' = {}
  BY DEF Lose
<1>3. \A x \in Commands :
         /\ world'[x] # "inflight"
         /\ world'[x] = "idle" <=> world[x] = "idle"
         /\ world'[x] = "orphaned" => world[x] \in {"inflight", "orphaned"}
  BY DEF Lose
<1>4. \A m \in Modules : /\ Len(toWorker'[m]) = 0 /\ Len(toAgent'[m]) = 0
                         /\ Asked(m)' = {} /\ Sent(m)' = {} /\ Reported(m)' = {}
  BY <1>2 DEF Asked, Sent, Reported
<1>5. Work'
  BY <1>2, <1>3
  DEF IInv, Work, NothingWhenDown, EffectsAreWork, ExecutingIsSerial,
      PendingIsSerial, Changes, Mutation, ReadOnly, IsAck
<1>6. LedgerCoversEffects'
  BY <1>2, <1>3 DEF IInv, LedgerCoversEffects, Certain
<1>7. Requests'
  <2>1. RequestsAreNew' BY <1>4 DEF RequestsAreNew
  <2>2. RequestsAreDistinct' BY <1>4 DEF RequestsAreDistinct
  <2>3. ExecutingIsNew' BY <1>2 DEF ExecutingIsNew
  <2>4. AbsentIsUntouched'
    <3>1. \A x \in Commands : ModuleOf[x] \in Modules BY DEF HubAssumption
    <3> QED BY <1>2, <1>3, <1>4, <3>1 DEF IInv, AbsentIsUntouched
  <2> QED BY <2>1, <2>2, <2>3, <2>4 DEF Requests
<1>8. Results'
  <2>1. ResultsAreTrue' BY <1>4 DEF ResultsAreTrue
  <2>2. GrantsFollowEffects' BY <1>4 DEF GrantsFollowEffects
  <2>3. GrantsSettleEndedEffects' BY <1>4 DEF GrantsSettleEndedEffects
  <2> QED BY <2>1, <2>2, <2>3 DEF Results
<1>9. OrphansAreLocked' BY <1>2 DEF OrphansAreLocked
<1> QED BY <1>5, <1>6, <1>7, <1>8, <1>9, IInvPartsNext

\* The acknowledgement's own row is written, and the process dies.
LEMMA CrashInAckKeeps ==
    ASSUME HubAssumption, IInv, TypeOK', NEW m \in Modules, CrashInAck(m)
    PROVE  IInv'
<1> DEFINE msg == Head(toAgent[m])
<1>1. /\ toAgent[m] # <<>> /\ msg.state = "succeeded" /\ IsAck(msg.cmd)
      /\ Lose(Written(msg, TRUE))
  BY DEF CrashInAck
<1>2. TypeOK BY DEF IInv
<1>3. msg \in Sent(m)
  <2>1. toAgent[m] \in Seq(Message) BY <1>2 DEF TypeOK
  <2>2. Len(toAgent[m]) \in Nat \ {0} /\ msg = toAgent[m][1]
    BY <1>1, <2>1, TailElements
  <2> QED BY <2>2 DEF Sent
<1>4. msg.cmd \in Commands /\ world[msg.cmd] = "idle"
  BY <1>1, <1>3 DEF IInv, ResultsAreTrue, EffectsAreWork, Changes
<1>5. \A x \in Commands :
         \/ Written(msg, TRUE)[x].state = row[x].state
         \/ world[x] = "idle" /\ Written(msg, TRUE)[x].state # "absent"
  BY <1>1, <1>2, <1>4 DEF Written, Updated, TypeOK
<1> QED BY <1>1, <1>5, LoseKeeps

\* The process starts: what may still be under way comes back as an unknown
\* outcome under the interlock, and nothing is queued.
LEMMA StartKeeps ==
    ASSUME HubAssumption, IInv, TypeOK', Start
    PROVE  IInv'
<1>1. TypeOK BY DEF IInv
<1>2. /\ ~up
      /\ row' = [c \in Commands |-> Recovered(c)]
      /\ locked' = Interlocks(row')
      /\ UNCHANGED <<world, toWorker, active>> /\ UNCHANGED work
  BY DEF Start
<1>3. \A m \in Modules :
         toAgent'[m] = <<[cmd |-> None, state |-> "snapshot",
                          revision |-> controlRevision'[m]]>>
  BY DEF Start
<1>4. /\ \A m \in Modules : toWorker'[m] = <<>>
      /\ executing' = {} /\ pending' = {} /\ unknown' = {} /\ armed' = {}
  BY <1>2 DEF IInv, NothingWhenDown, PendingIsSerial, work
<1>5. ASSUME NEW m \in Modules
      PROVE  /\ Asked(m)' = {} /\ Len(toWorker'[m]) = 0 /\ Len(toAgent'[m]) = 1
             /\ \A msg \in Sent(m)' : msg.state = "snapshot" /\ msg.cmd = None
             /\ Reported(m)' \subseteq {None}
  <2>1. Asked(m)' = {} /\ Len(toWorker'[m]) = 0 BY <1>4 DEF Asked
  <2> DEFINE first == [cmd |-> None, state |-> "snapshot",
                       revision |-> controlRevision'[m]]
  <2>2. /\ toAgent'[m] = <<first>>
        /\ first.state = "snapshot" /\ first.cmd = None
    BY <1>3
  <2> HIDE DEF first
  <2>3. Len(toAgent'[m]) = 1 /\ toAgent'[m][1] = first BY <2>2
  <2>4. \A msg \in Sent(m)' : msg = first BY <2>3 DEF Sent
  <2> QED BY <2>1, <2>2, <2>3, <2>4 DEF Reported
<1>6. Work'
  BY <1>2, <1>4
  DEF IInv, Work, NothingWhenDown, EffectsAreWork, ExecutingIsSerial,
      PendingIsSerial, Changes, Mutation, ReadOnly, IsAck, Start
<1>7. \A x \in Commands : world[x] \notin {"inflight"}
  BY <1>2 DEF IInv, EffectsAreWork, NothingWhenDown
<1>8. \A x \in Commands : world[x] = "orphaned" =>
         row[x].state # "absent" /\ row[x].state \notin Certain /\ Mutation(x)
  BY DEF IInv, LedgerCoversEffects, EffectsAreWork, Changes
<1>9. \A x \in Commands :
         /\ row'[x].state = "absent" <=> row[x].state = "absent"
         /\ world[x] = "orphaned" => row'[x].state \notin Certain
         /\ world[x] = "orphaned" /\ ~row'[x].resolved => row'[x].unresolved
  BY <1>2, <1>8 DEF Recovered, Certain
<1>10. LedgerCoversEffects'
  BY <1>2, <1>7, <1>9 DEF IInv, LedgerCoversEffects
<1>11. Requests'
  <2>1. RequestsAreNew' BY <1>5 DEF RequestsAreNew
  <2>2. RequestsAreDistinct' BY <1>5 DEF RequestsAreDistinct
  <2>3. ExecutingIsNew' BY <1>4 DEF ExecutingIsNew
  <2>4. AbsentIsUntouched'
    <3>1. \A x \in Commands : ModuleOf[x] \in Modules /\ x # None
      BY DEF HubAssumption
    <3> QED BY <1>2, <1>4, <1>5, <1>9, <3>1 DEF IInv, AbsentIsUntouched
  <2> QED BY <2>1, <2>2, <2>3, <2>4 DEF Requests
<1>12. Results'
  <2>1. ResultsAreTrue' BY <1>5 DEF ResultsAreTrue
  <2>2. GrantsFollowEffects' BY <1>5 DEF GrantsFollowEffects
  <2>3. GrantsSettleEndedEffects' BY <1>5 DEF GrantsSettleEndedEffects
  <2> QED BY <2>1, <2>2, <2>3 DEF Results
<1>13. OrphansAreLocked'
  <2>1. ASSUME NEW d \in Commands, world'[d] = "orphaned", ~row'[d].resolved
        PROVE  /\ row'[d].unresolved
               /\ ModuleOf[d] \in locked'
               /\ \A c : c \notin Asked(ModuleOf[d])' /\ c \notin executing'
    <3>1. row'[d].unresolved /\ ModuleOf[d] \in Modules
      BY <1>2, <1>9, <2>1 DEF HubAssumption
    <3> QED BY <1>2, <1>4, <1>5, <2>1, <3>1 DEF Interlocks, UnresolvedIn
  <2> QED BY <2>1 DEF OrphansAreLocked
<1> QED BY <1>6, <1>10, <1>11, <1>12, <1>13, IInvPartsNext

\* A command is accepted: its identifier was nowhere in the system.
LEMMA AcceptKeeps ==
    ASSUME HubAssumption, IInv, TypeOK',
           NEW c \in Commands, NEW expected \in Int, Accept(c, expected)
    PROVE  IInv'
<1> DEFINE m == ModuleOf[c]
           request == [cmd |-> c, expected |-> expected]
<1>1. TypeOK /\ m \in Modules BY DEF IInv, HubAssumption
<1>2. /\ up /\ row[c].state = "absent"
      /\ Changes(c) => m \notin locked
      /\ row' = [row EXCEPT ![c] = Reserved("accepted", moduleRevision[m])]
      /\ toWorker' = [toWorker EXCEPT ![m] = Append(@, request)]
      /\ UNCHANGED <<world, toAgent, serial, work, agentVars>>
  BY DEF Accept, Admissible
<1>3. /\ UNCHANGED <<world, up, locked, toAgent, active>>
      /\ UNCHANGED <<executing, pending, unknown, armed, window>>
  BY <1>2 DEF agentVars, serial, work
<1>4. RowIsNew(c)' /\ \A x \in Commands \ {c} : row'[x] = row[x]
  BY <1>1, <1>2 DEF TypeOK, RowIsNew, Reserved
<1>5. /\ \A n : UnknownIn(n)' = UnknownIn(n)
      /\ \A n : Sent(n)' = Sent(n) /\ Reported(n)' = Reported(n)
  BY <1>3 DEF UnknownIn, Sent, Reported
<1>6. /\ Len(toWorker[m]) \in Nat
      /\ Len(toWorker'[m]) = Len(toWorker[m]) + 1
      /\ \A i \in 1 .. Len(toWorker[m]) : toWorker'[m][i] = toWorker[m][i]
      /\ toWorker'[m][Len(toWorker[m]) + 1].cmd = c
      /\ \A n \in Modules \ {m} : toWorker'[n] = toWorker[n]
  <2>1. /\ toWorker[m] \in Seq(Request) /\ request \in Request
        /\ toWorker'[m] = Append(toWorker[m], request)
        /\ \A n \in Modules \ {m} : toWorker'[n] = toWorker[n]
    BY <1>1, <1>2 DEF TypeOK, Request
  <2>2. request.cmd = c OBVIOUS
  <2> HIDE DEF request
  <2> QED BY <2>1, <2>2, AppendElements
<1>7. /\ Asked(m)' = Asked(m) \union {c}
      /\ \A n \in Modules \ {m} : Asked(n)' = Asked(n)
  <2>1. Asked(m)' \subseteq Asked(m) \union {c}
    <3>1. ASSUME NEW i \in 1 .. Len(toWorker'[m])
          PROVE  toWorker'[m][i].cmd \in Asked(m) \union {c}
      <4>1. i \in 1 .. Len(toWorker[m]) \/ i = Len(toWorker[m]) + 1
        BY <1>6, <3>1
      <4> QED BY <1>6, <4>1 DEF Asked
    <3> QED BY <3>1 DEF Asked
  <2>2. ASSUME NEW i \in 1 .. Len(toWorker[m])
        PROVE  toWorker[m][i].cmd \in Asked(m)'
    <3>1. i \in 1 .. Len(toWorker'[m]) BY <1>6
    <3>2. toWorker'[m][i].cmd \in Asked(m)' BY <3>1 DEF Asked
    <3> QED BY <1>6, <3>2
  <2>3. Asked(m) \subseteq Asked(m)' BY <2>2 DEF Asked
  <2>4. c \in Asked(m)'
    <3>1. Len(toWorker[m]) + 1 \in 1 .. Len(toWorker'[m]) BY <1>6
    <3> QED BY <1>6, <3>1 DEF Asked
  <2>5. \A n \in Modules \ {m} : Asked(n)' = Asked(n) BY <1>6 DEF Asked
  <2> QED BY <2>1, <2>3, <2>4, <2>5
<1>8. /\ world[c] = "idle" /\ c \notin pending /\ c \notin Reported(m)
      /\ c \notin executing /\ c \notin Asked(m)
  BY <1>1, <1>2
  DEF IInv, AbsentIsUntouched, ExecutingIsNew, RequestsAreNew, RowIsNew
<1>9. Work'
  <2>1. NothingWhenDown' /\ EffectsAreWork'
    BY <1>2, <1>3, <1>5
    DEF IInv, Work, NothingWhenDown, EffectsAreWork, Changes, Mutation, ReadOnly
  <2>2. ExecutingIsSerial' /\ PendingIsSerial'
    BY <1>2, <1>3, <1>5
    DEF IInv, Work, ExecutingIsSerial, PendingIsSerial, Changes, Mutation, ReadOnly,
        IsAck
  <2> QED BY <2>1, <2>2 DEF Work
<1>10. Requests'
  <2>1. RequestsAreNew'
    <3>1. ASSUME NEW n \in Modules, NEW d \in Asked(n)', d # c
          PROVE  /\ ModuleOf[d] = n /\ world'[d] = "idle" /\ RowIsNew(d)'
                 /\ d \notin executing' \union pending' /\ d \notin Reported(n)'
      <4>1. d \in Asked(n) BY <1>7, <3>1
      <4>2. d \in Commands BY <1>1, <4>1, AskedType
      <4> QED BY <1>3, <1>4, <1>5, <3>1, <4>1, <4>2
              DEF IInv, RequestsAreNew, RowIsNew
    <3>2. ASSUME NEW n \in Modules, c \in Asked(n)'
          PROVE  n = m
      BY <1>7, <3>2 DEF IInv, RequestsAreNew
    <3> QED BY <1>3, <1>4, <1>5, <1>8, <3>1, <3>2 DEF RequestsAreNew
  <2>2. RequestsAreDistinct'
    <3>1. ASSUME NEW n \in Modules,
                 NEW i \in 1 .. Len(toWorker'[n]), NEW j \in 1 .. Len(toWorker'[n]),
                 toWorker'[n][i].cmd = toWorker'[n][j].cmd
          PROVE  i = j
      <4>1. CASE n # m
        BY <1>6, <3>1, <4>1 DEF IInv, RequestsAreDistinct
      <4>2. CASE n = m
        <5>1. /\ i \in 1 .. Len(toWorker[m]) + 1 /\ j \in 1 .. Len(toWorker[m]) + 1
              /\ toWorker'[m][i].cmd = toWorker'[m][j].cmd
          BY <1>6, <3>1, <4>2
        <5>2. \A k \in 1 .. Len(toWorker[m]) : toWorker'[m][k].cmd # c
          BY <1>6, <1>8 DEF Asked
        <5>3. CASE i \in 1 .. Len(toWorker[m]) /\ j \in 1 .. Len(toWorker[m])
          <6>1. toWorker[m][i].cmd = toWorker[m][j].cmd BY <1>6, <5>1, <5>3
          <6> QED BY <1>1, <5>3, <6>1 DEF IInv, RequestsAreDistinct
        <5>4. CASE i = Len(toWorker[m]) + 1 \/ j = Len(toWorker[m]) + 1
          <6>1. toWorker'[m][i].cmd = c BY <1>6, <5>1, <5>4
          <6>2. i \notin 1 .. Len(toWorker[m]) /\ j \notin 1 .. Len(toWorker[m])
            BY <5>1, <5>2, <6>1
          <6> QED BY <1>6, <5>1, <6>2
        <5> QED BY <1>6, <5>1, <5>3, <5>4
      <4> QED BY <4>1, <4>2
    <3> QED BY <3>1 DEF RequestsAreDistinct
  <2>3. ExecutingIsNew'
    <3>1. \A d \in executing : d \in Commands /\ d # c BY <1>1, <1>8 DEF TypeOK
    <3> QED BY <1>3, <1>4, <1>5, <3>1 DEF IInv, ExecutingIsNew, RowIsNew
  <2>4. AbsentIsUntouched'
    BY <1>3, <1>4, <1>5 DEF IInv, AbsentIsUntouched, RowIsNew
  <2> QED BY <2>1, <2>2, <2>3, <2>4 DEF Requests
<1>11. Results'
  <2>1. OnlyUnheardBegin BY <1>3 DEF OnlyUnheardBegin
  <2>2. \A x \in Commands : row'[x].unresolved => row[x].unresolved
    BY <1>4 DEF RowIsNew
  <2> QED BY <1>3, <2>1, <2>2, ResultsKept, IInvParts
<1>12. LedgerCoversEffects'
  BY <1>3, <1>4, <1>8 DEF IInv, LedgerCoversEffects, RowIsNew, Certain
<1>13. OrphansAreLocked'
  <2>1. ASSUME NEW d \in Commands, world'[d] = "orphaned", ~row'[d].resolved
        PROVE  /\ row'[d].unresolved
               /\ ModuleOf[d] \in locked'
               /\ \A x \in Commands :
                     Changes(x) /\ ModuleOf[x] = ModuleOf[d] =>
                         x \notin Asked(ModuleOf[d])' /\ x \notin executing'
    <3>1. d # c /\ world[d] = "orphaned" /\ row'[d] = row[d]
      BY <1>3, <1>4, <1>8, <2>1
    <3>2. /\ row[d].unresolved /\ ModuleOf[d] \in locked
          /\ \A x \in Commands :
                Changes(x) /\ ModuleOf[x] = ModuleOf[d] =>
                    x \notin Asked(ModuleOf[d]) /\ x \notin executing
      BY <1>2, <2>1, <3>1 DEF IInv, OrphansAreLocked
    <3>3. ModuleOf[d] \in Modules BY DEF HubAssumption
    <3> QED BY <1>2, <1>3, <1>7, <3>1, <3>2, <3>3
  <2> QED BY <2>1 DEF OrphansAreLocked, Changes, Mutation, ReadOnly, IsAck
<1> QED BY <1>9, <1>10, <1>11, <1>12, <1>13, IInvPartsNext

\* A stale command is refused: only the row of an unknown identifier changes.
LEMMA RefuseStaleKeeps ==
    ASSUME HubAssumption, IInv, TypeOK',
           NEW c \in Commands, NEW expected \in Int, RefuseStale(c, expected)
    PROVE  IInv'
<1>1. TypeOK /\ ModuleOf[c] \in Modules BY DEF IInv, HubAssumption
<1>2. /\ row[c].state = "absent"
      /\ row' = [row EXCEPT ![c] = Reserved("failed", moduleRevision[ModuleOf[c]])]
      /\ UNCHANGED <<world, toWorker, toAgent, serial, work, agentVars>>
  BY DEF RefuseStale, Admissible
<1>3. /\ UNCHANGED <<world, up, locked, toWorker, toAgent, active>>
      /\ UNCHANGED <<executing, pending, unknown, armed, window>>
  BY <1>2 DEF agentVars, serial, work
<1>4. /\ row'[c].state = "failed" /\ ~row'[c].unresolved
      /\ \A x \in Commands \ {c} : row'[x] = row[x]
  BY <1>1, <1>2 DEF TypeOK, Reserved
<1>5. \A n : /\ UnknownIn(n)' = UnknownIn(n) /\ Asked(n)' = Asked(n)
             /\ Sent(n)' = Sent(n) /\ Reported(n)' = Reported(n)
  BY <1>3 DEF UnknownIn, Asked, Sent, Reported
<1>6. /\ world[c] = "idle"
      /\ c \notin executing /\ \A n \in Modules : c \notin Asked(n)
  BY <1>1, <1>2
  DEF IInv, AbsentIsUntouched, ExecutingIsNew, RequestsAreNew, RowIsNew
<1>7. Work'
  BY <1>3, <1>5
  DEF IInv, Work, NothingWhenDown, EffectsAreWork, ExecutingIsSerial,
      PendingIsSerial, Changes, Mutation, ReadOnly, IsAck
<1>8. Requests'
  <2>1. RequestsAreNew'
    BY <1>1, <1>3, <1>4, <1>5, <1>6, AskedType DEF IInv, RequestsAreNew, RowIsNew
  <2>2. RequestsAreDistinct' BY <1>3 DEF IInv, RequestsAreDistinct
  <2>3. ExecutingIsNew'
    <3>1. \A d \in executing : d \in Commands /\ d # c BY <1>1, <1>6 DEF TypeOK
    <3> QED BY <1>3, <1>4, <1>5, <3>1 DEF IInv, ExecutingIsNew, RowIsNew
  <2>4. AbsentIsUntouched' BY <1>3, <1>4, <1>5 DEF IInv, AbsentIsUntouched
  <2> QED BY <2>1, <2>2, <2>3, <2>4 DEF Requests
<1>9. Results'
  <2>1. OnlyUnheardBegin BY <1>3 DEF OnlyUnheardBegin
  <2>2. \A x \in Commands : row'[x].unresolved => row[x].unresolved BY <1>4
  <2> QED BY <1>3, <2>1, <2>2, ResultsKept, IInvParts
<1>10. LedgerCoversEffects'
  BY <1>3, <1>4, <1>6 DEF IInv, LedgerCoversEffects, Certain
<1>11. OrphansAreLocked'
  BY <1>3, <1>4, <1>5, <1>6
  DEF IInv, OrphansAreLocked, Changes, Mutation, ReadOnly, IsAck
<1> QED BY <1>7, <1>8, <1>9, <1>10, <1>11, IInvPartsNext

\* The oldest result of a module leaves its queue; what it may add to the
\* unknown outcomes is not under way if an acknowledgement follows it.
LEMMA ResultsDequeued ==
    ASSUME HubAssumption, IInv, NEW m \in Modules,
           toAgent[m] # <<>>, Dequeue(m),
           \A d \in Commands : row'[d].unresolved =>
              \/ row[d].unresolved
              \/ Head(toAgent[m]).state # "snapshot" /\ d = Head(toAgent[m]).cmd
    PROVE  Results'
<1> DEFINE head == Head(toAgent[m])
<1>1. TypeOK BY DEF IInv
<1>2. /\ head \in Sent(m) /\ head = toAgent[m][1]
      /\ \A n \in Modules : Sent(n)' \subseteq Sent(n)
      /\ \A n \in Modules \ {m} : toAgent'[n] = toAgent[n]
      /\ Len(toAgent[m]) \in Nat \ {0}
      /\ Len(toAgent'[m]) = Len(toAgent[m]) - 1
      /\ \A i \in 1 .. Len(toAgent[m]) - 1 : toAgent'[m][i] = toAgent[m][i + 1]
  BY <1>1, DequeueTakes
<1>3. UNCHANGED world BY DEF Dequeue
<1>4. ResultsAreTrue' BY <1>2, <1>3 DEF IInv, ResultsAreTrue, Certain
<1>5. GrantsFollowEffects'
  <2>1. ASSUME NEW n \in Modules,
               NEW i \in 1 .. Len(toAgent'[n]), NEW j \in 1 .. Len(toAgent'[n]),
               i < j,
               toAgent'[n][j].state # "snapshot", Granted(toAgent'[n][j]),
               toAgent'[n][i].state # "snapshot"
        PROVE  world'[toAgent'[n][i].cmd] # "inflight"
    <3>1. CASE n # m
      BY <1>2, <1>3, <2>1, <3>1 DEF IInv, GrantsFollowEffects
    <3>2. CASE n = m
      <4>1. i \in 1 .. Len(toAgent[m]) - 1 /\ j \in 1 .. Len(toAgent[m]) - 1
        BY <1>2, <2>1, <3>2
      <4>2. /\ toAgent'[m][i] = toAgent[m][i + 1]
            /\ toAgent'[m][j] = toAgent[m][j + 1]
        BY <1>2, <4>1
      <4>3. /\ i + 1 \in 1 .. Len(toAgent[m]) /\ j + 1 \in 1 .. Len(toAgent[m])
            /\ i + 1 < j + 1
        BY <1>2, <2>1, <4>1
      <4>4. world[toAgent[m][i + 1].cmd] # "inflight"
        BY <2>1, <3>2, <4>2, <4>3 DEF IInv, GrantsFollowEffects
      <4> QED BY <1>3, <3>2, <4>2, <4>4
    <3> QED BY <3>1, <3>2
  <2> QED BY <2>1 DEF GrantsFollowEffects, Granted, IsAck
<1>6. GrantsSettleEndedEffects'
  <2>1. ASSUME NEW n \in Modules, NEW msg \in Sent(n)', msg.state # "snapshot",
               Granted(msg), NEW d \in Commands, ModuleOf[d] = n, row'[d].unresolved
        PROVE  world'[d] # "inflight"
    <3>1. CASE row[d].unresolved
      BY <1>2, <1>3, <2>1, <3>1 DEF IInv, GrantsSettleEndedEffects
    <3>2. CASE head.state # "snapshot" /\ d = head.cmd
      <4>1. n = m BY <1>2, <2>1, <3>2 DEF IInv, ResultsAreTrue
      <4>2. PICK i \in 1 .. Len(toAgent'[m]) : toAgent'[m][i] = msg
        BY <2>1, <4>1 DEF Sent
      <4>3. i \in 1 .. Len(toAgent[m]) - 1 BY <1>2, <4>2
      <4>4. toAgent[m][i + 1] = msg BY <1>2, <4>2, <4>3
      <4>5. /\ 1 \in 1 .. Len(toAgent[m]) /\ i + 1 \in 1 .. Len(toAgent[m])
            /\ 1 < i + 1
        BY <1>2, <4>3
      <4>6. world[toAgent[m][1].cmd] # "inflight"
        BY <1>2, <2>1, <3>2, <4>4, <4>5 DEF IInv, GrantsFollowEffects
      <4> QED BY <1>2, <1>3, <3>2, <4>6
    <3> QED BY <2>1, <3>1, <3>2
  <2> QED BY <2>1 DEF GrantsSettleEndedEffects, Granted, IsAck
<1> QED BY <1>4, <1>5, <1>6 DEF Results

\* The Agent takes a snapshot.
LEMMA SnapshotKeeps ==
    ASSUME HubAssumption, IInv, TypeOK', NEW m \in Modules, TakeSnapshot(m)
    PROVE  IInv'
<1>1. TypeOK BY DEF IInv
<1>2. /\ up /\ toAgent[m] # <<>> /\ Dequeue(m)
      /\ UNCHANGED <<row, locked>>
  BY DEF TakeSnapshot, Receive
<1>3. /\ UNCHANGED <<world, up, toWorker, active>>
      /\ UNCHANGED <<executing, pending, unknown, armed, window>>
  BY <1>2 DEF Dequeue, serial, work
<1>4. /\ \A n : UnknownIn(n)' = UnknownIn(n) /\ Asked(n)' = Asked(n)
      /\ \A n \in Modules : Reported(n)' \subseteq Reported(n)
  BY <1>1, <1>2, <1>3, DequeueTakes DEF UnknownIn, Asked
<1>5. Work'
  BY <1>2, <1>3, <1>4
  DEF IInv, Work, NothingWhenDown, EffectsAreWork, ExecutingIsSerial,
      PendingIsSerial, Changes, Mutation, ReadOnly, IsAck
<1>6. Requests'
  <2>1. \A d \in Commands : ModuleOf[d] \in Modules BY DEF HubAssumption
  <2>2. RequestsAreNew' BY <1>2, <1>3, <1>4 DEF IInv, RequestsAreNew, RowIsNew
  <2>3. RequestsAreDistinct' BY <1>3 DEF IInv, RequestsAreDistinct
  <2>4. ExecutingIsNew'
    <3>1. \A d \in executing : d \in Commands BY <1>1 DEF TypeOK
    <3> QED BY <1>2, <1>3, <1>4, <2>1, <3>1 DEF IInv, ExecutingIsNew, RowIsNew
  <2>5. AbsentIsUntouched' BY <1>2, <1>3, <1>4, <2>1 DEF IInv, AbsentIsUntouched
  <2> QED BY <2>2, <2>3, <2>4, <2>5 DEF Requests
<1>7. Results' BY <1>2, ResultsDequeued
<1>8. LedgerCoversEffects' BY <1>2, <1>3 DEF IInv, LedgerCoversEffects, Certain
<1>9. OrphansAreLocked'
  BY <1>2, <1>3, <1>4
  DEF IInv, OrphansAreLocked, Changes, Mutation, ReadOnly, IsAck
<1> QED BY <1>5, <1>6, <1>7, <1>8, <1>9, IInvPartsNext

\* The Agent takes a result: the ledger and the interlock follow it.
LEMMA ResultKeeps ==
    ASSUME HubAssumption, IInv, TypeOK', NEW m \in Modules,
           NEW wrote \in BOOLEAN, NEW cleared \in BOOLEAN,
           TakeResult(m, Head(toAgent[m]), wrote, cleared)
    PROVE  IInv'
<1> DEFINE msg == Head(toAgent[m])
           ledger == Written(msg, wrote)
<1>1. TypeOK BY DEF IInv
<1>2. /\ up /\ toAgent[m] # <<>> /\ Dequeue(m)
      /\ msg.state # "snapshot"
      /\ row' = IF Granted(msg) /\ cleared THEN ResolveModule(ledger, m) ELSE ledger
      /\ locked' = LockedAfter(m, msg, ledger, Asks(m, msg, wrote), cleared)
  BY DEF TakeResult, Receive
<1>3. /\ UNCHANGED <<world, up, toWorker, active>>
      /\ UNCHANGED <<executing, pending, unknown, armed, window>>
  BY <1>2 DEF Dequeue, serial, work
<1>4. /\ \A n : UnknownIn(n)' = UnknownIn(n) /\ Asked(n)' = Asked(n)
      /\ \A n \in Modules : Reported(n)' \subseteq Reported(n)
      /\ msg \in Sent(m)
  BY <1>1, <1>2, <1>3, DequeueTakes DEF UnknownIn, Asked
<1>5. /\ msg.cmd \in Commands /\ ModuleOf[msg.cmd] = m
      /\ msg.cmd \in Reported(m)
      /\ world[msg.cmd] # "orphaned"
      /\ msg.state \in Certain => world[msg.cmd] # "inflight"
  BY <1>2, <1>4 DEF IInv, ResultsAreTrue, Reported
<1>6. msg.state # "absent"
  <2>1. msg \in Message BY <1>1, <1>2, HeadType
  <2> QED BY <2>1 DEF Message, Open, Terminal, Certain
<1>7. /\ DOMAIN ledger = Commands
      /\ \A x \in Commands : x # msg.cmd => ledger[x] = row[x]
      /\ ledger[msg.cmd].state \in {msg.state, row[msg.cmd].state}
      /\ wrote => ledger[msg.cmd].state = msg.state
      /\ ~wrote => ledger = row
  BY <1>1, <1>5 DEF Written, Updated, TypeOK
<1>8. ledger \in [Commands -> Row]
  BY <1>1, <1>2, HeadType, WrittenType
<1> HIDE DEF ledger
<1>9. ASSUME NEW x \in Commands
      PROVE  /\ row'[x].state = ledger[x].state
             /\ row'[x].unresolved = ledger[x].unresolved
             /\ ~ledger[x].unresolved => row'[x] = ledger[x]
             /\ ~row'[x].resolved => ~ledger[x].resolved
             /\ Granted(msg) /\ cleared /\ ModuleOf[x] = m /\ ledger[x].unresolved
                   => row'[x].resolved
  <2>1. ledger[x] \in Row BY <1>8
  <2>2. CASE Granted(msg) /\ cleared
    BY <1>2, <2>1, <2>2 DEF ResolveModule, UnresolvedIn, Row
  <2>3. CASE ~(Granted(msg) /\ cleared)
    BY <1>2, <2>3
  <2> QED BY <2>2, <2>3
<1>10. Work'
  BY <1>2, <1>3, <1>4
  DEF IInv, Work, NothingWhenDown, EffectsAreWork, ExecutingIsSerial,
      PendingIsSerial, Changes, Mutation, ReadOnly, IsAck
<1>11. ASSUME NEW x \in Commands, RowIsNew(x), x # msg.cmd
       PROVE  RowIsNew(x)'
  BY <1>7, <1>9, <1>11 DEF RowIsNew
<1>12. Requests'
  <2>1. \A d \in Commands : ModuleOf[d] \in Modules BY DEF HubAssumption
  <2>2. RequestsAreNew'
    <3>1. ASSUME NEW n \in Modules, NEW d \in Asked(n)'
          PROVE  /\ ModuleOf[d] = n /\ world'[d] = "idle" /\ RowIsNew(d)'
                 /\ d \notin executing' \union pending' /\ d \notin Reported(n)'
      <4>1. d \in Asked(n) BY <1>4, <3>1
      <4>2. /\ ModuleOf[d] = n /\ world[d] = "idle" /\ RowIsNew(d)
            /\ d \notin executing \union pending /\ d \notin Reported(n)
        BY <4>1 DEF IInv, RequestsAreNew
      <4>3. d \in Commands /\ d # msg.cmd
        BY <1>1, <1>5, <4>1, <4>2, AskedType
      <4> QED BY <1>3, <1>4, <1>11, <4>2, <4>3
    <3> QED BY <3>1 DEF RequestsAreNew
  <2>3. RequestsAreDistinct' BY <1>3 DEF IInv, RequestsAreDistinct
  <2>4. ExecutingIsNew'
    <3>1. ASSUME NEW d \in executing
          PROVE  RowIsNew(d)' /\ d \notin Reported(ModuleOf[d])'
      <4>1. d \in Commands BY <1>1 DEF TypeOK
      <4>2. RowIsNew(d) /\ d \notin Reported(ModuleOf[d])
        BY DEF IInv, ExecutingIsNew
      <4> QED BY <1>4, <1>5, <1>11, <2>1, <4>1, <4>2
    <3> QED BY <1>3, <3>1 DEF ExecutingIsNew
  <2>5. AbsentIsUntouched'
    <3>1. \A x \in Commands : row'[x].state = "absent" => row[x].state = "absent"
      BY <1>6, <1>7, <1>9
    <3> QED BY <1>3, <1>4, <2>1, <3>1 DEF IInv, AbsentIsUntouched
  <2> QED BY <2>2, <2>3, <2>4, <2>5 DEF Requests
<1>13. Results'
  <2>1. \A d \in Commands : row'[d].unresolved => row[d].unresolved \/ d = msg.cmd
    BY <1>7, <1>9
  <2> QED BY <1>2, <2>1, ResultsDequeued
<1>14. LedgerCoversEffects'
  <2>1. \A x \in Commands :
           \/ row'[x].state = row[x].state
           \/ x = msg.cmd /\ row'[x].state = msg.state
    BY <1>7, <1>9
  <2> QED BY <1>3, <1>5, <1>6, <2>1 DEF IInv, LedgerCoversEffects, Certain
<1>15. OrphansAreLocked'
  <2>1. ASSUME NEW d \in Commands, world'[d] = "orphaned", ~row'[d].resolved
        PROVE  /\ row'[d].unresolved
               /\ ModuleOf[d] \in locked'
               /\ \A x \in Commands :
                     Changes(x) /\ ModuleOf[x] = ModuleOf[d] =>
                         x \notin Asked(ModuleOf[d])' /\ x \notin executing'
    <3>1. d # msg.cmd /\ ledger[d] = row[d]
      BY <1>3, <1>5, <1>7, <2>1
    <3>2. ~row[d].resolved BY <1>9, <2>1, <3>1
    <3>3. /\ row[d].unresolved
          /\ ModuleOf[d] \in locked
          /\ \A x \in Commands :
                Changes(x) /\ ModuleOf[x] = ModuleOf[d] =>
                    x \notin Asked(ModuleOf[d]) /\ x \notin executing
      BY <1>2, <1>3, <2>1, <3>2 DEF IInv, OrphansAreLocked
    <3>4. ~(Granted(msg) /\ cleared /\ ModuleOf[d] = m)
      BY <1>9, <2>1, <3>1, <3>3
    <3>5. ModuleOf[d] = m => UnresolvedIn(ledger, m) # {}
      BY <3>1, <3>2, <3>3 DEF UnresolvedIn
    <3>6. ModuleOf[d] \in locked'
      BY <1>2, <3>3, <3>4, <3>5 DEF LockedAfter
    <3> QED BY <1>3, <1>4, <1>9, <3>1, <3>3, <3>6
  <2> QED BY <2>1 DEF OrphansAreLocked, Changes, Mutation, ReadOnly, IsAck
<1> QED BY <1>10, <1>12, <1>13, <1>14, <1>15, IInvPartsNext

\* Every step keeps the invariant.
LEMMA StepKeeps ==
    ASSUME HubAssumption, IInv, [Next]_vars
    PROVE  IInv'
<1>1. TypeOK' BY StepType DEF IInv
<1>2. CASE UNCHANGED vars
  <2>1. UNCHANGED Concerned
    BY <1>2 DEF vars, durable, agentVars, serial, work, Concerned
  <2> QED BY <1>1, <2>1, Unconcerned
<1>3. CASE Start BY <1>1, <1>3, StartKeeps
<1>4. CASE Crash BY <1>1, <1>4, LoseKeeps DEF Crash
<1>5. CASE JournalFails
  <2>1. UNCHANGED Concerned
    BY <1>5 DEF JournalFails, durable, serial, work, Concerned
  <2> QED BY <1>1, <2>1, Unconcerned
<1>6. CASE AuditReadyChanged
  <2>1. UNCHANGED Concerned
    BY <1>6 DEF AuditReadyChanged, durable, serial, work, Concerned
  <2> QED BY <1>1, <2>1, Unconcerned
<1>7. ASSUME NEW c \in Commands, Submit(c) PROVE IInv'
  <2>1. PICK expected \in Int : Accept(c, expected) \/ RefuseStale(c, expected)
    BY <1>7 DEF Submit
  <2> QED BY <1>1, <2>1, AcceptKeeps, RefuseStaleKeeps
<1>8. ASSUME NEW c \in Commands, CommandEvent(c) PROVE IInv'
  BY <1>1, <1>8, EventKeeps
<1>9. ASSUME NEW m \in Modules, WorkerStep(m) PROVE IInv'
  BY <1>1, <1>9, WorkerKeeps
<1>10. ASSUME NEW m \in Modules, AgentStep(m) PROVE IInv'
  BY <1>1, <1>10, SnapshotKeeps, ResultKeeps DEF AgentStep
<1>11. ASSUME NEW m \in Modules, CrashInAck(m) PROVE IInv'
  BY <1>1, <1>11, CrashInAckKeeps
<1> QED BY <1>2, <1>3, <1>4, <1>5, <1>6, <1>7, <1>8, <1>9, <1>10, <1>11 DEF Next

\* The invariant holds before the first start.
LEMMA InitKeeps ==
    ASSUME HubAssumption, Init
    PROVE  IInv
<1>1. TypeOK BY InitType
<1>2. /\ \A c \in Commands : world[c] = "idle" /\ row[c].state = "absent"
      /\ executing = {} /\ pending = {} /\ unknown = {} /\ armed = {}
      /\ up = FALSE
      /\ \A m \in Modules : toWorker[m] = <<>> /\ toAgent[m] = <<>>
  BY DEF Init, NoRow
<1>3. \A m \in Modules : /\ Len(toWorker[m]) = 0 /\ Len(toAgent[m]) = 0
                         /\ Asked(m) = {} /\ Sent(m) = {} /\ Reported(m) = {}
  BY <1>2 DEF Asked, Sent, Reported
<1>4. \A c \in Commands : ModuleOf[c] \in Modules BY DEF HubAssumption
<1>5. NothingWhenDown /\ EffectsAreWork /\ ExecutingIsSerial /\ PendingIsSerial
  BY <1>2 DEF NothingWhenDown, EffectsAreWork, ExecutingIsSerial, PendingIsSerial
<1>6. RequestsAreNew /\ RequestsAreDistinct /\ ExecutingIsNew /\ AbsentIsUntouched
  BY <1>2, <1>3, <1>4
  DEF RequestsAreNew, RequestsAreDistinct, ExecutingIsNew, AbsentIsUntouched
<1>7. ResultsAreTrue /\ GrantsFollowEffects /\ GrantsSettleEndedEffects
  BY <1>3 DEF ResultsAreTrue, GrantsFollowEffects, GrantsSettleEndedEffects
<1>8. LedgerCoversEffects /\ OrphansAreLocked
  BY <1>2 DEF LedgerCoversEffects, OrphansAreLocked
<1> QED BY <1>1, <1>5, <1>6, <1>7, <1>8 DEF IInv

\* The inductive invariant is invariant.
THEOREM Invariance == Spec => []IInv
<1>1. Init => IInv BY HubAssumption, InitKeeps
<1>2. IInv /\ [Next]_vars => IInv' BY HubAssumption, StepKeeps
<1> QED BY <1>1, <1>2, PTL DEF Spec

\* The ledger is written ahead of every effect, and never calls an effect
\* certain that is still under way or was left behind.
THEOREM LedgerAhead == Spec => []LedgerCoversEffects
<1>1. IInv => LedgerCoversEffects BY DEF IInv
<1> QED BY <1>1, Invariance, PTL

-----------------------------------------------------------------------------
(* HubControl implements ModuleEffects.                                    *)

Reconciled == {c \in Commands : Changes(c) /\ row[c].resolved}

\* Nothing threatens a change that waits or is being executed.
LEMMA NothingThreatens ==
    ASSUME HubAssumption, IInv, up,
           NEW c \in Commands, Changes(c),
           c \in Asked(ModuleOf[c]) \union executing,
           \A d \in Commands : d # c /\ ModuleOf[d] = ModuleOf[c] =>
              world[d] # "inflight"
    PROVE  Effects!Alone(c)
<1>1. ASSUME NEW d \in Commands, ModuleOf[d] = ModuleOf[c], world[d] = "orphaned"
      PROVE  d \in Reconciled
  <2>1. Changes(d) BY <1>1 DEF IInv, EffectsAreWork
  <2>2. row[d].resolved BY <1>1 DEF IInv, OrphansAreLocked
  <2> QED BY <2>1, <2>2 DEF Reconciled
<1> QED BY <1>1 DEF Effects!Alone, Effects!Threatens, Reconciled

\* A change takes effect.
LEMMA TakesEffect ==
    ASSUME HubAssumption, NEW c \in Commands, world[c] = "idle", Effects!Alone(c),
           NEW outcome \in {"inflight", "done"},
           world' = [world EXCEPT ![c] = outcome], UNCHANGED row
    PROVE  Effects!Next
<1>1. Reconciled' = Reconciled
  BY DEF Reconciled, Changes, Mutation, ReadOnly, IsAck
<1>2. Effects!Take(c) BY <1>1 DEF Effects!Take, Reconciled
<1> QED BY <1>2 DEF Effects!Next

\* An effect is over.
LEMMA EndsEffect ==
    ASSUME NEW c \in Commands, world[c] \in {"inflight", "orphaned"},
           world' = [world EXCEPT ![c] = "done"], UNCHANGED row
    PROVE  Effects!Next
<1>1. Reconciled' = Reconciled
  BY DEF Reconciled, Changes, Mutation, ReadOnly, IsAck
<1>2. Effects!End(c) BY <1>1 DEF Effects!End, Reconciled
<1> QED BY <1>2 DEF Effects!Next

\* Only the ledger moves, and it newly resolves nothing that is under way.
LEMMA ReconcilesOnly ==
    ASSUME UNCHANGED world,
           \A c \in Commands :
              Changes(c) /\ row'[c].resolved /\ ~row[c].resolved =>
                  world[c] # "inflight"
    PROVE  Effects!Next
<1>1. Reconciled' \in SUBSET Commands
      /\ \A c \in Reconciled' \ Reconciled : world[c] # "inflight"
  BY DEF Reconciled, Changes, Mutation, ReadOnly, IsAck
<1>2. Effects!Reconcile BY <1>1 DEF Effects!Reconcile, Reconciled
<1> QED BY <1>2 DEF Effects!Next

\* What a step of HubControl is to ModuleEffects: a step, or none at all.
Implemented == Effects!Next \/ UNCHANGED Effects!vars

\* A step that leaves the effects and the ledger alone is none at all.
LEMMA NoEffect ==
    ASSUME UNCHANGED world, UNCHANGED row
    PROVE  Implemented
<1>1. Reconciled' = Reconciled
  BY DEF Reconciled, Changes, Mutation, ReadOnly, IsAck
<1> QED BY <1>1 DEF Implemented, Effects!vars, Reconciled

\* A change a worker takes from its queue takes effect alone.
LEMMA WorkerImplements ==
    ASSUME HubAssumption, IInv, NEW m \in Modules, WorkerStep(m)
    PROVE  Implemented
<1>1. PICK c \in Commands :
         \/ RefuseAtGate(m, c) \/ RefuseCommand(m, c) \/ AnswerAtOnce(m, c)
         \/ RunNative(m, c) \/ Begin(m, c) \/ BeginLaunchd(m, c)
         \/ RefuseAck(m, c) \/ GrantAck(m, c)
  BY DEF WorkerStep
<1>2. Take(m, c)
  BY <1>1 DEF RefuseAtGate, RefuseCommand, AnswerAtOnce, RunNative, Begin,
              BeginLaunchd, RefuseAck, GrantAck
<1>3. UNCHANGED row BY <1>2 DEF Take
<1>4. CASE UNCHANGED world BY <1>3, <1>4, NoEffect
<1>5. CASE (RunNative(m, c) \/ Begin(m, c)) /\ Mutation(c)
  <2>1. PICK outcome \in {"inflight", "done"} :
           world' = [world EXCEPT ![c] = outcome]
    BY <1>5 DEF RunNative, Begin
  <2>2. Admitted(m, c) /\ KindOf[c] \in {"native", "engine"}
    BY <1>5 DEF RunNative, Begin, Mutation, ReadOnly
  <2>3. /\ Changes(c) /\ active[m] = None /\ UnknownIn(m) = {}
    BY <2>2 DEF Admitted, PassesGate, PassesInterlock, Busy, Observe,
                Changes, Mutation, ReadOnly, IsAck
  <2>4. /\ ModuleOf[c] = m /\ up /\ c \in Asked(m) /\ world[c] = "idle"
    BY <1>2, Taken
  <2>5. \A d \in Commands : ModuleOf[d] = m => world[d] # "inflight"
    BY <2>3, NothingUnderWay
  <2>6. Effects!Alone(c) BY <2>3, <2>4, <2>5, NothingThreatens
  <2> QED BY <1>3, <2>1, <2>4, <2>6, TakesEffect DEF Implemented
<1>6. UNCHANGED world \/ ((RunNative(m, c) \/ Begin(m, c)) /\ Mutation(c))
  BY <1>1 DEF RefuseAtGate, RefuseCommand, AnswerAtOnce, RunNative, Begin,
              BeginLaunchd, RefuseAck, GrantAck, Mutation, ReadOnly
<1> QED BY <1>4, <1>5, <1>6

\* What LifecycleController executes is alone in its module.
LEMMA ExecutesAlone ==
    ASSUME HubAssumption, IInv, NEW c \in executing
    PROVE  Effects!Alone(c)
<1>1. up BY DEF IInv, NothingWhenDown
<1>2. /\ c \in Commands /\ Changes(c)
      /\ \A d \in Commands : d # c /\ ModuleOf[d] = ModuleOf[c] =>
            world[d] # "inflight"
  BY ExecutingIsAlone
<1> QED BY <1>1, <1>2, NothingThreatens

\* LifecycleController ends a change that has begun, or has just been carried
\* out while the controller looked on, or is long over.
LEMMA EndImplements ==
    ASSUME HubAssumption, IInv, NEW c \in Commands,
           (c \in executing) \/ (c \in pending /\ Mutation(c)),
           UNCHANGED row, world' = [world EXCEPT ![c] = "done"]
    PROVE  Implemented
<1>1. world \in [Commands -> {"idle", "inflight", "orphaned", "done"}]
  BY DEF IInv, TypeOK
<1>2. CASE world[c] = "idle"
  <2>1. c \in executing BY <1>2 DEF IInv, PendingIsSerial
  <2> QED BY <1>2, <2>1, ExecutesAlone, TakesEffect DEF Implemented
<1>3. CASE world[c] \in {"inflight", "orphaned"}
  BY <1>3, EndsEffect DEF Implemented
<1>4. CASE world[c] = "done"
  <2>1. world' = world BY <1>1, <1>4
  <2> QED BY <2>1, NoEffect
<1> QED BY <1>1, <1>2, <1>3, <1>4

\* The later events of a command begin nothing but what LifecycleController
\* executes, and end what has begun.
LEMMA EventImplements ==
    ASSUME HubAssumption, IInv, NEW c \in Commands, CommandEvent(c)
    PROVE  Implemented
<1>1. UNCHANGED row
  BY DEF CommandEvent, Deadline, Finish, FinishUncertain, LifecycleMutate,
         LifecycleFinishes, LifecycleCertain, LifecycleUncertain,
         AwaitReadiness, LifecycleEnds, WindowExpires, EffectEnds, Quiet
<1>2. CASE UNCHANGED world BY <1>1, <1>2, NoEffect
<1>3. ASSUME NEW state \in Certain, Finish(c, state), Mutation(c)
      PROVE  Implemented
  BY <1>1, <1>3, EndImplements DEF Finish
<1>4. CASE LifecycleMutate(c)
  <2>1. c \in executing /\ world[c] = "idle"
        /\ world' = [world EXCEPT ![c] = "inflight"]
    BY <1>4 DEF LifecycleMutate
  <2> QED BY <1>1, <2>1, ExecutesAlone, TakesEffect DEF Implemented
<1>5. CASE LifecycleFinishes(c) /\ world' = [world EXCEPT ![c] = "done"]
  <2>1. c \in executing
    BY <1>5 DEF LifecycleFinishes, LifecycleCertain, LifecycleUncertain,
                AwaitReadiness, LifecycleEnds
  <2> QED BY <1>1, <1>5, <2>1, EndImplements
<1>6. CASE EffectEnds(c)
  BY <1>1, <1>6, EndsEffect DEF EffectEnds, Implemented
<1>7. CASE LifecycleFinishes(c)
  <2>1. UNCHANGED world \/ world' = [world EXCEPT ![c] = "done"]
    BY <1>7 DEF LifecycleFinishes, LifecycleCertain, LifecycleUncertain,
                AwaitReadiness
  <2> QED BY <1>2, <1>5, <1>7, <2>1
<1>8. CASE Deadline(c) \/ FinishUncertain(c) \/ WindowExpires(c)
  BY <1>2, <1>8 DEF Deadline, FinishUncertain, WindowExpires
<1>9. CASE \E state \in Certain : Finish(c, state)
  BY <1>2, <1>3, <1>9 DEF Finish
<1> QED BY <1>4, <1>6, <1>7, <1>8, <1>9 DEF CommandEvent

\* A dying process leaves behind what was under way, and reconciles nothing.
LEMMA LoseImplements ==
    ASSUME HubAssumption, IInv, NEW ledger, Lose(ledger),
           \A x \in Commands : Changes(x) => ledger[x].resolved = row[x].resolved
    PROVE  Implemented
<1>1. row' = ledger
      /\ world' = [x \in Commands |->
                     IF world[x] = "inflight" THEN "orphaned" ELSE world[x]]
  BY DEF Lose
<1>2. Reconciled' = Reconciled
  BY <1>1 DEF Reconciled, Changes, Mutation, ReadOnly, IsAck
<1>3. Effects!Orphan BY <1>1, <1>2 DEF Effects!Orphan, Reconciled
<1> QED BY <1>3 DEF Implemented, Effects!Next

LEMMA CrashInAckImplements ==
    ASSUME HubAssumption, IInv, NEW m \in Modules, CrashInAck(m)
    PROVE  Implemented
<1> DEFINE msg == Head(toAgent[m])
<1>1. IsAck(msg.cmd) /\ Lose(Written(msg, TRUE))
  BY DEF CrashInAck
<1>2. \A x \in Commands :
         Changes(x) => Written(msg, TRUE)[x].resolved = row[x].resolved
  BY <1>1 DEF Written, Changes, IInv, TypeOK
<1> QED BY <1>1, <1>2, LoseImplements

\* Starting resolves no change.
LEMMA StartImplements ==
    ASSUME HubAssumption, IInv, Start
    PROVE  Implemented
<1>1. UNCHANGED world /\ row' = [c \in Commands |-> Recovered(c)]
  BY DEF Start
<1>2. \A c \in Commands : Changes(c) /\ Recovered(c).resolved => row[c].resolved
  BY DEF Recovered, Changes, Mutation
<1> QED BY <1>1, <1>2, ReconcilesOnly DEF Implemented

\* A submission resolves nothing.
LEMMA SubmitImplements ==
    ASSUME HubAssumption, IInv, NEW c \in Commands, Submit(c)
    PROVE  Implemented
<1>1. PICK expected \in Int : Accept(c, expected) \/ RefuseStale(c, expected)
  BY DEF Submit
<1>2. PICK state, revision : UNCHANGED world
                             /\ row' = [row EXCEPT ![c] = Reserved(state, revision)]
  BY <1>1 DEF Accept, RefuseStale
<1>3. \A d \in Commands : row'[d].resolved => row[d].resolved
  BY <1>2 DEF Reserved, IInv, TypeOK
<1> QED BY <1>2, <1>3, ReconcilesOnly DEF Implemented

\* A granted acknowledgement resolves only unknown outcomes that are over.
LEMMA ResultImplements ==
    ASSUME HubAssumption, IInv, NEW m \in Modules,
           NEW wrote \in BOOLEAN, NEW cleared \in BOOLEAN,
           toAgent[m] # <<>>,
           TakeResult(m, Head(toAgent[m]), wrote, cleared)
    PROVE  Implemented
<1> DEFINE msg == Head(toAgent[m])
           ledger == Written(msg, wrote)
<1>1. TypeOK BY DEF IInv
<1>2. /\ msg.state # "snapshot"
      /\ UNCHANGED world
      /\ row' = IF Granted(msg) /\ cleared THEN ResolveModule(ledger, m) ELSE ledger
  BY DEF TakeResult, Dequeue
<1>3. msg \in Sent(m)
  <2>1. toAgent[m] \in Seq(Message) BY <1>1 DEF TypeOK
  <2>2. Len(toAgent[m]) \in Nat \ {0} /\ msg = toAgent[m][1]
    BY <2>1, TailElements
  <2> QED BY <2>2 DEF Sent
<1>4. \A d \in Commands : ledger[d].resolved => row[d].resolved
  BY <1>1 DEF Written, Updated, TypeOK
<1>5. Granted(msg) => \A d \in Commands :
                         ledger[d].unresolved /\ Changes(d) => row[d].unresolved
  BY <1>1 DEF Written, Updated, Granted, Changes, TypeOK
<1> HIDE DEF ledger
<1>6. ASSUME NEW d \in Commands, Changes(d), row'[d].resolved, ~row[d].resolved
      PROVE  world[d] # "inflight"
  <2>1. Granted(msg) /\ cleared /\ d \in UnresolvedIn(ledger, m)
    BY <1>2, <1>4, <1>6 DEF ResolveModule
  <2>2. ModuleOf[d] = m /\ row[d].unresolved
    BY <1>5, <1>6, <2>1 DEF UnresolvedIn
  <2> QED BY <1>2, <1>3, <2>1, <2>2 DEF IInv, GrantsSettleEndedEffects
<1> QED BY <1>2, <1>6, ReconcilesOnly DEF Implemented

\* Every step of HubControl is a step of ModuleEffects or none at all.
LEMMA StepImplements ==
    ASSUME HubAssumption, IInv, [Next]_vars
    PROVE  [Effects!Next]_(Effects!vars)
<1> SUFFICES Implemented BY DEF Implemented
<1>1. CASE UNCHANGED vars BY <1>1, NoEffect DEF vars, durable
<1>2. CASE Start BY <1>2, StartImplements
<1>3. CASE Crash BY <1>3, LoseImplements DEF Crash
<1>4. CASE JournalFails \/ AuditReadyChanged
  BY <1>4, NoEffect DEF JournalFails, AuditReadyChanged, durable
<1>5. ASSUME NEW c \in Commands, Submit(c) PROVE Implemented
  BY <1>5, SubmitImplements
<1>6. ASSUME NEW c \in Commands, CommandEvent(c) PROVE Implemented
  BY <1>6, EventImplements
<1>7. ASSUME NEW m \in Modules, WorkerStep(m) PROVE Implemented
  BY <1>7, WorkerImplements
<1>8. ASSUME NEW m \in Modules, AgentStep(m) PROVE Implemented
  <2>1. CASE TakeSnapshot(m)
    BY <2>1, NoEffect DEF TakeSnapshot, Dequeue
  <2> QED BY <1>8, <2>1, ResultImplements DEF AgentStep
<1>9. ASSUME NEW m \in Modules, CrashInAck(m) PROVE Implemented
  BY <1>9, CrashInAckImplements
<1> QED BY <1>1, <1>2, <1>3, <1>4, <1>5, <1>6, <1>7, <1>8, <1>9 DEF Next

\* The control plane keeps what ModuleEffects promises: for any commands and
\* modules and any number of crashes and faults, a change takes effect at most
\* once, alone in its module, and is reconciled only when it is over.
THEOREM Implements == Spec => SerialEffects
<1>1. Init => Effects!Init
  BY DEF Init, NoRow, Effects!Init
<1>2. HubAssumption /\ IInv /\ [Next]_vars => [Effects!Next]_(Effects!vars)
  BY StepImplements
<1> QED BY <1>1, <1>2, HubAssumption, Invariance, PTL DEF Spec, SerialEffects, Effects!Spec
=============================================================================
