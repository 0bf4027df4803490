------------------------ MODULE CriticalDeliveryProofs ------------------------
(***************************************************************************)
(* Machine-checked proofs that the cursor of the client never passes an    *)
(* event the operator has not seen, that events are on their way to the    *)
(* screen in order, and that none that was sent is lost on the way while   *)
(* the writer's queue has room, for every set of events, every size of a   *)
(* page and every bound: until a session goes on without what it had to    *)
(* read and could not (misled).                                            *)
(***************************************************************************)
EXTENDS CriticalDelivery, AuditSpoolProofs, WellFoundedInduction

(***************************************************************************)
(* The inductive invariant.                                                *)
(***************************************************************************)

Shown(i) == <<epoch, i>> \in shown

\* The rows of the table the operator has not seen.
Unshown == {i \in Rows : ~Shown(i)}

\* A cursor may stand at j: there is nothing behind it that was not seen.
Safe(j) == j \in 0 .. Len(log) /\ \A i \in Unshown : j < i

\* i is among the first n items of a queue that will still be acknowledged.
InGui(i, n) == \E l \in 1 .. n : gui[l].fresh /\ gui[l].id = i
InInbox(i, n) == \E l \in 1 .. n : inbox[l].id = i
InSent(i, n) == \E l \in 1 .. n : toClient[l].kind = "event" /\ toClient[l].id = i

Waiting(i) == InGui(i, Len(gui)) \/ InInbox(i, Len(inbox))
Underway(i, n) == Waiting(i) \/ InSent(i, n)

Announced(i) == \E n \in 1 .. Len(toHub) : toHub[n] = RecordedSignal(i)

\* What the socket carries is about the table there is.
Streams ==
    /\ linked
    /\ helloDone => cursorEpoch = epoch
    /\ \A k \in 1 .. Len(toClient) :
          toClient[k].kind = "hello" => toClient[k].epoch = epoch

\* Who talks to whom, and what a connection begins with.
Links ==
    /\ ~up => session.state = "off"
    /\ ~linked => toClient = <<>> /\ ~helloDone
    /\ session.state # "off" => linked
    /\ helloDone => cursorEpoch # 0
    /\ session.state = "off" => toAgent = <<>>
    /\ session.state = "greeting" => ~helloDone /\ toClient = <<>>
    /\ session.state = "on" => Streams /\ (~helloDone => toClient # <<>>)
    /\ linked /\ ~helloDone =>
          /\ inbox = <<>> /\ acks = <<>>
          /\ \A l \in 1 .. Len(gui) : ~gui[l].fresh
          /\ toClient # <<>> => toClient[1].kind = "hello"

OneEpoch ==
    \A k \in 1 .. Len(toClient) : toClient[k].kind = "hello" =>
        /\ helloDone => toClient[k].epoch = cursorEpoch
        /\ \A l \in 1 .. Len(toClient) :
              toClient[l].kind = "hello" => toClient[k].epoch = toClient[l].epoch

ItemsOfStream ==
    /\ \A l \in 1 .. Len(gui) : gui[l].fresh => gui[l].epoch = cursorEpoch
    /\ \A l \in 1 .. Len(inbox) : inbox[l].fresh /\ inbox[l].epoch = cursorEpoch

\* The cursor, and where acknowledgements will move it.
CursorIsSafe ==
    cursorEpoch = epoch =>
        Safe(cursor) /\ \A k \in 1 .. Len(acks) : Safe(acks[k])

FramesAreSafe ==
    \A k \in 1 .. Len(toAgent) :
        toAgent[k].epoch = epoch => Safe(toAgent[k].id)

\* In front of an item, everything was seen or is in front of it in a queue.
GuiIsCovered ==
    cursorEpoch = epoch =>
        \A k \in 1 .. Len(gui) : gui[k].fresh =>
            /\ gui[k].id \in 0 .. Len(log)
            /\ \A i \in Unshown : i <= gui[k].id => InGui(i, k)

InboxIsCovered ==
    cursorEpoch = epoch =>
        \A k \in 1 .. Len(inbox) :
            /\ inbox[k].id \in 0 .. Len(log)
            /\ \A i \in Unshown :
                  i <= inbox[k].id => InGui(i, Len(gui)) \/ InInbox(i, k)

SentIsCovered ==
    Streams =>
        \A k \in 1 .. Len(toClient) : toClient[k].kind = "event" =>
            /\ toClient[k].id \in 0 .. Len(log)
            /\ \A i \in Unshown : i <= toClient[k].id => Underway(i, k)

\* What the client takes for a repetition is one.
PendingIsCovered ==
    cursorEpoch = epoch =>
        \A i \in pending : i <= Len(log) /\ (i \in Unshown => Waiting(i))

\* The Agent will send nothing before i is acknowledged.
AwaitsAck(i) == session.replaying /\ reading = "no" /\ i <= session.through

\* A client that gives up its cursor at a hello drops only what is under way
\* there; then nothing follows, and nothing will.
OnlyHellosFrom(k) == \A l \in k .. Len(toClient) : toClient[l].kind = "hello"

HellosAreSound ==
    Streams =>
        \A k \in 1 .. Len(toClient) : toClient[k].kind = "hello" =>
            /\ toClient[k].floor \in 0 .. Len(log)
            /\ toClient[k].floor > 0 => \A i \in Rows : toClient[k].floor <= i
            /\ \A i \in Unshown : Underway(i, k) =>
                  \/ i <= toClient[k].high
                  \/ OnlyHellosFrom(k) /\ (session.state = "on" => AwaitsAck(i))

\* Nothing is under way that was not sent.
SentThrough ==
    /\ \A l \in 1 .. Len(gui) : gui[l].fresh => gui[l].id <= session.through
    /\ \A l \in 1 .. Len(inbox) : inbox[l].id <= session.through
    /\ \A l \in 1 .. Len(toClient) :
          toClient[l].kind = "event" => toClient[l].id <= session.through

\* While events are broadcast, what was sent is under way, and of what was not
\* sent the Agent will hear.
Broadcasts ==
    reading = "no" /\ ~session.replaying =>
        /\ \A i \in Unshown : i <= session.through => Underway(i, Len(toClient))
        /\ \A i \in Rows : i > session.through => Announced(i)

SessionIsSafe ==
    session.state = "on" =>
        /\ Safe(session.ack)
        /\ session.through \in 0 .. Len(log)
        /\ reading # "no" => Safe(session.through)
        /\ Broadcasts
        /\ SentThrough
        /\ \A i \in Unshown :
              Underway(i, Len(toClient)) => i <= highSeen \/ AwaitsAck(i)

FloorIsSound ==
    session.state = "on" =>
        /\ floorSeen \in 0 .. Len(log)
        /\ floorSeen > 0 => \A i \in Rows : floorSeen <= i
        /\ floorSeen = 0 => \A i \in Rows : Announced(i)

DownIsDrained == ~up => offset = 0

\* What holds of every behaviour, whatever cannot be read.
Base ==
    /\ TypeOK /\ IInv /\ DownIsDrained /\ Links /\ OneEpoch /\ ItemsOfStream

\* What holds, too, as long as no session went on without what it had to read.
DInv ==
    /\ Base /\ CursorIsSafe /\ FramesAreSafe
    /\ GuiIsCovered /\ InboxIsCovered /\ SentIsCovered /\ PendingIsCovered
    /\ HellosAreSound /\ SessionIsSafe /\ FloorIsSound

Assumptions == SpoolAssumption /\ DeliveryAssumption

-----------------------------------------------------------------------------
(* The table, in every step but the one that replaces it.                  *)

\* Every set of numbers has a least element.
LEMMA LeastNumber ==
    ASSUME NEW T \in SUBSET Nat, T # {}
    PROVE  \E x \in T : \A y \in T : x <= y
<1> DEFINE R == OpToRel(<, Nat)
<1>1. IsWellFoundedOn(R, Nat) BY NatLessThanWellFounded
<1>2. \A x, y \in Nat : y < x => <<y, x>> \in R BY DEF OpToRel
<1> HIDE DEF R
<1>3. PICK x \in T : \A y \in T : ~(<<y, x>> \in R) BY <1>1, WFMin
<1>4. \A y \in T : y \in Nat /\ ~(y < x) BY <1>2, <1>3
<1> QED BY <1>3, <1>4

\* Every bounded set of numbers has a greatest element.
LEMMA GreatestNumber ==
    ASSUME NEW n \in Nat, NEW T \in SUBSET (0 .. n), T # {}
    PROVE  \E x \in T : \A y \in T : y <= x
<1> DEFINE D == {d \in Nat : n - d \in T}
<1>1. \A x \in T : x \in Nat /\ n - x \in Nat /\ n - (n - x) = x
  <2>1. \A x \in T : x \in 0 .. n OBVIOUS
  <2> QED BY <2>1
<1>2. D \in SUBSET Nat /\ \A x \in T : n - x \in D BY <1>1
<1>3. D # {} BY <1>2
<1> HIDE DEF D
<1>4. PICK d \in D : \A e \in D : d <= e BY <1>2, <1>3, LeastNumber
<1>5. n - d \in T /\ d \in Nat BY <1>4 DEF D
<1>6. \A y \in T : y <= n - d
  <2>1. \A y \in T : d <= n - y /\ y \in Nat BY <1>1, <1>2, <1>4
  <2> QED BY <1>5, <2>1
<1> QED BY <1>5, <1>6

\* Rows come behind the others, and may be deleted.
RowsMove ==
    /\ Len(log) <= Len(log') /\ Len(log') \in Nat
    /\ \A i \in Rows' : i \in Nat /\ (i \in Rows \/ i > Len(log))

\* What is new the Agent will hear of.
RowsAreAnnounced ==
    /\ \A i \in Rows' : i \in Rows \/ Announced(i)'
    /\ \A i \in Rows : Announced(i) => Announced(i)'

\* Rows are identified by numbers from one on.
LEMMA RowsAreNumbers ==
    ASSUME IInv
    PROVE  /\ Len(log) \in Nat /\ pruned \in Nat
           /\ \A i \in Rows : i \in Nat /\ 0 < i /\ i <= Len(log)
<1>1. log \in Seq(Events \union {Other}) /\ pruned \in 0 .. Len(log)
  BY DEF IInv, SpoolTypeOK
<1>2. Len(log) \in Nat /\ pruned \in Nat BY <1>1
<1>3. ASSUME NEW i \in Rows PROVE i \in Nat /\ 0 < i /\ i <= Len(log)
  <2>1. PICK p \in Nat, n \in Nat : p = pruned /\ n = Len(log) BY <1>2
  <2>2. i \in p + 1 .. n BY <2>1 DEF Rows
  <2>3. i \in Nat /\ 0 < i /\ i <= n BY <2>2
  <2> QED BY <2>1, <2>3
<1> QED BY <1>2, <1>3

\* New rows are numbers up to the length of the table.
LEMMA NewRowsAreNumbers ==
    ASSUME LogGrows
    PROVE  \A i \in Rows' : i \in Nat /\ i <= Len(log')
<1>1. log' \in Seq(Events \union {Other}) /\ pruned' \in 0 .. Len(log')
  BY DEF LogGrows
<1>2. Len(log') \in Nat /\ pruned' \in Nat BY <1>1
<1>3. ASSUME NEW i \in Rows' PROVE i \in Nat /\ i <= Len(log')
  <2>1. PICK p \in Nat, n \in Nat : p = pruned' /\ n = Len(log') BY <1>2
  <2>2. i \in p + 1 .. n BY <2>1 DEF Rows
  <2>3. i \in Nat /\ i <= n BY <2>2
  <2> QED BY <2>1, <2>3
<1> QED BY <1>3

\* A table that grows as the writer makes it grow.
LEMMA GrowthMovesRows ==
    ASSUME IInv, LogGrows
    PROVE  RowsMove
<1>1. /\ log \in Seq(Events \union {Other}) /\ pruned \in 0 .. Len(log)
      /\ Len(log) \in Nat
  BY DEF IInv, SpoolTypeOK
<1>2. /\ Len(log') \in Nat /\ Len(log) <= Len(log')
      /\ pruned <= pruned' /\ pruned' \in Nat
      /\ \A i \in 1 .. Len(log) : log'[i] = log[i]
  <2>1. log' \in Seq(Events \union {Other}) /\ pruned' \in 0 .. Len(log')
    BY DEF LogGrows
  <2>2. Len(log') \in Nat BY <2>1
  <2> QED BY <2>1, <2>2 DEF LogGrows
<1>3. ASSUME NEW i \in Rows', ~(i > Len(log)) PROVE i \in Rows
  <2>1. PICK p \in Nat, n \in Nat, q \in Nat :
            p = pruned /\ n = Len(log) /\ q = pruned'
    <3>1. pruned \in Nat /\ Len(log) \in Nat /\ pruned' \in Nat
      BY <1>2, RowsAreNumbers
    <3> QED BY <3>1
  <2>2. i \in Nat /\ q < i /\ log'[i] \in Events
    <3>1. PICK r \in Nat : r = Len(log') BY <1>2
    <3>2. i \in q + 1 .. r /\ log'[i] \in Events BY <2>1, <3>1 DEF Rows
    <3> QED BY <3>2
  <2>3. i \in p + 1 .. n /\ i \in 1 .. n BY <1>2, <1>3, <2>1, <2>2
  <2> QED BY <1>2, <2>1, <2>2, <2>3 DEF Rows
<1> QED BY <1>2, <1>3, NewRowsAreNumbers DEF RowsMove

\* Every step of the writer, and every step that leaves it alone.
LEMMA SpoolMovesRows ==
    ASSUME Assumptions, IInv, [SpoolNext]_spoolVars
    PROVE  RowsMove
<1>1. SpoolAssumption BY DEF Assumptions
<1>2. CASE UNCHANGED spoolVars
  BY <1>2, LogUnchanged, GrowthMovesRows DEF spoolVars, stored
<1>3. CASE DrainLine BY <1>1, <1>3, DrainStep, GrowthMovesRows
<1>4. CASE SpoolNext /\ ~DrainLine
  BY <1>1, <1>4, GrowingStep, GrowthMovesRows DEF Grows
<1> QED BY <1>2, <1>3, <1>4

\* A row stays announced when signals are added.
LEMMA AppendAnnounces ==
    ASSUME NEW S, toHub \in Seq(S), NEW s \in S, toHub' = Append(toHub, s)
    PROVE  /\ \A i : Announced(i) => Announced(i)'
           /\ \A i : s = RecordedSignal(i) => Announced(i)'
<1>1. /\ Len(toHub') = Len(toHub) + 1 /\ Len(toHub) \in Nat
      /\ \A n \in 1 .. Len(toHub) : toHub'[n] = toHub[n]
      /\ toHub'[Len(toHub) + 1] = s
  BY AppendElements
<1>2. Len(toHub) + 1 \in 1 .. Len(toHub') BY <1>1
<1> QED BY <1>1, <1>2 DEF Announced, RecordedSignal

\* The writer announces what it records.
LEMMA DrainAnnounces ==
    ASSUME Assumptions, IInv, DrainLine
    PROVE  RowsAreAnnounced
<1>1. PICK e \in Events : Insert(e) /\ Announce(e)
  BY DEF DrainLine
<1>2. toHub \in Seq(Signals) /\ log \in Seq(Events \union {Other}) /\ Len(log) \in Nat
  BY DEF IInv, SpoolTypeOK
<1>3. LogGrows BY DrainStep DEF Assumptions
<1>4. CASE Recorded(e)
  <2>1. log' = log /\ toHub' = toHub BY <1>1, <1>4 DEF Insert, Announce
  <2>2. ASSUME NEW i \in Rows' PROVE i \in Rows
    <3>1. i \in Nat /\ i <= Len(log) BY <1>3, <2>1, NewRowsAreNumbers
    <3> QED BY <1>2, <1>3, <3>1, GrowthMovesRows DEF RowsMove
  <2> QED BY <2>1, <2>2 DEF RowsAreAnnounced, Announced
<1>5. CASE ~Recorded(e)
  <2>1. log' = Append(log, e) /\ toHub' = Append(toHub, RecordedSignal(Len(log) + 1))
    BY <1>1, <1>5 DEF Insert, Announce
  <2>2. RecordedSignal(Len(log) + 1) \in Signals
    BY <1>2 DEF RecordedSignal, Signals
  <2>3. /\ \A i \in Rows : Announced(i) => Announced(i)'
        /\ \A i : i = Len(log) + 1 => Announced(i)'
    BY <1>2, <2>1, <2>2, AppendAnnounces
  <2>4. Len(log') = Len(log) + 1 BY <1>2, <2>1, AppendElements
  <2>5. \A i \in Rows' : i \in Rows \/ i = Len(log) + 1
    <3>1. RowsMove BY <1>3, GrowthMovesRows
    <3>2. \A i \in Rows' : i \in Nat /\ i <= Len(log')
      BY <1>3, NewRowsAreNumbers
    <3> QED BY <1>2, <2>4, <3>1, <3>2 DEF RowsMove
  <2> QED BY <2>3, <2>5 DEF RowsAreAnnounced
<1> QED BY <1>4, <1>5

\* Other rows are no events.
LEMMA OtherIsNoRow ==
    ASSUME Assumptions, IInv, log' = Append(log, Other), Prune
    PROVE  \A i \in Rows' : i \in Rows
<1>1. LogGrows /\ Len(log') = Len(log) + 1 /\ log'[Len(log) + 1] = Other
      /\ Len(log) \in Nat
  BY AddedGrows, RowsAreNumbers
<1>2. ASSUME NEW i \in Rows' PROVE i \in Rows
  <2>1. i \in Nat /\ i <= Len(log') /\ log'[i] \in Events
    BY <1>1, NewRowsAreNumbers DEF Rows
  <2>2. i # Len(log) + 1 BY <1>1, <2>1 DEF Assumptions, SpoolAssumption
  <2> QED BY <1>1, <2>1, <2>2, GrowthMovesRows DEF RowsMove
<1> QED BY <1>2

\* While the Agent hears nothing, it is told of every new row.
LEMMA WriterAnnounces ==
    ASSUME Assumptions, IInv, WriterStep \/ EmitEvent \/ UNCHANGED spoolVars
    PROVE  RowsAreAnnounced
<1>1. toHub \in Seq(Signals) BY DEF IInv, SpoolTypeOK
<1>2. CASE UNCHANGED <<log, pruned, toHub>>
  BY <1>2 DEF RowsAreAnnounced, Announced, Rows
<1>3. CASE UNCHANGED <<log, pruned>> /\ toHub' = Append(toHub, StatusSignal)
  <2>1. StatusSignal \in Signals BY DEF StatusSignal, Signals
  <2>2. \A i : Announced(i) => Announced(i)'
    BY <1>1, <1>3, <2>1, AppendAnnounces
  <2>3. Rows' = Rows BY <1>3 DEF Rows
  <2> QED BY <2>2, <2>3 DEF RowsAreAnnounced
<1>4. CASE DrainLine BY <1>4, DrainAnnounces
<1>5. CASE DrainUnreadable \/ DrainFails
  BY <1>3, <1>5 DEF DrainUnreadable, DrainFails, StopWriter, stored
<1>6. CASE AppendLine \/ AppendFails \/ AppendTears
  BY <1>2, <1>6 DEF AppendLine, AppendFails, AppendTears, TakesEvent
<1>7. CASE DrainRefused BY <1>2, <1>7 DEF DrainRefused, stored
<1>8. CASE RecordFails BY <1>3, <1>8 DEF RecordFails, stored
<1>9. CASE RecordOther
  <2>1. CASE ready
    <3>1. log' = Append(log, Other) /\ Prune /\ UNCHANGED toHub
      BY <1>9, <2>1 DEF RecordOther
    <3>2. \A i \in Rows' : i \in Rows BY <3>1, OtherIsNoRow
    <3> QED BY <3>1, <3>2 DEF RowsAreAnnounced, Announced
  <2>2. CASE ~ready BY <1>3, <1>9, <2>2 DEF RecordOther
  <2> QED BY <2>1, <2>2
<1>10. CASE EmitEvent BY <1>2, <1>10 DEF EmitEvent, Enqueue, Emits, stored
<1>11. CASE UNCHANGED spoolVars BY <1>2, <1>11 DEF spoolVars, stored, writer
<1> QED BY <1>4, <1>5, <1>6, <1>7, <1>8, <1>9, <1>10, <1>11 DEF WriterStep

-----------------------------------------------------------------------------
(* What every step does to the writer.                                     *)

\* A session goes on without what it had to read.
Misreads == BoundsUnreadable \/ PageUnreadable

\* All that such a step changes.
LEMMA MisreadsAlone ==
    ASSUME Misreads
    PROVE  /\ UNCHANGED <<spoolVars, epoch, session, wire, client, drops>>
           /\ up /\ reading # "no" /\ reading' = "no"
           /\ misreads' = misreads + 1 /\ misreads < MaxMisreads /\ misled' \in BOOLEAN
           /\ UNCHANGED <<floorSeen, highSeen>> \/ (ForgetBounds /\ misled')
BY DEF Misreads, BoundsUnreadable, PageUnreadable, Misread

\* Every step is one of the writer's, or none of its business, but for the two
\* that count an emission or replace the table.
LEMMA StepOfSpool ==
    ASSUME [Next]_vars
    PROVE  [SpoolNext]_spoolVars \/ Overflow \/ ReplaceDatabase
<1>1. CASE Start \/ Crash \/ Write
  BY <1>1 DEF Start, Crash, Write, SpoolNext
<1>2. CASE \E e \in Events : Emit(e)
  BY <1>2 DEF Emit, SpoolNext, EmitEvent
<1>3. CASE HearRecorded
  BY <1>3 DEF HearRecorded, SpoolNext, HearSignal
<1>4. CASE HearStatus
  BY <1>4 DEF HearStatus, SpoolNext, HearSignal
<1>5. CASE Greet \/ ReadBounds \/ ReadPage \/ TakeAck \/ Misreads
  BY <1>5, MisreadsAlone DEF Greet, ReadBounds, ReadPage, TakeAck
<1>6. CASE ConnectionStep
  BY <1>6
  DEF ConnectionStep, AgentDrops, GreetUnreadable, ClientDrops, UIQuits,
      ClientNotices, Connect
<1>7. CASE ClientStep
  BY <1>7
  DEF ClientStep, ClientTakesHello, ClientTakesEvent, Flush, Render, Acknowledge
<1>8. CASE UNCHANGED vars BY <1>8 DEF vars
<1> QED BY <1>1, <1>2, <1>3, <1>4, <1>5, <1>6, <1>7, <1>8 DEF Next, AgentStep, Misreads

\* Before a table is replaced nothing of it is in the writer.
LEMMA ReplacedTable ==
    ASSUME Assumptions, IInv, DownIsDrained, ReplaceDatabase
    PROVE  IInv' /\ DownIsDrained'
<1>1. SpoolTypeOK /\ offset = 0 /\ toHub = <<>> /\ ~up
  BY DEF IInv, SpoolTypeOK, DownIsDrained, ReplaceDatabase
<1>2. /\ log' = <<>> /\ pruned' = 0 /\ kept' = kept \intersect ToSet(spool)
      /\ UNCHANGED <<file, spool, up, writer, limits>>
  BY DEF ReplaceDatabase
<1>3. SpoolTypeOK'
  <2>1. <<>> \in Seq(Events \union {Other}) /\ Len(<<>>) = 0 OBVIOUS
  <2>2. kept' \subseteq Events BY <1>1, <1>2 DEF SpoolTypeOK
  <2>3. FlagsOK' BY <1>1, <1>2, <2>2 DEF SpoolTypeOK, FlagsOK, writer
  <2>4. QueueOK' BY <1>1, <1>2 DEF SpoolTypeOK, QueueOK, writer
  <2>5. LimitsOK' BY <1>1, <1>2 DEF SpoolTypeOK, LimitsOK, limits
  <2>6. FilesOK' BY <1>1, <1>2, <2>1 DEF SpoolTypeOK, FilesOK, writer
  <2> QED BY <2>3, <2>4, <2>5, <2>6
          DEF SpoolTypeOK, FlagsOK, QueueOK, LimitsOK, FilesOK
<1>4. OffsetIsInFile' BY <1>2 DEF IInv, OffsetIsInFile, writer
<1>5. DrainedAreRecorded' BY <1>1, <1>2 DEF DrainedAreRecorded, writer
<1>6. SignalsAreRows' /\ SignalsAscend'
  BY <1>1, <1>2 DEF SignalsAreRows, SignalsAscend, writer
<1>7. OneRowEach'
  <2>1. Rows' = {} BY <1>2 DEF Rows
  <2> QED BY <2>1 DEF OneRowEach
<1>8. WholeLines'
  <2>1. \A e \in kept' : \E k \in DOMAIN spool' : spool'[k] = e
    BY <1>2 DEF ToSet
  <2> QED BY <1>2, <2>1 DEF IInv, WholeLines, AcceptedSurvives, Held, limits
<1>9. DownIsDrained' BY <1>1, <1>2 DEF DownIsDrained, writer
<1> QED BY <1>3, <1>4, <1>5, <1>6, <1>7, <1>8, <1>9 DEF IInv

\* An emission that finds no room leaves the writer alone.
LEMMA RefusedEmission ==
    ASSUME Assumptions, IInv, Overflow
    PROVE  IInv' /\ RowsMove /\ RowsAreAnnounced
<1>1. /\ UNCHANGED <<stored, up, ready, offset, draining, kept, crashes, faults,
                     tears, others, toWriter, toHub>>
      /\ emits < MaxEmits /\ emits' = emits + 1
  BY DEF Overflow, Emits
<1>2. SpoolTypeOK'
  <2>1. FlagsOK' BY <1>1 DEF IInv, SpoolTypeOK, FlagsOK, stored
  <2>2. QueueOK' BY <1>1 DEF IInv, SpoolTypeOK, QueueOK
  <2>3. LimitsOK'
    BY <1>1 DEF IInv, SpoolTypeOK, LimitsOK, Assumptions, SpoolAssumption
  <2>4. FilesOK' BY <1>1 DEF IInv, SpoolTypeOK, FilesOK, stored
  <2> QED BY <2>1, <2>2, <2>3, <2>4
          DEF SpoolTypeOK, FlagsOK, QueueOK, LimitsOK, FilesOK
<1>3. OffsetIsInFile' /\ DrainedAreRecorded' /\ SignalsAreRows' /\ SignalsAscend'
  BY <1>1
  DEF IInv, OffsetIsInFile, DrainedAreRecorded, SignalsAreRows, SignalsAscend, stored
<1>4. OneRowEach' BY <1>1 DEF IInv, OneRowEach, Rows, stored
<1>5. WholeLines' BY <1>1 DEF IInv, WholeLines, AcceptedSurvives, Held, stored
<1>6. RowsMove BY <1>1, LogUnchanged, GrowthMovesRows DEF stored
<1>7. RowsAreAnnounced BY <1>1 DEF RowsAreAnnounced, Announced, Rows, stored
<1> QED BY <1>2, <1>3, <1>4, <1>5, <1>6, <1>7 DEF IInv

\* The writer's invariant is an invariant here.
LEMMA StepKeepsSpool ==
    ASSUME Assumptions, IInv, DownIsDrained, [Next]_vars
    PROVE  IInv' /\ DownIsDrained'
<1>1. CASE ReplaceDatabase BY <1>1, ReplacedTable
<1>2. CASE Overflow
  <2>1. DownIsDrained' BY <1>2 DEF Overflow, Emits, DownIsDrained
  <2> QED BY <1>2, <2>1, RefusedEmission
<1>3. CASE [SpoolNext]_spoolVars
  <2>1. IInv' BY <1>3, StepInvariant DEF Assumptions
  <2>2. CASE StartWriter BY <2>1, <2>2 DEF StartWriter, DownIsDrained
  <2>3. CASE WriterDies
    BY <2>1, <2>3 DEF WriterDies, CrashWriter, CrashInAppend, CrashInDrain, LoseWriter,
                DownIsDrained
  <2>4. CASE EmitEvent \/ HearSignal
    BY <2>1, <2>4 DEF EmitEvent, Enqueue, Emits, HearSignal, DownIsDrained
  <2>5. CASE WriterStep
    <3>1. up' = up /\ up
      BY <2>5
      DEF WriterStep, AppendLine, AppendFails, AppendTears, TakesEvent, DrainLine,
          DrainUnreadable, DrainFails, DrainRefused, Drains, StopWriter,
          RecordOther, RecordFails
    <3> QED BY <2>1, <3>1 DEF DownIsDrained
  <2>6. CASE UNCHANGED spoolVars BY <2>1, <2>6 DEF spoolVars, writer, DownIsDrained
  <2> QED BY <1>3, <2>1, <2>2, <2>3, <2>4, <2>5, <2>6 DEF SpoolNext
<1> QED BY <1>1, <1>2, <1>3, StepOfSpool

-----------------------------------------------------------------------------
(* The bounds of the table, and where a cursor may stand.                  *)

\* CommandJournal::criticalEventBounds finds the first and the last row.
LEMMA BoundsOfTable ==
    ASSUME IInv
    PROVE  /\ Floor \in 0 .. Len(log) /\ High \in 0 .. Len(log)
           /\ \A i \in Rows : Floor <= i /\ i <= High
           /\ Floor = 0 => Rows = {}
<1>1. /\ Len(log) \in Nat
      /\ \A i \in Rows : i \in Nat /\ 0 < i /\ i <= Len(log)
  BY RowsAreNumbers
<1>2. CASE Rows = {}
  BY <1>1, <1>2 DEF Floor, High
<1>3. CASE Rows # {}
  <2>1. Rows \in SUBSET Nat /\ Rows \in SUBSET (0 .. Len(log)) BY <1>1
  <2>2. \E x \in Rows : \A y \in Rows : x <= y BY <1>3, <2>1, LeastNumber
  <2>3. \E x \in Rows : \A y \in Rows : y <= x BY <1>1, <1>3, <2>1, GreatestNumber
  <2>4. Floor \in Rows /\ \A y \in Rows : Floor <= y BY <1>3, <2>2 DEF Floor
  <2>5. High \in Rows /\ \A y \in Rows : y <= High BY <1>3, <2>3 DEF High
  <2> QED BY <1>1, <2>4, <2>5
<1> QED BY <1>2, <1>3

\* The greater one of two numbers.
LEMMA MaxOfTwo ==
    ASSUME NEW a \in Nat, NEW b \in Nat
    PROVE  Max({a, b}) = IF a <= b THEN b ELSE a
<1>1. \E x \in {a, b} : \A y \in {a, b} : x >= y OBVIOUS
<1>2. Max({a, b}) \in {a, b} /\ \A y \in {a, b} : Max({a, b}) >= y
  BY <1>1 DEF Max
<1> QED BY <1>2

\* A cursor that is raised to the oldest row passes nothing.
LEMMA RaisedIsSafe ==
    ASSUME IInv, NEW j, Safe(j), NEW f \in 0 .. Len(log),
           f > 0 => \A i \in Rows : f <= i
    PROVE  Safe(NotBelow(f, j)) /\ j <= NotBelow(f, j)
<1>1. /\ j \in Nat /\ j <= Len(log) /\ \A i \in Unshown : i \in Nat /\ j < i
      /\ Len(log) \in Nat
  BY RowsAreNumbers DEF Safe, Unshown
<1>2. CASE ~(f > 0 /\ j < f - 1) BY <1>1, <1>2 DEF NotBelow, Safe
<1>3. CASE f > 0 /\ j < f - 1
  <2>1. NotBelow(f, j) = f - 1 BY <1>3 DEF NotBelow
  <2>2. \A i \in Unshown : f <= i BY <1>3 DEF Unshown
  <2>3. \A i \in Unshown : f - 1 < i BY <1>1, <2>2
  <2>4. f - 1 \in 0 .. Len(log) BY <1>3
  <2> QED BY <1>1, <1>3, <2>1, <2>3, <2>4 DEF Safe
<1> QED BY <1>2, <1>3

\* What is seen stays seen, and the table moves on.
Moves == epoch' = epoch /\ shown \subseteq shown' /\ RowsMove

\* Every step but the one that replaces the table lets it move on.
LEMMA StepMoves ==
    ASSUME Assumptions, IInv, [Next]_vars, ~ReplaceDatabase
    PROVE  Moves
<1>1. RowsMove BY StepOfSpool, SpoolMovesRows, RefusedEmission
<1>2. epoch' = epoch /\ shown \subseteq shown'
  <2>1. CASE Render BY <2>1 DEF Render
  <2>2. CASE Start \/ Crash \/ Write
    BY <2>2 DEF Start, Crash, Write, deliveryVars, client
  <2>3. CASE AgentStep
    BY <2>3, MisreadsAlone
    DEF AgentStep, Misreads, Emit, Overflow, Greet, ReadBounds, ReadPage,
        HearRecorded, HearStatus, TakeAck, deliveryVars, client
  <2>4. CASE ConnectionStep
    BY <2>4
    DEF ConnectionStep, AgentDrops, GreetUnreadable, ClientDrops, UIQuits,
        ClientNotices, Connect,
        client
  <2>5. CASE ClientTakesHello \/ ClientTakesEvent \/ Flush \/ Acknowledge
    BY <2>5 DEF ClientTakesHello, ClientTakesEvent, Flush, Acknowledge
  <2>6. CASE UNCHANGED vars BY <2>6 DEF vars, deliveryVars, client
  <2> QED BY <2>1, <2>2, <2>3, <2>4, <2>5, <2>6 DEF Next, ClientStep
<1> QED BY <1>1, <1>2 DEF Moves

\* What such a step leaves of the rows that were not seen.
LEMMA MovesKeep ==
    ASSUME IInv, Moves
    PROVE  /\ \A i : Shown(i) => Shown(i)'
           /\ \A i \in Unshown' : i \in Nat /\ (i \in Unshown \/ i > Len(log))
           /\ \A i \in Rows' : i \in Nat /\ (i \in Rows \/ i > Len(log))
           /\ Len(log) \in Nat /\ Len(log') \in Nat /\ Len(log) <= Len(log')
           /\ \A j : Safe(j) => Safe(j)'
<1>1. /\ Len(log) \in Nat /\ Len(log') \in Nat /\ Len(log) <= Len(log')
      /\ \A i \in Rows' : i \in Nat /\ (i \in Rows \/ i > Len(log))
  BY RowsAreNumbers DEF Moves, RowsMove
<1>2. \A i : Shown(i) => Shown(i)' BY DEF Moves, Shown
<1>3. \A i \in Unshown' : i \in Nat /\ (i \in Unshown \/ i > Len(log))
  BY <1>1, <1>2 DEF Unshown
<1>4. ASSUME NEW j, Safe(j) PROVE Safe(j)'
  <2>1. j \in Nat /\ j <= Len(log) /\ \A i \in Unshown : j < i
    BY <1>1, <1>4 DEF Safe
  <2>2. j \in 0 .. Len(log') BY <1>1, <2>1
  <2>3. \A i \in Unshown' : j < i
    BY <1>1, <1>3, <2>1
  <2> QED BY <2>2, <2>3 DEF Safe
<1> QED BY <1>1, <1>2, <1>3, <1>4

-----------------------------------------------------------------------------
(* Type correctness.                                                       *)

SessionOK ==
    /\ floorSeen \in Nat /\ highSeen \in Nat
    /\ session \in [state : {"off", "greeting", "on"}, ack : Nat, through : Nat,
                    replaying : BOOLEAN]
    /\ session.ack <= session.through
    /\ reading \in {"no", "bounds", "page"}
    /\ reading # "no" => session.state = "on"

ToAgentOK == toAgent \in Seq(FromClient)
ToClientOK == toClient \in Seq(FromAgent)

ItemsOK ==
    /\ inbox \in Seq(Items) /\ gui \in Seq(Items)
    /\ acks \in Seq(Nat \ {0})
    /\ pending \subseteq Nat \ {0}

CursorOK ==
    /\ epoch \in 1 .. MaxReplaced + 1
    /\ linked \in BOOLEAN /\ helloDone \in BOOLEAN
    /\ cursor \in Nat /\ cursorEpoch \in 0 .. epoch
    /\ shown \subseteq (1 .. epoch) \X (Nat \ {0})
    /\ drops \in 0 .. MaxDrops

ReadsOK ==
    /\ misreads \in 0 .. MaxMisreads
    /\ misled \in BOOLEAN /\ (misled => misreads > 0)

\* The type invariant, by what is changed together.
LEMMA DeliveryTypeParts ==
    TypeOK <=> /\ SpoolTypeOK /\ SessionOK /\ ToAgentOK /\ ToClientOK
               /\ ItemsOK /\ CursorOK /\ ReadsOK
BY DEF TypeOK, SessionOK, ToAgentOK, ToClientOK, ItemsOK, CursorOK, ReadsOK

\* What the elements of the queues are.
LEMMA QueueElements ==
    ASSUME TypeOK
    PROVE  /\ \A k \in 1 .. Len(toClient) :
                 /\ toClient[k].kind \in {"hello", "event"}
                 /\ toClient[k].kind = "hello" =>
                      /\ toClient[k].floor \in Nat /\ toClient[k].high \in Nat
                      /\ toClient[k].epoch \in 1 .. epoch
                 /\ toClient[k].kind = "event" => toClient[k].id \in Nat \ {0}
           /\ \A k \in 1 .. Len(toAgent) :
                 toAgent[k].id \in Nat /\ toAgent[k].epoch \in 0 .. epoch
           /\ \A k \in 1 .. Len(gui) :
                 /\ gui[k].id \in Nat \ {0} /\ gui[k].fresh \in BOOLEAN
                 /\ gui[k].epoch \in 1 .. epoch
           /\ \A k \in 1 .. Len(inbox) : inbox[k].id \in Nat \ {0}
           /\ \A k \in 1 .. Len(acks) : acks[k] \in Nat \ {0}
           /\ Len(toClient) \in Nat /\ Len(toAgent) \in Nat /\ Len(gui) \in Nat
           /\ Len(inbox) \in Nat /\ Len(acks) \in Nat
<1>1. /\ toClient \in Seq(FromAgent) /\ toAgent \in Seq(FromClient)
      /\ gui \in Seq(Items) /\ inbox \in Seq(Items) /\ acks \in Seq(Nat \ {0})
  BY DEF TypeOK
<1>2. \A m \in FromAgent :
         /\ m.kind \in {"hello", "event"}
         /\ m.kind = "hello" =>
              m.floor \in Nat /\ m.high \in Nat /\ m.epoch \in 1 .. epoch
         /\ m.kind = "event" => m.id \in Nat \ {0}
  BY DEF FromAgent
<1>3. \A m \in FromClient : m.id \in Nat /\ m.epoch \in 0 .. epoch
  BY DEF FromClient
<1>4. \A x \in Items : /\ x.id \in Nat \ {0} /\ x.fresh \in BOOLEAN
                       /\ x.epoch \in 1 .. epoch
  BY DEF Items
<1>5. \A k \in 1 .. Len(toClient) : toClient[k] \in FromAgent BY <1>1
<1>6. \A k \in 1 .. Len(toAgent) : toAgent[k] \in FromClient BY <1>1
<1>7. /\ \A k \in 1 .. Len(gui) : gui[k] \in Items
      /\ \A k \in 1 .. Len(inbox) : inbox[k] \in Items
      /\ \A k \in 1 .. Len(acks) : acks[k] \in Nat \ {0}
  BY <1>1
<1>8. /\ Len(toClient) \in Nat /\ Len(toAgent) \in Nat /\ Len(gui) \in Nat
      /\ Len(inbox) \in Nat /\ Len(acks) \in Nat
  BY <1>1
<1>9. /\ \A k \in 1 .. Len(gui) :
            /\ gui[k].id \in Nat \ {0} /\ gui[k].fresh \in BOOLEAN
            /\ gui[k].epoch \in 1 .. epoch
      /\ \A k \in 1 .. Len(inbox) : inbox[k].id \in Nat \ {0}
  BY <1>4, <1>7
<1>10. \A k \in 1 .. Len(toAgent) :
          toAgent[k].id \in Nat /\ toAgent[k].epoch \in 0 .. epoch
  BY <1>3, <1>6
<1>11. \A k \in 1 .. Len(toClient) :
          /\ toClient[k].kind \in {"hello", "event"}
          /\ toClient[k].kind = "hello" =>
               /\ toClient[k].floor \in Nat /\ toClient[k].high \in Nat
               /\ toClient[k].epoch \in 1 .. epoch
          /\ toClient[k].kind = "event" => toClient[k].id \in Nat \ {0}
  BY <1>2, <1>5
<1> QED BY <1>7, <1>8, <1>9, <1>10, <1>11

\* The first and the other elements of the queues.
LEMMA QueueHeads ==
    ASSUME TypeOK
    PROVE  /\ toAgent # <<>> =>
                /\ Head(toAgent) = toAgent[1] /\ 1 \in 1 .. Len(toAgent)
                /\ Len(Tail(toAgent)) = Len(toAgent) - 1
                /\ \A k \in 1 .. Len(toAgent) - 1 : Tail(toAgent)[k] = toAgent[k + 1]
           /\ toClient # <<>> =>
                /\ Head(toClient) = toClient[1] /\ 1 \in 1 .. Len(toClient)
                /\ Len(Tail(toClient)) = Len(toClient) - 1
                /\ \A k \in 1 .. Len(toClient) - 1 :
                      Tail(toClient)[k] = toClient[k + 1]
           /\ gui # <<>> =>
                /\ Head(gui) = gui[1] /\ 1 \in 1 .. Len(gui)
                /\ Len(Tail(gui)) = Len(gui) - 1
                /\ \A k \in 1 .. Len(gui) - 1 : Tail(gui)[k] = gui[k + 1]
           /\ acks # <<>> =>
                /\ Head(acks) = acks[1] /\ 1 \in 1 .. Len(acks)
                /\ Len(Tail(acks)) = Len(acks) - 1
                /\ \A k \in 1 .. Len(acks) - 1 : Tail(acks)[k] = acks[k + 1]
<1>1. \A S : \A q \in Seq(S) : q # <<>> =>
         /\ Head(q) = q[1] /\ 1 \in 1 .. Len(q)
         /\ Len(Tail(q)) = Len(q) - 1
         /\ \A k \in 1 .. Len(q) - 1 : Tail(q)[k] = q[k + 1]
  <2>1. ASSUME NEW S, NEW q \in Seq(S), q # <<>>
        PROVE  /\ Head(q) = q[1] /\ 1 \in 1 .. Len(q)
               /\ Len(Tail(q)) = Len(q) - 1
               /\ \A k \in 1 .. Len(q) - 1 : Tail(q)[k] = q[k + 1]
    BY <2>1, TailElements
  <2> QED BY <2>1
<1>2. /\ toAgent \in Seq(FromClient) /\ toClient \in Seq(FromAgent)
      /\ gui \in Seq(Items) /\ acks \in Seq(Nat \ {0})
  BY DEF TypeOK
<1> QED BY <1>1, <1>2

\* The signal that is heard next.
LEMMA HeardSignal ==
    ASSUME IInv, toHub # <<>>, Head(toHub).kind = "recorded"
    PROVE  /\ Head(toHub).id \in Nat \ {0} /\ Head(toHub).id <= Len(log)
           /\ Head(toHub) = toHub[1] /\ Len(toHub) \in Nat \ {0}
<1>1. toHub \in Seq(Signals) BY DEF IInv, SpoolTypeOK
<1>2. Head(toHub) \in Signals /\ Head(toHub) = toHub[1] /\ Len(toHub) \in Nat \ {0}
  BY <1>1
<1>3. Head(toHub).id \in Nat \ {0} BY <1>2 DEF Signals
<1>4. 1 \in DOMAIN toHub BY <1>1, <1>2
<1> QED BY <1>2, <1>3, <1>4 DEF IInv, SignalsAreRows

\* The Agent's view of the client.
LEMMA StepSession ==
    ASSUME Assumptions, TypeOK, IInv, [Next]_vars
    PROVE  SessionOK'
<1>1. SessionOK BY DeliveryTypeParts
<1>2. Floor \in Nat /\ High \in Nat /\ Len(log) \in Nat
  BY BoundsOfTable, RowsAreNumbers
<1>3. CASE UNCHANGED hub BY <1>1, <1>3 DEF SessionOK, hub
<1>4. CASE Start BY <1>1, <1>2, <1>4 DEF Start, SessionOK
<1>5. CASE Crash BY <1>1, <1>5 DEF Crash, SessionOK, NoSession
<1>6. CASE ReplaceDatabase BY <1>3, <1>6 DEF ReplaceDatabase
<1>7. CASE Greet
  <2>1. Head(toAgent).id \in Nat
    BY <1>7, QueueElements, QueueHeads DEF Greet
  <2>2. NotBelow(Floor, RequestedCursor(Head(toAgent), High)) \in Nat
    BY <1>2, <2>1 DEF NotBelow, RequestedCursor
  <2> QED BY <1>1, <1>2, <1>7, <2>2 DEF Greet, SessionOK
<1>8. CASE ReadBounds
  <2>1. PICK after \in Nat : after = NotBelow(Floor, session.through)
    BY <1>1, <1>2 DEF NotBelow, SessionOK
  <2>2. session.state = "on" BY <1>1, <1>8 DEF ReadBounds, SessionOK
  <2>3. /\ reading' = "page" /\ floorSeen' \in Nat /\ highSeen' \in Nat
        /\ \/ session' = session
           \/ session' = [session EXCEPT !.ack = after, !.through = after]
    BY <1>2, <1>8, <2>1 DEF ReadBounds
  <2>4. CASE session' = session BY <1>1, <2>2, <2>3, <2>4 DEF SessionOK
  <2>5. CASE session' = [session EXCEPT !.ack = after, !.through = after]
    <3>1. /\ session' \in [state : {"off", "greeting", "on"}, ack : Nat,
                           through : Nat, replaying : BOOLEAN]
          /\ session'.ack = after /\ session'.through = after
          /\ session'.state = "on"
      BY <1>1, <2>2, <2>5 DEF SessionOK
    <3> QED BY <2>1, <2>3, <3>1 DEF SessionOK
  <2> QED BY <2>3, <2>4, <2>5
<1>9. CASE ReadPage
  <2>1. \A n \in 1 .. PageSize :
           \A page \in [1 .. n -> {i \in Rows : i > session.through}] :
              page[n] \in Nat /\ page[n] > session.through
    BY RowsAreNumbers DEF Assumptions, DeliveryAssumption
  <2>2. /\ reading' = "no" /\ UNCHANGED <<floorSeen, highSeen>>
        /\ \/ session' = [session EXCEPT !.replaying = FALSE]
           \/ \E i \in Nat : /\ i > session.through
                             /\ session' = [session EXCEPT !.replaying = TRUE,
                                                           !.through = i]
    BY <1>9, <2>1 DEF ReadPage
  <2>3. CASE session' = [session EXCEPT !.replaying = FALSE]
    BY <1>1, <2>2, <2>3 DEF SessionOK
  <2>4. ASSUME NEW i \in Nat, i > session.through,
               session' = [session EXCEPT !.replaying = TRUE, !.through = i]
        PROVE  SessionOK'
    <3>1. session.ack \in Nat /\ session.through \in Nat /\ session.ack <= i
      BY <1>1, <2>4 DEF SessionOK
    <3> QED BY <1>1, <2>2, <2>4, <3>1 DEF SessionOK
  <2> QED BY <2>2, <2>3, <2>4
<1>10. CASE HearRecorded
  <2>1. PICK i \in Nat : i = Head(toHub).id BY <1>10, HeardSignal DEF HearRecorded
  <2>2. Max({highSeen, i}) \in Nat BY <1>1, <2>1, MaxOfTwo DEF SessionOK
  <2>3. /\ floorSeen' \in Nat /\ highSeen' \in Nat /\ reading' = reading
        /\ \/ session' = session
           \/ i > session.ack /\ session' = [session EXCEPT !.through = i]
    BY <1>1, <1>10, <2>1, <2>2 DEF HearRecorded, IsBroadcast, SessionOK
  <2> QED BY <1>1, <2>1, <2>3 DEF SessionOK
<1>11. CASE HearStatus BY <1>3, <1>11 DEF HearStatus
<1>12. CASE TakeAck
  <2>1. PICK j \in Nat : j = Head(toAgent).id
    BY <1>12, QueueElements, QueueHeads DEF TakeAck
  <2>2. session.ack \in Nat /\ session.through \in Nat BY <1>1 DEF SessionOK
  <2>3. Max({session.ack, j}) \in Nat
        /\ (j <= session.through => Max({session.ack, j}) <= session.through)
    BY <1>1, <2>1, <2>2, MaxOfTwo DEF SessionOK
  <2>4. /\ UNCHANGED <<floorSeen, highSeen>> /\ session.state = "on"
        /\ \/ UNCHANGED <<session, reading>>
           \/ /\ j <= session.through
              /\ session' = [session EXCEPT !.ack = Max({session.ack, j})]
              /\ reading' \in {"bounds", "no"}
    BY <1>12, <2>1, <2>2 DEF TakeAck
  <2> QED BY <1>1, <2>3, <2>4 DEF SessionOK
<1>13. CASE ConnectionStep
  <2>1. /\ reading' = reading
        /\ UNCHANGED <<floorSeen, highSeen>> \/ ForgetBounds
    BY <1>13
    DEF ConnectionStep, AgentDrops, GreetUnreadable, ClientDrops, UIQuits,
        ClientNotices, Connect, hub
  <2>2. \/ session' = session
        \/ reading = "no" /\ session' \in {NoSession, [NoSession EXCEPT !.state = "greeting"]}
    BY <1>13
    DEF ConnectionStep, AgentDrops, GreetUnreadable, ClientDrops, UIQuits,
        ClientNotices, Connect, Cut,
        HubRuns, hub
  <2>6. floorSeen' \in Nat /\ highSeen' \in Nat
    BY <1>1, <2>1 DEF SessionOK, ForgetBounds
  <2>3. CASE session' = session BY <1>1, <2>1, <2>3, <2>6 DEF SessionOK
  <2>4. CASE session' = NoSession /\ reading = "no"
    BY <1>1, <2>1, <2>4, <2>6 DEF SessionOK, NoSession
  <2>5. CASE session' = [NoSession EXCEPT !.state = "greeting"] /\ reading = "no"
    <3>1. session' = [state |-> "greeting", ack |-> 0, through |-> 0,
                      replaying |-> FALSE]
      BY <2>5 DEF NoSession
    <3>2. /\ session' \in [state : {"off", "greeting", "on"}, ack : Nat,
                           through : Nat, replaying : BOOLEAN]
          /\ session'.ack = 0 /\ session'.through = 0
      BY <3>1
    <3> QED BY <1>1, <2>1, <2>5, <2>6, <3>2 DEF SessionOK
  <2> QED BY <2>2, <2>3, <2>4, <2>5
<1>16. CASE Misreads BY <1>1, <1>16, MisreadsAlone DEF SessionOK, ForgetBounds
<1>14. CASE Write \/ Overflow \/ (\E e \in Events : Emit(e)) \/ UNCHANGED vars
  BY <1>3, <1>14 DEF Write, Overflow, Emit, vars, deliveryVars
<1>15. CASE ClientStep
  BY <1>3, <1>15
  DEF ClientStep, ClientTakesHello, ClientTakesEvent, Flush, Render, Acknowledge, hub
<1> QED
  BY <1>4, <1>5, <1>6, <1>7, <1>8, <1>9, <1>10, <1>11, <1>12, <1>13, <1>14, <1>15,
     <1>16
  DEF Next, AgentStep, Misreads

\* The cursor, the link and what was shown.
LEMMA StepCursor ==
    ASSUME Assumptions, TypeOK, IInv, [Next]_vars
    PROVE  CursorOK' /\ epoch \in Nat /\ epoch' \in Nat /\ epoch <= epoch'
<1>1. CursorOK /\ epoch \in Nat /\ MaxReplaced \in Nat /\ MaxDrops \in Nat
  BY DeliveryTypeParts DEF CursorOK, Assumptions, DeliveryAssumption
<1>2. CASE UNCHANGED <<epoch, linked, helloDone, cursor, cursorEpoch, shown, drops>>
  BY <1>1, <1>2 DEF CursorOK
<1>3. CASE ReplaceDatabase
  <2>1. /\ epoch' = epoch + 1 /\ epoch <= MaxReplaced
        /\ UNCHANGED <<linked, helloDone, cursor, cursorEpoch, shown, drops>>
    BY <1>3 DEF ReplaceDatabase, client, durable
  <2>2. epoch' \in 1 .. MaxReplaced + 1 /\ cursorEpoch' \in 0 .. epoch'
    BY <1>1, <2>1 DEF CursorOK
  <2>3. shown' \subseteq (1 .. epoch') \X (Nat \ {0}) BY <1>1, <2>1 DEF CursorOK
  <2> QED BY <1>1, <2>1, <2>2, <2>3 DEF CursorOK
<1>4. CASE Cut /\ UNCHANGED <<epoch, cursor, cursorEpoch, shown>>
           /\ linked' \in BOOLEAN /\ helloDone' \in BOOLEAN
  <2>1. drops' \in 0 .. MaxDrops BY <1>1, <1>4 DEF Cut, CursorOK
  <2> QED BY <1>1, <1>4, <2>1 DEF CursorOK
<1>5. CASE AgentDrops \/ GreetUnreadable \/ ClientDrops \/ UIQuits
  BY <1>1, <1>4, <1>5
  DEF AgentDrops, GreetUnreadable, ClientDrops, UIQuits, client, durable, CursorOK
<1>6. CASE ClientNotices \/ Connect
  <2>1. /\ UNCHANGED <<epoch, cursor, cursorEpoch, shown, drops>>
        /\ linked' \in BOOLEAN /\ helloDone' = FALSE
    BY <1>6 DEF ClientNotices, Connect, durable
  <2>2. epoch' \in 1 .. MaxReplaced + 1 /\ cursorEpoch' \in 0 .. epoch'
    BY <1>1, <2>1 DEF CursorOK
  <2>3. shown' \subseteq (1 .. epoch') \X (Nat \ {0}) BY <1>1, <2>1 DEF CursorOK
  <2>4. cursor' \in Nat /\ drops' \in 0 .. MaxDrops BY <1>1, <2>1 DEF CursorOK
  <2>5. epoch' \in Nat /\ epoch <= epoch' BY <1>1, <2>1
  <2> QED BY <1>1, <2>1, <2>2, <2>3, <2>4, <2>5 DEF CursorOK
<1>7. CASE ClientTakesHello
  <2>1. PICK m : m = Head(toClient) /\ m.epoch \in 1 .. epoch /\ m.floor \in Nat
    BY <1>7, QueueElements, QueueHeads DEF ClientTakesHello
  <2>2. cursor' \in Nat /\ cursorEpoch' = m.epoch
    BY <1>1, <1>7, <2>1 DEF ClientTakesHello, NotBelow, CursorOK
  <2>3. UNCHANGED <<epoch, linked, shown, drops>> /\ helloDone' = TRUE
    BY <1>7 DEF ClientTakesHello
  <2> QED BY <1>1, <2>1, <2>2, <2>3 DEF CursorOK
<1>8. CASE Render
  <2>1. Head(gui).epoch \in 1 .. epoch /\ Head(gui).id \in Nat \ {0}
    BY <1>8, QueueElements, QueueHeads DEF Render
  <2>2. shown' \subseteq (1 .. epoch) \X (Nat \ {0})
    BY <1>1, <1>8, <2>1 DEF Render, CursorOK
  <2> QED BY <1>1, <1>8, <2>2 DEF Render, durable, CursorOK
<1>9. CASE Acknowledge
  <2>1. Head(acks) \in Nat \ {0}
    BY <1>9, QueueElements, QueueHeads DEF Acknowledge
  <2>2. cursor' \in Nat BY <1>1, <1>9, <2>1 DEF Acknowledge, CursorOK
  <2> QED BY <1>1, <1>9, <2>2 DEF Acknowledge, CursorOK
<1>10. CASE ClientTakesEvent \/ Flush
  BY <1>2, <1>10 DEF ClientTakesEvent, Flush, durable
<1>11. CASE Start \/ Crash \/ Write \/ UNCHANGED vars
  BY <1>2, <1>11 DEF Start, Crash, Write, vars, deliveryVars, client, durable
<1>12. CASE AgentStep
  BY <1>2, <1>12, MisreadsAlone
  DEF AgentStep, Misreads, Emit, Overflow, Greet, ReadBounds, ReadPage,
      HearRecorded, HearStatus, TakeAck, deliveryVars, client, durable
<1> QED
  BY <1>3, <1>5, <1>6, <1>7, <1>8, <1>9, <1>10, <1>11, <1>12
  DEF Next, ConnectionStep, ClientStep

\* Older messages and items remain such when the table is replaced.
LEMMA EpochsGrow ==
    ASSUME epoch \in Nat, epoch' \in Nat, epoch <= epoch'
    PROVE  /\ FromAgent \subseteq FromAgent' /\ FromClient \subseteq FromClient'
           /\ Items \subseteq Items'
<1>1. 1 .. epoch \subseteq 1 .. epoch' /\ 0 .. epoch \subseteq 0 .. epoch' OBVIOUS
<1>2. FromAgent \subseteq FromAgent' BY <1>1 DEF FromAgent
<1>3. FromClient \subseteq FromClient' BY <1>1 DEF FromClient
<1>4. Items \subseteq Items' BY <1>1 DEF Items
<1> QED BY <1>2, <1>3, <1>4

\* What is sent to the Agent.
LEMMA StepToAgent ==
    ASSUME Assumptions, TypeOK, IInv, [Next]_vars
    PROVE  ToAgentOK'
<1>1. ToAgentOK /\ CursorOK BY DeliveryTypeParts
<1>2. FromClient \subseteq FromClient' BY StepCursor, EpochsGrow
<1>3. CASE UNCHANGED toAgent BY <1>1, <1>2, <1>3 DEF ToAgentOK
<1>4. CASE toAgent' = <<>> BY <1>4 DEF ToAgentOK
<1>5. CASE toAgent # <<>> /\ toAgent' = Tail(toAgent)
  <2>1. toAgent' \in Seq(FromClient) BY <1>1, <1>5, TailElements DEF ToAgentOK
  <2> QED BY <1>2, <2>1 DEF ToAgentOK
<1>6. CASE Connect
  <2>1. HelloFromClient \in FromClient
    BY <1>1 DEF HelloFromClient, FromClient, CursorOK
  <2>2. toAgent' = <<HelloFromClient>> BY <1>6 DEF Connect
  <2> QED BY <1>2, <2>1, <2>2 DEF ToAgentOK
<1>7. CASE Acknowledge
  <2>1. PICK i \in Nat \ {0} : i = Head(acks)
    BY <1>7, QueueElements, QueueHeads DEF Acknowledge
  <2>2. AckFrame(i) \in FromClient
    BY <1>1, <2>1 DEF AckFrame, FromClient, CursorOK
  <2>3. toAgent' = Append(toAgent, AckFrame(i)) \/ UNCHANGED toAgent
    BY <1>7, <2>1 DEF Acknowledge
  <2>4. Append(toAgent, AckFrame(i)) \in Seq(FromClient)
    BY <1>1, <2>2, AppendElements DEF ToAgentOK
  <2> QED BY <1>2, <1>3, <2>3, <2>4 DEF ToAgentOK
<1>8. CASE Start \/ Crash \/ ReplaceDatabase \/ Write \/ UNCHANGED vars
  BY <1>3, <1>4, <1>8
  DEF Start, Crash, ReplaceDatabase, Write, vars, deliveryVars, wire
<1>9. CASE AgentStep
  BY <1>3, <1>5, <1>9, MisreadsAlone
  DEF AgentStep, Misreads, Emit, Overflow, Greet, ReadBounds, ReadPage,
      HearRecorded, HearStatus, TakeAck, deliveryVars, wire
<1>10. CASE AgentDrops \/ GreetUnreadable \/ ClientDrops \/ UIQuits \/ ClientNotices
  BY <1>3, <1>4, <1>10
  DEF AgentDrops, GreetUnreadable, ClientDrops, UIQuits, ClientNotices, Cut
<1>11. CASE ClientTakesHello \/ ClientTakesEvent \/ Flush \/ Render
  BY <1>3, <1>11 DEF ClientTakesHello, ClientTakesEvent, Flush, Render, wire
<1> QED
  BY <1>6, <1>7, <1>8, <1>9, <1>10, <1>11 DEF Next, ConnectionStep, ClientStep

\* What is sent to the client.
LEMMA StepToClient ==
    ASSUME Assumptions, TypeOK, IInv, [Next]_vars
    PROVE  ToClientOK'
<1>1. ToClientOK /\ CursorOK /\ SessionOK BY DeliveryTypeParts
<1>2. FromAgent \subseteq FromAgent' BY StepCursor, EpochsGrow
<1>3. CASE UNCHANGED toClient BY <1>1, <1>2, <1>3 DEF ToClientOK
<1>4. CASE toClient' = <<>> BY <1>4 DEF ToClientOK
<1>5. CASE toClient # <<>> /\ toClient' = Tail(toClient)
  <2>1. toClient' \in Seq(FromAgent) BY <1>1, <1>5, TailElements DEF ToClientOK
  <2> QED BY <1>2, <2>1 DEF ToClientOK
<1>6. ASSUME NEW m \in FromAgent, toClient' = Append(toClient, m) PROVE ToClientOK'
  <2>1. toClient' \in Seq(FromAgent) BY <1>1, <1>6, AppendElements DEF ToClientOK
  <2> QED BY <1>2, <2>1 DEF ToClientOK
<1>7. \A f, h \in Nat : HelloFromAgent(f, h) \in FromAgent
  BY <1>1 DEF HelloFromAgent, FromAgent, CursorOK
<1>8. \A i \in Nat \ {0} : EventFrame(i) \in FromAgent
  BY DEF EventFrame, FromAgent
<1>9. CASE Overflow \/ HearStatus
  <2>1. CachedHello \in FromAgent BY <1>1, <1>7 DEF CachedHello, SessionOK
  <2>2. toClient' = Append(toClient, CachedHello) \/ UNCHANGED toClient
    BY <1>9 DEF Overflow, HearStatus, SendHello
  <2> QED BY <1>3, <1>6, <2>1, <2>2
<1>10. CASE Greet
  <2>1. HelloFromAgent(Floor, High) \in FromAgent
    BY <1>7, BoundsOfTable, RowsAreNumbers
  <2> QED BY <1>6, <1>10, <2>1 DEF Greet
<1>11. CASE ReadPage
  <2>1. CASE UNCHANGED toClient BY <1>3, <2>1
  <2>2. ASSUME NEW n \in 1 .. PageSize,
               NEW page \in [1 .. n -> {i \in Rows : i > session.through}],
               toClient' = toClient \o [k \in 1 .. n |-> EventFrame(page[k])]
        PROVE  ToClientOK'
    <3>1. \A k \in 1 .. n : page[k] \in Nat \ {0} BY RowsAreNumbers
    <3>2. n \in Nat BY DEF Assumptions, DeliveryAssumption
    <3>3. [k \in 1 .. n |-> EventFrame(page[k])] \in Seq(FromAgent)
      BY <1>8, <3>1, <3>2
    <3>4. toClient' \in Seq(FromAgent) BY <1>1, <2>2, <3>3 DEF ToClientOK
    <3> QED BY <1>2, <3>4 DEF ToClientOK
  <2> QED BY <1>11, <2>1, <2>2 DEF ReadPage
<1>12. CASE HearRecorded
  <2>1. PICK i \in Nat \ {0} : i = Head(toHub).id
    BY <1>12, HeardSignal DEF HearRecorded
  <2>2. toClient' = Append(toClient, EventFrame(i)) \/ UNCHANGED toClient
    BY <1>12, <2>1 DEF HearRecorded
  <2> QED BY <1>3, <1>6, <1>8, <2>2
<1>13. CASE Start \/ Crash \/ ReplaceDatabase \/ Write \/ UNCHANGED vars
  BY <1>3, <1>13
  DEF Start, Crash, ReplaceDatabase, Write, vars, deliveryVars, wire
<1>14. CASE (\E e \in Events : Emit(e)) \/ ReadBounds \/ TakeAck \/ Misreads
  BY <1>3, <1>14, MisreadsAlone DEF Emit, ReadBounds, TakeAck, deliveryVars, wire
<1>15. CASE ConnectionStep
  BY <1>3, <1>4, <1>15
  DEF ConnectionStep, AgentDrops, GreetUnreadable, ClientDrops, UIQuits,
      ClientNotices, Connect
<1>16. CASE ClientStep
  BY <1>3, <1>5, <1>16
  DEF ClientStep, ClientTakesHello, ClientTakesEvent, Flush, Render, Acknowledge, wire
<1> QED
  BY <1>9, <1>10, <1>11, <1>12, <1>13, <1>14, <1>15, <1>16
  DEF Next, AgentStep, Misreads

\* Items that will not be acknowledged.
LEMMA StaleItems ==
    ASSUME TypeOK
    PROVE  /\ Stale(gui) \in Seq(Items) /\ Len(Stale(gui)) = Len(gui)
           /\ \A k \in 1 .. Len(gui) : Stale(gui)[k].fresh = FALSE
<1>1. gui \in Seq(Items) BY DEF TypeOK
<1>2. DOMAIN gui = 1 .. Len(gui) /\ Len(gui) \in Nat
      /\ \A k \in 1 .. Len(gui) : gui[k] \in Items
  BY <1>1
<1>3. \A x \in Items : [x EXCEPT !.fresh = FALSE] \in Items
                       /\ [x EXCEPT !.fresh = FALSE].fresh = FALSE
  BY DEF Items
<1>4. Stale(gui) = [k \in 1 .. Len(gui) |-> [gui[k] EXCEPT !.fresh = FALSE]]
  BY <1>2 DEF Stale
<1>5. \A k \in 1 .. Len(gui) : [gui[k] EXCEPT !.fresh = FALSE] \in Items
                              /\ [gui[k] EXCEPT !.fresh = FALSE].fresh = FALSE
  BY <1>2, <1>3
<1>6. Stale(gui) \in Seq(Items) /\ Len(Stale(gui)) = Len(gui) BY <1>2, <1>4, <1>5
<1> QED BY <1>4, <1>5, <1>6

\* What the client and the GUI hold.
LEMMA StepItems ==
    ASSUME Assumptions, TypeOK, IInv, ItemsOfStream, Links, OneEpoch, [Next]_vars
    PROVE  ItemsOK'
<1>1. ItemsOK /\ CursorOK BY DeliveryTypeParts
<1>2. Items \subseteq Items' BY StepCursor, EpochsGrow
<1>3. CASE UNCHANGED <<inbox, gui, acks, pending>>
  BY <1>1, <1>2, <1>3 DEF ItemsOK
<1>4. CASE /\ gui' = Stale(gui) \/ gui' = <<>>
           /\ pending' = {} /\ inbox' = <<>> /\ acks' = <<>>
  <2>1. Stale(gui) \in Seq(Items) /\ <<>> \in Seq(Items) BY StaleItems
  <2>2. gui' \in Seq(Items) BY <1>4, <2>1
  <2> QED BY <1>2, <1>4, <2>2 DEF ItemsOK
<1>5. CASE ClientTakesHello BY <1>3, <1>4, <1>5 DEF ClientTakesHello
<1>6. CASE ClientTakesEvent
  <2>1. PICK i \in Nat \ {0} : i = Head(toClient).id
    BY <1>6, QueueElements, QueueHeads DEF ClientTakesEvent
  <2> DEFINE x == [id |-> i, epoch |-> cursorEpoch, fresh |-> TRUE]
  <2>2. UNCHANGED <<gui, acks, epoch>>
    BY <1>6 DEF ClientTakesEvent
  <2>3. \/ UNCHANGED <<inbox, pending>>
        \/ inbox' = Append(inbox, x) /\ pending' = pending \union {i}
    BY <1>6, <2>1 DEF ClientTakesEvent
  <2>4. cursorEpoch \in 1 .. epoch
    <3>1. linked /\ toClient # <<>> /\ toClient[1].kind = "event"
      BY <1>6, QueueHeads DEF ClientTakesEvent
    <3>2. helloDone BY <1>1, <3>1 DEF Links, CursorOK
    <3> QED BY <1>1, <3>1, <3>2 DEF Links, CursorOK
  <2>5. x \in Items BY <2>4 DEF Items
  <2> HIDE DEF x
  <2>6. Append(inbox, x) \in Seq(Items) BY <1>1, <2>5, AppendElements DEF ItemsOK
  <2>7. inbox' \in Seq(Items) /\ pending' \subseteq Nat \ {0}
    BY <1>1, <2>3, <2>6 DEF ItemsOK
  <2> QED BY <1>1, <1>2, <2>2, <2>7 DEF ItemsOK
<1>7. CASE Flush
  <2>1. gui \o inbox \in Seq(Items) BY <1>1 DEF ItemsOK
  <2>2. gui' = gui \o inbox /\ inbox' = <<>> /\ UNCHANGED <<acks, pending>>
    BY <1>7 DEF Flush
  <2> QED BY <1>1, <1>2, <2>1, <2>2 DEF ItemsOK
<1>8. CASE Render
  <2>1. gui # <<>> /\ gui' = Tail(gui) /\ UNCHANGED <<inbox, pending>>
        /\ (acks' = acks \/ acks' = Append(acks, Head(gui).id))
    BY <1>8 DEF Render
  <2>2. Head(gui).id \in Nat \ {0} BY <2>1, QueueElements, QueueHeads
  <2>3. gui' \in Seq(Items) BY <1>1, <2>1, TailElements DEF ItemsOK
  <2>4. acks' \in Seq(Nat \ {0})
    <3>1. PICK i \in Nat \ {0} : i = Head(gui).id BY <2>2
    <3>2. Append(acks, i) \in Seq(Nat \ {0}) BY <1>1, AppendElements DEF ItemsOK
    <3> QED BY <1>1, <2>1, <3>1, <3>2 DEF ItemsOK
  <2> QED BY <1>1, <1>2, <2>1, <2>3, <2>4 DEF ItemsOK
<1>9. CASE Acknowledge
  <2>1. acks # <<>> /\ acks' = Tail(acks) /\ UNCHANGED <<inbox, gui>>
        /\ pending' \subseteq pending
    BY <1>9 DEF Acknowledge
  <2>2. acks' \in Seq(Nat \ {0}) BY <1>1, <2>1, TailElements DEF ItemsOK
  <2> QED BY <1>1, <1>2, <2>1, <2>2 DEF ItemsOK
<1>10. CASE Start \/ Crash \/ ReplaceDatabase \/ Write \/ AgentStep \/ UNCHANGED vars
  BY <1>3, <1>10, MisreadsAlone
  DEF Start, Crash, ReplaceDatabase, Write, AgentStep, Misreads, Emit, Overflow, Greet,
      ReadBounds, ReadPage, HearRecorded, HearStatus, TakeAck, vars, deliveryVars, client
<1>11. CASE ConnectionStep
  BY <1>3, <1>4, <1>11
  DEF ConnectionStep, AgentDrops, GreetUnreadable, ClientDrops, UIQuits,
      ClientNotices, Connect, client
<1> QED
  BY <1>5, <1>6, <1>7, <1>8, <1>9, <1>10, <1>11 DEF Next, ClientStep

\* Reads fail only where something is read for a client, and are counted there.
LEMMA StepReads ==
    ASSUME Assumptions, TypeOK, [Next]_vars
    PROVE  ReadsOK' /\ (misled => misled')
<1>1. ReadsOK BY DeliveryTypeParts
<1>2. CASE UNCHANGED reads BY <1>1, <1>2 DEF ReadsOK, reads
<1>3. CASE Misreads
  <2>1. misreads \in Nat /\ misreads' = misreads + 1 /\ misreads < MaxMisreads
    BY <1>1, <1>3, MisreadsAlone DEF ReadsOK
  <2>2. misreads' \in 0 .. MaxMisreads /\ misreads' > 0
    BY <2>1 DEF Assumptions, DeliveryAssumption
  <2>3. misled' \in BOOLEAN BY <1>3, MisreadsAlone
  <2>4. misled => misled'
    BY <1>3 DEF Misreads, BoundsUnreadable, PageUnreadable
  <2> QED BY <2>2, <2>3, <2>4 DEF ReadsOK
<1>4. CASE Start \/ Crash \/ ReplaceDatabase \/ Write \/ UNCHANGED vars
  BY <1>2, <1>4 DEF Start, Crash, ReplaceDatabase, Write, vars, deliveryVars
<1>5. CASE AgentStep /\ ~Misreads
  BY <1>2, <1>5
  DEF AgentStep, Misreads, Emit, Overflow, Greet, ReadBounds, ReadPage,
      HearRecorded, HearStatus, TakeAck, deliveryVars
<1>6. CASE ConnectionStep
  BY <1>2, <1>6
  DEF ConnectionStep, AgentDrops, GreetUnreadable, ClientDrops, UIQuits,
      ClientNotices, Connect, Cut
<1>7. CASE ClientStep
  BY <1>2, <1>7
  DEF ClientStep, ClientTakesHello, ClientTakesEvent, Flush, Render, Acknowledge
<1> QED BY <1>3, <1>4, <1>5, <1>6, <1>7 DEF Next

\* Every variable keeps its type.
LEMMA StepTypes ==
    ASSUME Assumptions, TypeOK, IInv, DownIsDrained, ItemsOfStream, Links, OneEpoch,
           [Next]_vars
    PROVE  TypeOK'
<1>1. SpoolTypeOK' BY StepKeepsSpool DEF IInv
<1>2. SessionOK' BY StepSession
<1>3. ToAgentOK' BY StepToAgent
<1>4. ToClientOK' BY StepToClient
<1>5. ItemsOK' BY StepItems
<1>6. CursorOK' BY StepCursor
<1>7. ReadsOK' BY StepReads
<1> QED
  BY <1>1, <1>2, <1>3, <1>4, <1>5, <1>6, <1>7
  DEF TypeOK, SessionOK, ToAgentOK, ToClientOK, ItemsOK, CursorOK, ReadsOK


-----------------------------------------------------------------------------
(* Steps of the Agent.                                                     *)

\* The Agent adds to what it sends, and leaves the client alone.
AgentSends ==
    /\ UNCHANGED client
    /\ Len(toClient) \in Nat /\ Len(toClient') \in Nat
    /\ Len(toClient) <= Len(toClient')
    /\ \A k \in 1 .. Len(toClient) : toClient'[k] = toClient[k]

\* What one more message changes.
LEMMA SentElements ==
    ASSUME TypeOK, NEW m, toClient' = Append(toClient, m)
    PROVE  /\ Len(toClient') = Len(toClient) + 1 /\ Len(toClient) \in Nat
           /\ \A k \in 1 .. Len(toClient) : toClient'[k] = toClient[k]
           /\ toClient'[Len(toClient) + 1] = m
<1>1. toClient \in Seq(FromAgent \union {m}) BY DEF TypeOK
<1> QED BY <1>1, AppendElements

\* What a page changes.
LEMMA PageElements ==
    ASSUME Assumptions, TypeOK, IInv, ReadPage,
           {i \in Rows : i > session.through} # {}
    PROVE  \E n \in 1 .. PageSize :
           \E page \in [1 .. n -> {i \in Rows : i > session.through}] :
              /\ IsPage(page, {i \in Rows : i > session.through})
              /\ session' = [session EXCEPT !.replaying = TRUE, !.through = page[n]]
              /\ n \in Nat \ {0}
              /\ Len(toClient') = Len(toClient) + n /\ Len(toClient) \in Nat
              /\ \A k \in 1 .. Len(toClient) : toClient'[k] = toClient[k]
              /\ \A k \in 1 .. n : toClient'[Len(toClient) + k] = EventFrame(page[k])
<1> DEFINE rows == {i \in Rows : i > session.through}
<1>0. PICK n \in 1 .. PageSize : \E page \in [1 .. n -> rows] :
           /\ IsPage(page, rows)
           /\ session' = [session EXCEPT !.replaying = TRUE, !.through = page[n]]
           /\ toClient' = toClient \o [k \in 1 .. n |-> EventFrame(page[k])]
  BY DEF ReadPage
<1>1. PICK page \in [1 .. n -> rows] :
           /\ IsPage(page, rows)
           /\ session' = [session EXCEPT !.replaying = TRUE, !.through = page[n]]
           /\ toClient' = toClient \o [k \in 1 .. n |-> EventFrame(page[k])]
  BY <1>0
<1>2. n \in Nat \ {0} BY DEF Assumptions, DeliveryAssumption
<1> DEFINE frames == [k \in 1 .. n |-> EventFrame(page[k])]
           S == FromAgent \union {EventFrame(page[k]) : k \in 1 .. n}
<1>3. toClient \in Seq(S) /\ frames \in Seq(S) /\ Len(frames) = n
  <2>1. toClient \in Seq(S) BY DEF TypeOK
  <2>2. \A k \in 1 .. n : EventFrame(page[k]) \in S OBVIOUS
  <2> HIDE DEF S
  <2>3. frames \in [1 .. n -> S] BY <2>2
  <2> QED BY <1>2, <2>1, <2>3
<1>4. /\ Len(toClient \o frames) = Len(toClient) + n /\ Len(toClient) \in Nat
      /\ \A k \in 1 .. Len(toClient) : (toClient \o frames)[k] = toClient[k]
      /\ \A k \in 1 .. n : (toClient \o frames)[Len(toClient) + k] = frames[k]
  <2> HIDE DEF S, frames
  <2> QED BY <1>2, <1>3
<1> QED BY <1>1, <1>2, <1>4

\* The Agent disconnects a client.
AgentEnds == AgentDrops \/ GreetUnreadable

\* The steps of the Agent, of its death and of its restart.
AgentSide ==
    Start \/ Crash \/ Write \/ AgentStep \/ AgentEnds \/ UNCHANGED vars

\* Such steps only add to what is sent.
LEMMA AgentSideSends ==
    ASSUME Assumptions, TypeOK, IInv, AgentSide
    PROVE  AgentSends
<1>1. Len(toClient) \in Nat BY QueueElements
<1>2. UNCHANGED client
  BY MisreadsAlone
  DEF AgentSide, AgentEnds, AgentDrops, GreetUnreadable, Start, Crash, Write,
         AgentStep, Misreads, Emit, Overflow, Greet,
         ReadBounds, ReadPage, HearRecorded, HearStatus, TakeAck, vars, deliveryVars
<1>3. CASE UNCHANGED toClient BY <1>1, <1>2, <1>3 DEF AgentSends
<1>4. CASE \E m : toClient' = Append(toClient, m)
  <2>1. PICK m : toClient' = Append(toClient, m) BY <1>4
  <2> QED BY <1>1, <1>2, <2>1, SentElements DEF AgentSends
<1>5. CASE ReadPage
  <2>1. CASE {i \in Rows : i > session.through} = {}
    BY <1>3, <1>5, <2>1 DEF ReadPage
  <2>2. CASE {i \in Rows : i > session.through} # {}
    <3>1. PICK n \in Nat : /\ Len(toClient') = Len(toClient) + n
                           /\ \A k \in 1 .. Len(toClient) : toClient'[k] = toClient[k]
      BY <1>5, <2>2, PageElements
    <3> QED BY <1>1, <1>2, <3>1 DEF AgentSends
  <2> QED BY <2>1, <2>2
<1>6. CASE HearRecorded \/ HearStatus \/ Overflow \/ Greet
  BY <1>3, <1>4, <1>6 DEF HearRecorded, HearStatus, Overflow, Greet, SendHello
<1> QED
  BY <1>3, <1>5, <1>6, MisreadsAlone
  DEF AgentSide, AgentEnds, AgentDrops, GreetUnreadable, Start, Crash, Write,
      AgentStep, Misreads, Emit, ReadBounds, TakeAck,
      vars, deliveryVars, wire

\* What waits in the client was a row when the socket is about the table.
LEMMA UnderwayIsRow ==
    ASSUME DInv, Streams, NEW k \in 0 .. Len(toClient), NEW i, Underway(i, k)
    PROVE  i \in Nat /\ i <= Len(log)
<1>1. Len(log) \in Nat /\ Len(toClient) \in Nat
  BY RowsAreNumbers, QueueElements DEF DInv, Base
<1>2. CASE Waiting(i)
  <2>1. helloDone => cursorEpoch = epoch BY DEF Streams
  <2>2. ASSUME ~helloDone PROVE FALSE
    <3>1. inbox = <<>> /\ \A l \in 1 .. Len(gui) : ~gui[l].fresh
      BY <2>2 DEF DInv, Base, Links, Streams
    <3>2. Len(inbox) = 0 BY <3>1
    <3> QED BY <1>2, <3>1, <3>2 DEF Waiting, InGui, InInbox
  <2>3. cursorEpoch = epoch BY <2>1, <2>2
  <2> QED
    BY <1>1, <1>2, <2>3
    DEF DInv, Base, GuiIsCovered, InboxIsCovered, Waiting, InGui, InInbox
<1>3. CASE InSent(i, k) BY <1>1, <1>3 DEF DInv, Base, SentIsCovered, InSent
<1> QED BY <1>2, <1>3 DEF Underway

\* The client's side of the invariant.
ClientGoals ==
    ItemsOfStream' /\ CursorIsSafe' /\ GuiIsCovered' /\ InboxIsCovered'
    /\ PendingIsCovered'

\* What the client holds stays, and its cursor is safe: its side is kept.
LEMMA ItemsKept ==
    ASSUME DInv, Moves, UNCHANGED <<cursorEpoch, pending, inbox, gui, acks>>,
           cursorEpoch = epoch => Safe(cursor)'
    PROVE  ClientGoals
<1>1. UNCHANGED <<cursorEpoch, pending, inbox, gui, acks>> /\ epoch' = epoch
  BY DEF Moves
<1>2. /\ \A i \in Unshown' : i \in Nat /\ (i \in Unshown \/ i > Len(log))
      /\ Len(log) \in Nat /\ Len(log') \in Nat /\ Len(log) <= Len(log')
      /\ \A j : Safe(j) => Safe(j)'
  BY MovesKeep DEF DInv, Base
<1>3. ItemsOfStream' BY <1>1 DEF DInv, Base, ItemsOfStream
<1>4. CursorIsSafe'
  <2>1. \A k \in 1 .. Len(acks) : Safe(acks[k]) => Safe(acks[k])'
    BY <1>1, <1>2 DEF Safe
  <2> QED BY <1>1, <2>1 DEF DInv, Base, CursorIsSafe
<1>5. \A i, n : InGui(i, n)' <=> InGui(i, n) BY <1>1 DEF InGui
<1>6. \A i, n : InInbox(i, n)' <=> InInbox(i, n) BY <1>1 DEF InInbox
<1>7. GuiIsCovered'
  <2>1. SUFFICES ASSUME cursorEpoch' = epoch',
                        NEW k \in 1 .. Len(gui), gui[k].fresh
                 PROVE  /\ gui[k].id \in 0 .. Len(log')
                        /\ \A i \in Unshown' : i <= gui[k].id => InGui(i, k)'
    BY <1>1 DEF GuiIsCovered
  <2>2. /\ gui[k].id \in 0 .. Len(log)
        /\ \A i \in Unshown : i <= gui[k].id => InGui(i, k)
    BY <1>1, <2>1 DEF DInv, Base, GuiIsCovered
  <2> QED BY <1>2, <1>5, <2>2
<1>8. InboxIsCovered'
  <2>1. SUFFICES ASSUME cursorEpoch' = epoch', NEW k \in 1 .. Len(inbox)
                 PROVE  /\ inbox[k].id \in 0 .. Len(log')
                        /\ \A i \in Unshown' : i <= inbox[k].id =>
                              InGui(i, Len(gui))' \/ InInbox(i, k)'
    BY <1>1 DEF InboxIsCovered
  <2>2. /\ inbox[k].id \in 0 .. Len(log)
        /\ \A i \in Unshown :
              i <= inbox[k].id => InGui(i, Len(gui)) \/ InInbox(i, k)
    BY <1>1, <2>1 DEF DInv, Base, InboxIsCovered
  <2>3. \A i : InGui(i, Len(gui))' <=> InGui(i, Len(gui)) BY <1>1 DEF InGui
  <2> QED BY <1>2, <1>6, <2>2, <2>3
<1>9. PendingIsCovered'
  <2>1. SUFFICES ASSUME cursorEpoch' = epoch', NEW i \in pending
                 PROVE  i <= Len(log') /\ (i \in Unshown' => Waiting(i)')
    BY <1>1 DEF PendingIsCovered
  <2>2. i <= Len(log) /\ (i \in Unshown => Waiting(i)) /\ i \in Nat
    BY <1>1, <2>1 DEF DInv, Base, PendingIsCovered, TypeOK
  <2>3. Waiting(i)' <=> Waiting(i) BY <1>1 DEF Waiting, InGui, InInbox
  <2> QED BY <1>2, <2>2, <2>3
<1> QED BY <1>3, <1>4, <1>7, <1>8, <1>9 DEF ClientGoals

\* What was under way up to a message remains so.
LEMMA AgentKeepsUnderway ==
    ASSUME AgentSends
    PROVE  \A k \in 0 .. Len(toClient) : \A i : Underway(i, k)' <=> Underway(i, k)
<1>1. SUFFICES ASSUME NEW k \in 0 .. Len(toClient), NEW i
               PROVE  Underway(i, k)' <=> Underway(i, k)
  OBVIOUS
<1>2. UNCHANGED <<gui, inbox>> BY DEF AgentSends, client
<1>3. Waiting(i)' <=> Waiting(i) BY <1>2 DEF Waiting, InGui, InInbox
<1>4. InSent(i, k)' <=> InSent(i, k)
  <2>1. \A l \in 1 .. k : toClient'[l] = toClient[l] BY DEF AgentSends
  <2> QED BY <2>1 DEF InSent
<1> QED BY <1>3, <1>4 DEF Underway

\* The messages that were there.
LEMMA OldMessages ==
    ASSUME DInv, AgentSends, Moves, Streams', NEW k \in 1 .. Len(toClient)
    PROVE  /\ Streams
           /\ toClient'[k] = toClient[k]
           /\ toClient[k].kind = "event" =>
                /\ toClient[k].id \in 0 .. Len(log')
                /\ \A i \in Unshown' : i <= toClient[k].id => Underway(i, k)'
           /\ toClient[k].kind = "hello" =>
                /\ toClient[k].floor \in 0 .. Len(log')
                /\ toClient[k].floor > 0 => \A i \in Rows' : toClient[k].floor <= i
                /\ \A i \in Unshown' : Underway(i, k)' =>
                      /\ i \in Unshown
                      /\ \/ i <= toClient[k].high
                         \/ OnlyHellosFrom(k) /\ (session.state = "on" => AwaitsAck(i))
<1>1. UNCHANGED <<linked, helloDone, cursorEpoch>> /\ epoch' = epoch
  BY DEF AgentSends, Moves, client, durable
<1>2. /\ \A i \in Unshown' : i \in Nat /\ (i \in Unshown \/ i > Len(log))
      /\ \A i \in Rows' : i \in Nat /\ (i \in Rows \/ i > Len(log))
      /\ Len(log) \in Nat /\ Len(log') \in Nat /\ Len(log) <= Len(log')
  BY MovesKeep DEF DInv, Base
<1>3. Streams
  <2>1. \A l \in 1 .. Len(toClient) : l \in 1 .. Len(toClient') /\ toClient'[l] = toClient[l]
    BY DEF AgentSends
  <2> QED BY <1>1, <2>1 DEF Streams
<1>4. toClient'[k] = toClient[k] /\ k \in 0 .. Len(toClient) BY DEF AgentSends
<1>5. \A i : Underway(i, k)' <=> Underway(i, k) BY <1>4, AgentKeepsUnderway
<1>6. ASSUME toClient[k].kind = "event"
      PROVE  /\ toClient[k].id \in 0 .. Len(log')
             /\ \A i \in Unshown' : i <= toClient[k].id => Underway(i, k)'
  <2>1. /\ toClient[k].id \in 0 .. Len(log)
        /\ \A i \in Unshown : i <= toClient[k].id => Underway(i, k)
    BY <1>3, <1>6 DEF DInv, Base, SentIsCovered
  <2> QED BY <1>2, <1>5, <2>1
<1>7. ASSUME toClient[k].kind = "hello"
      PROVE  /\ toClient[k].floor \in 0 .. Len(log')
             /\ toClient[k].floor > 0 => \A i \in Rows' : toClient[k].floor <= i
             /\ \A i \in Unshown' : Underway(i, k)' =>
                   /\ i \in Unshown
                   /\ \/ i <= toClient[k].high
                      \/ OnlyHellosFrom(k) /\ (session.state = "on" => AwaitsAck(i))
  <2>1. /\ toClient[k].floor \in 0 .. Len(log)
        /\ toClient[k].floor > 0 => \A i \in Rows : toClient[k].floor <= i
        /\ \A i \in Unshown : Underway(i, k) =>
              \/ i <= toClient[k].high
              \/ OnlyHellosFrom(k) /\ (session.state = "on" => AwaitsAck(i))
    BY <1>3, <1>7 DEF DInv, Base, HellosAreSound
  <2>2. toClient[k].floor \in 0 .. Len(log') BY <1>2, <2>1
  <2>3. toClient[k].floor > 0 => \A i \in Rows' : toClient[k].floor <= i
    BY <1>2, <2>1
  <2>4. ASSUME NEW i \in Unshown', Underway(i, k)' PROVE i \in Unshown
    <3>1. Underway(i, k) BY <1>5, <2>4
    <3>2. i \in Nat /\ i <= Len(log) BY <1>3, <1>4, <3>1, UnderwayIsRow
    <3> QED BY <1>2, <2>4, <3>2
  <2> QED BY <1>5, <2>1, <2>2, <2>3, <2>4
<1> QED BY <1>3, <1>4, <1>6, <1>7

\* All that is under way was sent, in other words.
LEMMA SentThroughMeans ==
    /\ SentThrough <=> \A i : Underway(i, Len(toClient)) => i <= session.through
    /\ SentThrough' <=> \A i : Underway(i, Len(toClient))' => i <= session'.through
<1>1. SentThrough <=> \A i : Underway(i, Len(toClient)) => i <= session.through
  BY DEF SentThrough, Underway, Waiting, InGui, InInbox, InSent
<1>2. SentThrough' <=> \A i : Underway(i, Len(toClient))' => i <= session'.through
  BY DEF SentThrough, Underway, Waiting, InGui, InInbox, InSent
<1> QED BY <1>1, <1>2

\* What is sent is in order when every new message is.
LEMMA SentIsCoveredStill ==
    ASSUME DInv, AgentSends, Moves,
           Streams' => \A k \in Len(toClient) + 1 .. Len(toClient') :
               toClient'[k].kind = "event" =>
                   /\ toClient'[k].id \in 0 .. Len(log')
                   /\ \A i \in Unshown' : i <= toClient'[k].id => Underway(i, k)'
    PROVE  SentIsCovered'
<1>1. SUFFICES ASSUME Streams', NEW k \in 1 .. Len(toClient'),
                      toClient'[k].kind = "event"
               PROVE  /\ toClient'[k].id \in 0 .. Len(log')
                      /\ \A i \in Unshown' : i <= toClient'[k].id => Underway(i, k)'
  BY DEF SentIsCovered
<1>2. k \in 1 .. Len(toClient) \/ k \in Len(toClient) + 1 .. Len(toClient')
  BY DEF AgentSends
<1> QED BY <1>1, <1>2, OldMessages

\* The hellos remain sound when every new one is.
LEMMA HellosAreSoundStill ==
    ASSUME DInv, AgentSends, Moves,
           Streams' => \A k \in Len(toClient) + 1 .. Len(toClient') :
               toClient'[k].kind = "hello" =>
                   /\ toClient'[k].floor \in 0 .. Len(log')
                   /\ toClient'[k].floor > 0 => \A i \in Rows' : toClient'[k].floor <= i
                   /\ \A i \in Unshown' : Underway(i, k)' => i <= toClient'[k].high
                         \/ /\ OnlyHellosFrom(k)'
                            /\ session'.state = "on" => AwaitsAck(i)',
           toClient # <<>> => \A i \in Unshown' :
               i \in Unshown /\ (session.state = "on" => AwaitsAck(i)) =>
                   /\ session'.state = "on" => AwaitsAck(i)'
                   /\ \A k \in Len(toClient) + 1 .. Len(toClient') :
                         toClient'[k].kind = "hello"
    PROVE  HellosAreSound'
<1>1. SUFFICES ASSUME Streams', NEW k \in 1 .. Len(toClient'),
                      toClient'[k].kind = "hello"
               PROVE  /\ toClient'[k].floor \in 0 .. Len(log')
                      /\ toClient'[k].floor > 0 =>
                            \A i \in Rows' : toClient'[k].floor <= i
                      /\ \A i \in Unshown' : Underway(i, k)' =>
                            \/ i <= toClient'[k].high
                            \/ /\ OnlyHellosFrom(k)'
                               /\ session'.state = "on" => AwaitsAck(i)'
  BY DEF HellosAreSound
<1>2. k \in 1 .. Len(toClient) \/ k \in Len(toClient) + 1 .. Len(toClient')
  BY DEF AgentSends
<1>3. CASE k \in 1 .. Len(toClient)
  <2>1. toClient'[k] = toClient[k] /\ toClient # <<>>
    BY <1>3 DEF AgentSends
  <2>2. /\ toClient[k].floor \in 0 .. Len(log')
        /\ toClient[k].floor > 0 => \A i \in Rows' : toClient[k].floor <= i
        /\ \A i \in Unshown' : Underway(i, k)' =>
              /\ i \in Unshown
              /\ \/ i <= toClient[k].high
                 \/ OnlyHellosFrom(k) /\ (session.state = "on" => AwaitsAck(i))
    BY <1>1, <1>3, <2>1, OldMessages
  <2>3. ASSUME OnlyHellosFrom(k),
               \A l \in Len(toClient) + 1 .. Len(toClient') : toClient'[l].kind = "hello"
        PROVE  OnlyHellosFrom(k)'
    <3>1. ASSUME NEW l \in k .. Len(toClient') PROVE toClient'[l].kind = "hello"
      <4>1. \/ l \in k .. Len(toClient) /\ toClient'[l] = toClient[l]
            \/ l \in Len(toClient) + 1 .. Len(toClient')
        BY <1>3 DEF AgentSends
      <4> QED BY <2>3, <4>1 DEF OnlyHellosFrom
    <3> QED BY <3>1 DEF OnlyHellosFrom
  <2>4. \A i \in Unshown' : Underway(i, k)' =>
            \/ i <= toClient'[k].high
            \/ OnlyHellosFrom(k)' /\ (session'.state = "on" => AwaitsAck(i)')
    BY <2>1, <2>2, <2>3
  <2> QED BY <2>1, <2>2, <2>4
<1> QED BY <1>1, <1>2, <1>3

\* Steps in which the Agent does not turn to the client, but for a hello.
Idles ==
    /\ AgentSends /\ Moves /\ RowsAreAnnounced
    /\ UNCHANGED <<session, reading, highSeen>>
    /\ \A k \in Len(toClient) + 1 .. Len(toClient') : toClient'[k].kind = "hello"

\* A hello more puts no event under way.
LEMMA IdleUnderway ==
    ASSUME DInv, Idles
    PROVE  \A i : Underway(i, Len(toClient))' <=> Underway(i, Len(toClient))
<1>1. SUFFICES ASSUME NEW i
               PROVE  Underway(i, Len(toClient))' <=> Underway(i, Len(toClient))
  OBVIOUS
<1>2. Len(toClient) \in 0 .. Len(toClient) /\ Len(toClient) <= Len(toClient')
      /\ Len(toClient) \in Nat /\ Len(toClient') \in Nat
  BY DEF Idles, AgentSends
<1>3. UNCHANGED <<gui, inbox>> BY DEF Idles, AgentSends, client
<1>4. Waiting(i)' <=> Waiting(i) BY <1>3 DEF Waiting, InGui, InInbox
<1>5. InSent(i, Len(toClient))' <=> InSent(i, Len(toClient))
  <2>1. \A l \in 1 .. Len(toClient') :
           \/ l \in 1 .. Len(toClient) /\ toClient'[l] = toClient[l]
           \/ toClient'[l].kind = "hello"
    <3>1. \A l \in 1 .. Len(toClient') :
             l \in 1 .. Len(toClient) \/ l \in Len(toClient) + 1 .. Len(toClient')
      BY <1>2
    <3> QED BY <3>1 DEF Idles, AgentSends
  <2>2. \A l \in 1 .. Len(toClient) : l \in 1 .. Len(toClient') /\ toClient'[l] = toClient[l]
    BY DEF Idles, AgentSends
  <2> QED BY <2>1, <2>2 DEF InSent
<1> QED BY <1>4, <1>5 DEF Underway

\* What the Agent knows of its client stays true in such a step.
LEMMA IdleSession ==
    ASSUME DInv, Idles
    PROVE  SessionIsSafe'
<1>1. SUFFICES ASSUME session.state = "on" PROVE SessionIsSafe'
  BY DEF SessionIsSafe, Idles
<1>2. /\ Safe(session.ack)
      /\ session.through \in 0 .. Len(log)
      /\ reading # "no" => Safe(session.through)
      /\ Broadcasts
      /\ SentThrough
      /\ \A i \in Unshown :
            Underway(i, Len(toClient)) => i <= highSeen \/ AwaitsAck(i)
  BY <1>1 DEF DInv, Base, SessionIsSafe
<1>3. /\ \A i \in Unshown' : i \in Nat /\ (i \in Unshown \/ i > Len(log))
      /\ \A i \in Rows' : i \in Nat /\ (i \in Rows \/ i > Len(log))
      /\ Len(log) \in Nat /\ Len(log') \in Nat /\ Len(log) <= Len(log')
      /\ \A j : Safe(j) => Safe(j)'
  BY MovesKeep DEF DInv, Base, Idles
<1>4. \A i : Underway(i, Len(toClient))' <=> Underway(i, Len(toClient))
  BY IdleUnderway
<1>5. UNCHANGED <<session, reading, highSeen>> BY DEF Idles
<1>6. Safe(session.ack)' BY <1>2, <1>3, <1>5 DEF Safe
<1>7. session'.through \in 0 .. Len(log') BY <1>2, <1>3, <1>5
<1>8. reading' # "no" => Safe(session.through)' BY <1>2, <1>3, <1>5 DEF Safe
<1>9. Broadcasts'
  <2>1. SUFFICES ASSUME reading = "no" /\ ~session.replaying
                 PROVE  /\ \A i \in Unshown' :
                              i <= session.through => Underway(i, Len(toClient))'
                        /\ \A i \in Rows' : i > session.through => Announced(i)'
    BY <1>5 DEF Broadcasts
  <2>2. /\ \A i \in Unshown : i <= session.through => Underway(i, Len(toClient))
        /\ \A i \in Rows : i > session.through => Announced(i)
    BY <1>2, <2>1 DEF Broadcasts
  <2>3. \A i \in Unshown' : i <= session.through => Underway(i, Len(toClient))'
    BY <1>2, <1>3, <1>4, <2>2
  <2>4. \A i \in Rows' : i > session.through => Announced(i)'
    <3>1. /\ \A i \in Rows' : i \in Rows \/ Announced(i)'
          /\ \A i \in Rows : Announced(i) => Announced(i)'
      BY DEF Idles, RowsAreAnnounced
    <3> QED BY <2>2, <3>1
  <2> QED BY <2>3, <2>4
<1>10. SentThrough' BY <1>2, <1>4, <1>5, SentThroughMeans
<1>11. \A i \in Unshown' :
          Underway(i, Len(toClient))' => i <= highSeen' \/ AwaitsAck(i)'
  <2>1. SUFFICES ASSUME NEW i \in Unshown', Underway(i, Len(toClient))'
                 PROVE  i <= highSeen' \/ AwaitsAck(i)'
    OBVIOUS
  <2>2. Underway(i, Len(toClient)) BY <1>4, <2>1
  <2>3. i <= session.through BY <1>2, <2>2, SentThroughMeans
  <2>4. i \in Unshown BY <1>2, <1>3, <2>1, <2>3
  <2> QED BY <1>2, <1>5, <2>2, <2>4 DEF AwaitsAck
<1> QED BY <1>6, <1>7, <1>8, <1>9, <1>10, <1>11 DEF SessionIsSafe

\* What the Agent knows when it sends the bounds it has cached.
LEMMA CachedHelloIsSound ==
    ASSUME DInv, up, session.state = "on"
    PROVE  /\ CachedHello.floor \in 0 .. Len(log)
           /\ CachedHello.floor > 0 => \A i \in Rows : CachedHello.floor <= i
           /\ CachedHello.kind = "hello" /\ CachedHello.epoch = epoch
           /\ \A i \in Unshown : Underway(i, Len(toClient)) =>
                 i <= CachedHello.high \/ AwaitsAck(i)
<1>1. /\ CachedHello.floor = floorSeen /\ CachedHello.high = highSeen
      /\ CachedHello.kind = "hello" /\ CachedHello.epoch = epoch
  BY DEF CachedHello, HelloFromAgent
<1> QED BY <1>1 DEF DInv, Base, FloorIsSound, SessionIsSafe

\* A signal that is no row is heard.
LEMMA StatusHeard ==
    ASSUME DInv, HearStatus
    PROVE  RowsAreAnnounced
<1>1. toHub \in Seq(Signals) /\ toHub # <<>> /\ toHub' = Tail(toHub)
      /\ Head(toHub).kind = "status" /\ UNCHANGED <<log, pruned>>
  BY DEF DInv, Base, IInv, SpoolTypeOK, HearStatus, stored
<1>2. /\ Len(toHub') = Len(toHub) - 1 /\ Len(toHub) \in Nat
      /\ \A n \in 1 .. Len(toHub) - 1 : toHub'[n] = toHub[n + 1]
      /\ Head(toHub) = toHub[1]
  BY <1>1, TailElements
<1>3. ASSUME NEW i, Announced(i) PROVE Announced(i)'
  <2>1. PICK n \in 1 .. Len(toHub) : toHub[n] = RecordedSignal(i)
    BY <1>3 DEF Announced
  <2>2. n # 1 BY <1>1, <1>2, <2>1 DEF RecordedSignal
  <2>3. n - 1 \in 1 .. Len(toHub') /\ toHub'[n - 1] = RecordedSignal(i)
    <3>1. n \in Nat /\ n - 1 \in 1 .. Len(toHub) - 1 /\ (n - 1) + 1 = n
      BY <1>2, <2>2
    <3> QED BY <1>2, <2>1, <3>1
  <2> QED BY <2>3 DEF Announced, RecordedSignal
<1>4. Rows' = Rows BY <1>1 DEF Rows
<1> QED BY <1>3, <1>4 DEF RowsAreAnnounced

-----------------------------------------------------------------------------
(* One step of the Agent after another: what it sends, and what it knows.  *)

AgentGoals == SentIsCovered' /\ HellosAreSound' /\ SessionIsSafe'

\* Steps that send nothing, or the bounds the Agent has cached.
LEMMA IdlesIsSafe ==
    ASSUME DInv, Idles,
           \/ UNCHANGED toClient
           \/ up /\ session.state = "on" /\ toClient' = Append(toClient, CachedHello)
    PROVE  AgentGoals
<1>1. DInv /\ TypeOK /\ AgentSends /\ Moves BY DEF DInv, Base, Idles
<1>2. SessionIsSafe' BY IdleSession
<1>3. SentIsCovered' BY <1>1, SentIsCoveredStill DEF Idles
<1>4. UNCHANGED <<session, reading>> BY DEF Idles
<1>5. \A i : session'.state = "on" => (AwaitsAck(i)' <=> AwaitsAck(i))
  BY <1>4 DEF AwaitsAck
<1>6. HellosAreSound'
  <2>1. ASSUME Streams', NEW k \in Len(toClient) + 1 .. Len(toClient'),
               toClient'[k].kind = "hello"
        PROVE  /\ toClient'[k].floor \in 0 .. Len(log')
               /\ toClient'[k].floor > 0 => \A i \in Rows' : toClient'[k].floor <= i
               /\ \A i \in Unshown' : Underway(i, k)' => i <= toClient'[k].high
                     \/ /\ OnlyHellosFrom(k)'
                        /\ session'.state = "on" => AwaitsAck(i)'
    <3>1. up /\ session.state = "on" /\ toClient' = Append(toClient, CachedHello)
      <4>1. Len(toClient') # Len(toClient) BY <1>1, <2>1 DEF AgentSends
      <4> QED BY <4>1
    <3>2. /\ Len(toClient') = Len(toClient) + 1 /\ Len(toClient) \in Nat
          /\ toClient'[Len(toClient) + 1] = CachedHello
      BY <1>1, <3>1, SentElements
    <3>3. k = Len(toClient) + 1 /\ k = Len(toClient') BY <2>1, <3>2
    <3>4. /\ CachedHello.floor \in 0 .. Len(log)
          /\ CachedHello.floor > 0 => \A i \in Rows : CachedHello.floor <= i
          /\ \A i \in Unshown : Underway(i, Len(toClient)) =>
                i <= CachedHello.high \/ AwaitsAck(i)
      BY <3>1, CachedHelloIsSound
    <3>5. /\ \A i \in Unshown' : i \in Nat /\ (i \in Unshown \/ i > Len(log))
          /\ \A i \in Rows' : i \in Nat /\ (i \in Rows \/ i > Len(log))
          /\ Len(log) \in Nat /\ Len(log') \in Nat /\ Len(log) <= Len(log')
      BY <1>1, MovesKeep DEF DInv, Base
    <3>6. OnlyHellosFrom(k)'
      <4>1. \A l \in k .. Len(toClient') : l = k BY <3>2, <3>3
      <4> QED BY <2>1, <4>1 DEF OnlyHellosFrom
    <3>7. CachedHello.floor \in 0 .. Len(log') BY <3>4, <3>5
    <3>8. CachedHello.floor > 0 => \A i \in Rows' : CachedHello.floor <= i
      BY <3>4, <3>5
    <3>9. ASSUME NEW i \in Unshown', Underway(i, k)'
          PROVE  i <= CachedHello.high \/ AwaitsAck(i)'
      <4>2. Underway(i, Len(toClient))'
        BY <3>3, <3>9 DEF Underway, Waiting, InGui, InInbox, InSent
      <4>3. Underway(i, Len(toClient)) BY <4>2, IdleUnderway
      <4>4. i \in Unshown
        <5>1. SessionIsSafe /\ Len(toClient) \in 0 .. Len(toClient)
          BY <3>2 DEF DInv, Base
        <5>2. i <= session.through /\ session.through \in 0 .. Len(log)
          BY <3>1, <4>3, <5>1, SentThroughMeans DEF SessionIsSafe
        <5> QED BY <3>5, <5>2
      <4>5. i <= CachedHello.high \/ AwaitsAck(i) BY <3>4, <4>3, <4>4
      <4> QED BY <1>4, <4>5 DEF AwaitsAck
    <3>10. toClient'[k] = CachedHello BY <3>2, <3>3
    <3> QED BY <3>6, <3>7, <3>8, <3>9, <3>10
  <2>2. \A i : (session.state = "on" => AwaitsAck(i)) =>
                  (session'.state = "on" => AwaitsAck(i)')
    BY <1>4, <1>5
  <2> QED BY <1>1, <2>1, <2>2, HellosAreSoundStill DEF Idles
<1> QED BY <1>2, <1>3, <1>6 DEF AgentGoals

\* The writer's steps, emissions, and signals that are no rows.
LEMMA IdleSteps ==
    ASSUME Assumptions, DInv,
           \/ Write \/ (\E e \in Events : Emit(e)) \/ Overflow \/ HearStatus
           \/ UNCHANGED vars
    PROVE  AgentGoals
<1>1. TypeOK /\ IInv BY DEF DInv, Base
<1>2. AgentSends BY <1>1, AgentSideSends DEF AgentSide, AgentStep
<1>3. Moves
  <2>1. [Next]_vars BY DEF Next, AgentStep
  <2>2. CASE ~ReplaceDatabase BY <1>1, <2>1, <2>2, StepMoves
  <2>3. CASE ReplaceDatabase
    <3>1. epoch' = epoch
      BY DEF Write, Emit, Overflow, HearStatus, vars, deliveryVars
    <3>2. epoch' = epoch + 1 /\ epoch \in Nat BY <1>1, <2>3 DEF ReplaceDatabase, TypeOK
    <3> QED BY <3>1, <3>2
  <2> QED BY <2>2, <2>3
<1>4. RowsAreAnnounced
  <2>1. CASE Write \/ (\E e \in Events : Emit(e)) \/ UNCHANGED vars
    BY <1>1, <2>1, WriterAnnounces DEF Write, Emit, EmitEvent, vars
  <2>2. CASE Overflow BY <1>1, <2>2, RefusedEmission
  <2>3. CASE HearStatus BY <2>3, StatusHeard
  <2> QED BY <2>1, <2>2, <2>3
<1>5. /\ UNCHANGED <<session, reading, highSeen>>
      /\ \/ UNCHANGED toClient
         \/ up /\ session.state = "on" /\ toClient' = Append(toClient, CachedHello)
  BY DEF Write, Emit, Overflow, HearStatus, SendHello, Emits, HubRuns, vars,
         deliveryVars, hub, wire
<1>6. ASSUME NEW k \in Len(toClient) + 1 .. Len(toClient')
      PROVE  toClient'[k].kind = "hello"
  <2>1. CASE UNCHANGED toClient BY <1>2, <2>1 DEF AgentSends
  <2>2. CASE session.state = "on" /\ up /\ toClient' = Append(toClient, CachedHello)
    <3>1. /\ Len(toClient') = Len(toClient) + 1 /\ Len(toClient) \in Nat
          /\ toClient'[Len(toClient) + 1] = CachedHello
      BY <1>1, <2>2, SentElements
    <3>2. k = Len(toClient) + 1 BY <1>6, <3>1
    <3> QED BY <3>1, <3>2 DEF CachedHello, HelloFromAgent
  <2> QED BY <1>5, <2>1, <2>2
<1>7. Idles BY <1>2, <1>3, <1>4, <1>5, <1>6 DEF Idles
<1> QED BY <1>5, <1>7, IdlesIsSafe

\* Steps after which the Agent has no client to send to.
LEMMA EndedSession ==
    ASSUME DInv, AgentSends, Moves, UNCHANGED toClient, session'.state = "off"
    PROVE  AgentGoals
<1>1. SentIsCovered' BY SentIsCoveredStill DEF AgentSends
<1>2. \A k \in Len(toClient) + 1 .. Len(toClient') : FALSE BY DEF AgentSends
<1>3. HellosAreSound' BY <1>2, HellosAreSoundStill
<1>4. SessionIsSafe' BY DEF SessionIsSafe
<1> QED BY <1>1, <1>3, <1>4 DEF AgentGoals

\* The table in a step that does not write it.
LEMMA SameTable ==
    ASSUME UNCHANGED <<log, pruned, epoch, shown>>
    PROVE  /\ Rows' = Rows /\ Unshown' = Unshown
           /\ \A j : Safe(j)' <=> Safe(j)
<1>1. Rows' = Rows BY DEF Rows
<1>2. Unshown' = Unshown BY <1>1 DEF Unshown, Shown
<1>3. \A j : Safe(j)' <=> Safe(j) BY <1>2 DEF Safe
<1> QED BY <1>1, <1>2, <1>3

\* The answer to a client's hello.
LEMMA GreetIsSafe ==
    ASSUME Assumptions, DInv, AgentSends, Moves, Greet
    PROVE  AgentGoals
<1>1. TypeOK /\ IInv /\ Links /\ FramesAreSafe BY DEF DInv, Base
<1>2. PICK ack : /\ ack = NotBelow(Floor, RequestedCursor(Head(toAgent), High))
                 /\ session' = [state |-> "on", ack |-> ack, through |-> ack,
                                replaying |-> FALSE]
  BY DEF Greet
<1>3. /\ toClient = <<>> /\ linked /\ ~helloDone /\ reading' = "bounds"
      /\ toClient' = Append(toClient, HelloFromAgent(Floor, High))
      /\ UNCHANGED <<log, pruned, epoch, shown, gui, inbox>>
  BY <1>1 DEF Greet, Links, spoolVars, stored, client, TypeOK
<1>4. Rows' = Rows /\ Unshown' = Unshown /\ \A j : Safe(j)' <=> Safe(j)
  BY <1>3, SameTable
<1>5. /\ Len(toClient') = 1 /\ Len(toClient) = 0
      /\ toClient'[1] = HelloFromAgent(Floor, High)
  BY <1>1, <1>3, SentElements
<1>6. Safe(ack) /\ ack \in 0 .. Len(log)
  <2>1. Safe(0)
    BY <1>1, RowsAreNumbers DEF Safe, Unshown
  <2>2. toAgent # <<>> /\ Head(toAgent) = toAgent[1] /\ 1 \in 1 .. Len(toAgent)
    BY <1>1, QueueHeads DEF Greet
  <2>3. Safe(RequestedCursor(Head(toAgent), High))
    BY <1>1, <2>1, <2>2 DEF RequestedCursor, FramesAreSafe
  <2> QED BY <1>1, <1>2, <2>3, BoundsOfTable, RaisedIsSafe DEF Safe
<1>7. \A i, k : k \in {0, 1} => ~Underway(i, k)'
  <2>1. ASSUME NEW i PROVE ~Waiting(i)'
    BY <1>1, <1>3 DEF Links, Waiting, InGui, InInbox
  <2>2. ASSUME NEW i, NEW k \in {0, 1} PROVE ~InSent(i, k)'
    BY <1>5 DEF InSent, HelloFromAgent
  <2> QED BY <2>1, <2>2 DEF Underway
<1>8. SentIsCovered'
  <2>1. \A k \in Len(toClient) + 1 .. Len(toClient') : toClient'[k].kind = "hello"
    BY <1>5 DEF HelloFromAgent
  <2> QED BY <2>1, SentIsCoveredStill
<1>9. HellosAreSound'
  <2>1. ASSUME NEW k \in Len(toClient) + 1 .. Len(toClient')
        PROVE  /\ toClient'[k].floor \in 0 .. Len(log')
               /\ toClient'[k].floor > 0 => \A i \in Rows' : toClient'[k].floor <= i
               /\ \A i : ~Underway(i, k)'
    <3>1. k = 1 /\ toClient'[k].floor = Floor
      BY <1>5 DEF HelloFromAgent
    <3> QED BY <1>1, <1>3, <1>4, <1>7, <3>1, BoundsOfTable
  <2> QED BY <1>3, <2>1, HellosAreSoundStill
<1>10. SessionIsSafe'
  <2>1. session'.ack = ack /\ session'.through = ack BY <1>2
  <2>2. Safe(session.ack)' /\ Safe(session.through)'
    BY <1>4, <1>6, <2>1 DEF Safe
  <2>3. session'.through \in 0 .. Len(log') BY <1>3, <1>6, <2>1
  <2>4. Broadcasts' BY <1>3 DEF Broadcasts
  <2>5. \A i : ~Underway(i, Len(toClient))'
    BY <1>5, <1>7 DEF Underway, Waiting, InGui, InInbox, InSent
  <2>6. SentThrough' BY <2>5, SentThroughMeans
  <2> QED BY <2>2, <2>3, <2>4, <2>5, <2>6 DEF SessionIsSafe
<1> QED BY <1>8, <1>9, <1>10 DEF AgentGoals

\* The bounds are read before a page.
LEMMA BoundsAreSafe ==
    ASSUME Assumptions, DInv, AgentSends, Moves, ReadBounds
    PROVE  AgentGoals
<1>1. TypeOK /\ IInv /\ SessionOK /\ session.state = "on"
  BY DeliveryTypeParts DEF DInv, Base, SessionOK, ReadBounds
<1>2. /\ UNCHANGED <<log, pruned, epoch, shown, gui, inbox, toClient>>
      /\ reading = "bounds" /\ reading' = "page" /\ highSeen' = High
  BY DEF ReadBounds, spoolVars, stored, client, wire
<1>3. Rows' = Rows /\ Unshown' = Unshown /\ \A j : Safe(j)' <=> Safe(j)
  BY <1>2, SameTable
<1>4. /\ Safe(session.ack) /\ Safe(session.through)
      /\ session.through \in 0 .. Len(log)
      /\ SentThrough
  BY <1>1, <1>2 DEF DInv, Base, SessionIsSafe
<1>5. PICK after : after = NotBelow(Floor, session.through) OBVIOUS
<1>6. Safe(after) /\ session.through <= after
  BY <1>1, <1>4, <1>5, BoundsOfTable, RaisedIsSafe
<1>7. /\ session'.through = after /\ session'.ack \in {session.ack, after}
      /\ session'.state = "on"
  BY <1>1, <1>5 DEF ReadBounds, SessionOK
<1>8. SentIsCovered' BY <1>2, SentIsCoveredStill
<1>9. HellosAreSound'
  <2>1. \A k \in Len(toClient) + 1 .. Len(toClient') : FALSE
    BY <1>2 DEF AgentSends
  <2> QED BY <1>1, <1>2, <2>1, HellosAreSoundStill DEF AwaitsAck
<1>10. \A i : Underway(i, Len(toClient))' <=> Underway(i, Len(toClient))
  BY <1>2 DEF Underway, Waiting, InGui, InInbox, InSent
<1>11. SessionIsSafe'
  <2>1. Safe(session.ack)' /\ Safe(session.through)'
    BY <1>3, <1>4, <1>6, <1>7 DEF Safe
  <2>2. session'.through \in 0 .. Len(log') BY <1>2, <1>6, <1>7 DEF Safe
  <2>3. Broadcasts' BY <1>2 DEF Broadcasts
  <2>4. SentThrough'
    <3>1. ASSUME NEW i, Underway(i, Len(toClient))' PROVE i <= after
      <4>1. Underway(i, Len(toClient)) BY <1>10, <3>1
      <4>2. i \in Nat
        <5>1. TypeOK BY <1>1
        <5> QED BY <4>1, <5>1, QueueElements
                DEF Underway, Waiting, InGui, InInbox, InSent
      <4>3. i <= session.through BY <1>4, <4>1, SentThroughMeans
      <4> QED BY <1>4, <1>6, <4>2, <4>3 DEF Safe
    <3> QED BY <1>7, <3>1, SentThroughMeans
  <2>5. \A i \in Unshown' : i <= highSeen'
    BY <1>1, <1>2, <1>3, BoundsOfTable DEF Unshown
  <2> QED BY <2>1, <2>2, <2>3, <2>4, <2>5 DEF SessionIsSafe
<1> QED BY <1>8, <1>9, <1>11 DEF AgentGoals

\* A page that is empty.
LEMMA EmptyPageIsSafe ==
    ASSUME Assumptions, DInv, AgentSends, Moves, ReadPage,
           {i \in Rows : i > session.through} = {}
    PROVE  AgentGoals
<1>1. TypeOK /\ IInv /\ SessionOK /\ session.state = "on"
  BY DeliveryTypeParts DEF DInv, Base, SessionOK, ReadPage
<1>2. /\ UNCHANGED <<log, pruned, epoch, shown, gui, inbox, toClient, highSeen>>
      /\ reading = "page" /\ reading' = "no"
      /\ session' = [session EXCEPT !.replaying = FALSE]
  BY DEF ReadPage, spoolVars, stored, client
<1>3. Rows' = Rows /\ Unshown' = Unshown /\ \A j : Safe(j)' <=> Safe(j)
  BY <1>2, SameTable
<1>4. /\ Safe(session.ack) /\ Safe(session.through)
      /\ session.through \in 0 .. Len(log)
      /\ SentThrough
      /\ \A i \in Unshown : Underway(i, Len(toClient)) => i <= highSeen
  BY <1>1, <1>2 DEF DInv, Base, SessionIsSafe, AwaitsAck
<1>5. /\ session'.through = session.through /\ session'.ack = session.ack
      /\ session'.state = "on" /\ session'.replaying = FALSE
  BY <1>1, <1>2 DEF SessionOK
<1>6. SentIsCovered' BY <1>2, SentIsCoveredStill
<1>7. HellosAreSound'
  <2>1. \A k \in Len(toClient) + 1 .. Len(toClient') : FALSE
    BY <1>2 DEF AgentSends
  <2> QED BY <1>1, <1>2, <2>1, HellosAreSoundStill DEF AwaitsAck
<1>8. \A i : Underway(i, Len(toClient))' <=> Underway(i, Len(toClient))
  BY <1>2 DEF Underway, Waiting, InGui, InInbox, InSent
<1>9. SessionIsSafe'
  <2>1. Safe(session.ack)' BY <1>3, <1>4, <1>5 DEF Safe
  <2>2. session'.through \in 0 .. Len(log') BY <1>2, <1>4, <1>5
  <2>3. Broadcasts'
    <3>1. \A i \in Unshown' : ~(i <= session'.through)
      BY <1>1, <1>3, <1>4, <1>5, RowsAreNumbers DEF Safe, Unshown
    <3>2. \A i \in Rows' : ~(i > session'.through) BY <1>3, <1>5
    <3> QED BY <3>1, <3>2 DEF Broadcasts
  <2>4. SentThrough' BY <1>4, <1>5, <1>8, SentThroughMeans
  <2>5. \A i \in Unshown' : Underway(i, Len(toClient))' => i <= highSeen'
    BY <1>2, <1>3, <1>4, <1>8
  <2> QED BY <1>2, <2>1, <2>2, <2>3, <2>4, <2>5 DEF SessionIsSafe
<1> QED BY <1>6, <1>7, <1>9 DEF AgentGoals

\* A page that cannot be read, for a client that has yet to acknowledge one.
LEMMA UnreadPageIsSafe ==
    ASSUME DInv, AgentSends, Moves, PageUnreadable, ~misled'
    PROVE  AgentGoals
<1>1. TypeOK /\ IInv /\ SessionOK /\ session.state = "on"
  BY DeliveryTypeParts DEF DInv, Base, SessionOK, PageUnreadable
<1>2. /\ UNCHANGED <<log, pruned, epoch, shown, gui, inbox, toClient, highSeen, session>>
      /\ reading = "page" /\ reading' = "no"
  BY DEF PageUnreadable, Misread, spoolVars, stored, client, wire
<1>3. session.replaying BY DEF PageUnreadable
<1>4. Rows' = Rows /\ Unshown' = Unshown /\ \A j : Safe(j)' <=> Safe(j)
  BY <1>2, SameTable
<1>5. /\ Safe(session.ack) /\ session.through \in 0 .. Len(log)
      /\ SentThrough
      /\ \A i \in Unshown : Underway(i, Len(toClient)) => i <= highSeen
  BY <1>1, <1>2 DEF DInv, SessionIsSafe, AwaitsAck
<1>6. SentIsCovered' BY <1>2, SentIsCoveredStill
<1>7. HellosAreSound'
  <2>1. \A k \in Len(toClient) + 1 .. Len(toClient') : FALSE
    BY <1>2 DEF AgentSends
  <2> QED BY <1>1, <1>2, <2>1, HellosAreSoundStill DEF AwaitsAck
<1>8. \A i : Underway(i, Len(toClient))' <=> Underway(i, Len(toClient))
  BY <1>2 DEF Underway, Waiting, InGui, InInbox, InSent
<1>9. SessionIsSafe'
  <2>1. Safe(session.ack)' BY <1>2, <1>4, <1>5 DEF Safe
  <2>2. session'.through \in 0 .. Len(log') BY <1>2, <1>5
  <2>3. Broadcasts' BY <1>2, <1>3 DEF Broadcasts
  <2>4. SentThrough' BY <1>2, <1>5, <1>8, SentThroughMeans
  <2>5. \A i \in Unshown' : Underway(i, Len(toClient))' => i <= highSeen'
    BY <1>2, <1>4, <1>5, <1>8
  <2> QED BY <1>2, <2>1, <2>2, <2>3, <2>4, <2>5 DEF SessionIsSafe
<1> QED BY <1>6, <1>7, <1>9 DEF AgentGoals

\* A page with rows.
LEMMA PageIsSafe ==
    ASSUME Assumptions, DInv, AgentSends, Moves, ReadPage,
           {i \in Rows : i > session.through} # {}
    PROVE  AgentGoals
<1>1. TypeOK /\ IInv /\ SessionOK /\ session.state = "on"
  BY DeliveryTypeParts DEF DInv, Base, SessionOK, ReadPage
<1>2. /\ UNCHANGED <<log, pruned, epoch, shown, gui, inbox, highSeen>>
      /\ reading = "page" /\ reading' = "no"
  BY DEF ReadPage, spoolVars, stored, client
<1>3. Rows' = Rows /\ Unshown' = Unshown /\ \A j : Safe(j)' <=> Safe(j)
  BY <1>2, SameTable
<1>4. /\ Safe(session.ack) /\ Safe(session.through)
      /\ session.through \in 0 .. Len(log)
      /\ SentThrough
  BY <1>1, <1>2 DEF DInv, Base, SessionIsSafe
<1> DEFINE rows == {i \in Rows : i > session.through}
<1>5. \A i \in Unshown : i \in rows
  BY <1>1, <1>4, RowsAreNumbers DEF Safe, Unshown
<1>6. \E n \in 1 .. PageSize : \E page \in [1 .. n -> rows] :
         /\ IsPage(page, rows)
         /\ session' = [session EXCEPT !.replaying = TRUE, !.through = page[n]]
         /\ n \in Nat \ {0}
         /\ Len(toClient') = Len(toClient) + n /\ Len(toClient) \in Nat
         /\ \A k \in 1 .. Len(toClient) : toClient'[k] = toClient[k]
         /\ \A k \in 1 .. n : toClient'[Len(toClient) + k] = EventFrame(page[k])
  BY <1>1, PageElements
<1>7. PICK n \in 1 .. PageSize : \E page \in [1 .. n -> rows] :
         /\ IsPage(page, rows)
         /\ session' = [session EXCEPT !.replaying = TRUE, !.through = page[n]]
         /\ n \in Nat \ {0}
         /\ Len(toClient') = Len(toClient) + n /\ Len(toClient) \in Nat
         /\ \A k \in 1 .. Len(toClient) : toClient'[k] = toClient[k]
         /\ \A k \in 1 .. n : toClient'[Len(toClient) + k] = EventFrame(page[k])
  BY <1>6
<1>8. PICK page \in [1 .. n -> rows] :
         /\ IsPage(page, rows)
         /\ session' = [session EXCEPT !.replaying = TRUE, !.through = page[n]]
         /\ n \in Nat \ {0}
         /\ Len(toClient') = Len(toClient) + n /\ Len(toClient) \in Nat
         /\ \A k \in 1 .. Len(toClient) : toClient'[k] = toClient[k]
         /\ \A k \in 1 .. n : toClient'[Len(toClient) + k] = EventFrame(page[k])
  BY <1>7
<1>9. /\ DOMAIN page = 1 .. n /\ n \in 1 .. n
      /\ \A k \in 1 .. n : /\ page[k] \in rows /\ page[k] \in Nat \ {0}
                           /\ page[k] <= Len(log) /\ session.through < page[k]
  <2>1. \A i \in rows : i \in Nat \ {0} /\ i <= Len(log) /\ session.through < i
    BY <1>1, RowsAreNumbers
  <2> QED BY <1>8, <2>1
<1>10. Len(page) = n BY <1>8
<1>11. /\ \A k, l \in 1 .. n : k < l => page[k] < page[l]
       /\ \A i \in rows : i <= page[n] => \E k \in 1 .. n : page[k] = i
  <2> HIDE DEF rows
  <2> QED BY <1>8, <1>9, <1>10 DEF IsPage
<1>12. /\ session'.through = page[n] /\ session'.ack = session.ack
       /\ session'.state = "on" /\ session'.replaying = TRUE
  BY <1>1, <1>8 DEF SessionOK
<1>13. ASSUME NEW k \in 1 .. n PROVE page[k] <= page[n]
  <2>1. page[k] \in Nat /\ page[n] \in Nat BY <1>9
  <2>2. CASE k = n BY <2>1, <2>2
  <2>3. CASE k # n
    <3>1. k < n BY <2>3
    <3>2. page[k] < page[n] BY <1>9, <1>11, <3>1
    <3> QED BY <2>1, <3>2
  <2> QED BY <2>2, <2>3
<1> HIDE DEF rows
<1>14. \A k \in Len(toClient) + 1 .. Len(toClient') :
          \E l \in 1 .. n : k = Len(toClient) + l /\ toClient'[k] = EventFrame(page[l])
  <2>1. ASSUME NEW k \in Len(toClient) + 1 .. Len(toClient')
        PROVE  \E l \in 1 .. n : k = Len(toClient) + l /\ toClient'[k] = EventFrame(page[l])
    <3>1. k - Len(toClient) \in 1 .. n /\ k = Len(toClient) + (k - Len(toClient))
      BY <1>8
    <3> QED BY <1>8, <3>1
  <2> QED BY <2>1
<1>15. SentIsCovered'
  <2>1. ASSUME NEW k \in Len(toClient) + 1 .. Len(toClient')
        PROVE  /\ toClient'[k].id \in 0 .. Len(log')
               /\ \A i \in Unshown' : i <= toClient'[k].id => Underway(i, k)'
    <3>1. PICK l \in 1 .. n : k = Len(toClient) + l /\ toClient'[k] = EventFrame(page[l])
      BY <1>14
    <3>2. toClient'[k].id = page[l] BY <3>1 DEF EventFrame
    <3>3. page[l] \in 0 .. Len(log') BY <1>2, <1>9
    <3>4. ASSUME NEW i \in Unshown', i <= page[l] PROVE Underway(i, k)'
      <4>1. i \in rows /\ i \in Nat BY <1>1, <1>3, <1>5, RowsAreNumbers DEF Unshown
      <4>2. i <= page[n] BY <1>9, <1>13, <3>4, <4>1
      <4>3. PICK h \in 1 .. n : page[h] = i BY <1>11, <4>1, <4>2
      <4>4. ~(l < h) BY <1>9, <1>11, <3>4, <4>3
      <4>5. Len(toClient) + h \in 1 .. k BY <1>8, <3>1, <4>4
      <4>6. toClient'[Len(toClient) + h] = EventFrame(i) BY <1>8, <4>3
      <4>7. InSent(i, k)' BY <4>5, <4>6 DEF InSent, EventFrame
      <4> QED BY <4>7 DEF Underway
    <3> QED BY <3>2, <3>3, <3>4
  <2> QED BY <2>1, SentIsCoveredStill
<1>16. HellosAreSound'
  <2>1. ASSUME NEW k \in Len(toClient) + 1 .. Len(toClient')
        PROVE  toClient'[k].kind = "event"
    <3>1. PICK l \in 1 .. n : toClient'[k] = EventFrame(page[l]) BY <1>14
    <3> QED BY <3>1 DEF EventFrame
  <2> QED BY <1>1, <1>2, <2>1, HellosAreSoundStill DEF AwaitsAck
<1>17. SessionIsSafe'
  <2>1. Safe(session.ack)' BY <1>3, <1>4, <1>12 DEF Safe
  <2>2. session'.through \in 0 .. Len(log') BY <1>2, <1>9, <1>12
  <2>3. Broadcasts' BY <1>12 DEF Broadcasts
  <2>4. ASSUME NEW i, Underway(i, Len(toClient))' PROVE i <= page[n]
    <3>1. CASE Underway(i, Len(toClient))
      <4>1. i \in Nat
        BY <1>1, <3>1, QueueElements DEF Underway, Waiting, InGui, InInbox, InSent
      <4>2. i <= session.through BY <1>4, <3>1, SentThroughMeans
      <4> QED BY <1>4, <1>9, <4>1, <4>2
    <3>2. CASE ~Underway(i, Len(toClient))
      <4>1. ~Waiting(i)' BY <1>2, <3>2 DEF Underway, Waiting, InGui, InInbox
      <4>2. PICK l \in 1 .. Len(toClient') :
               toClient'[l].kind = "event" /\ toClient'[l].id = i
        BY <2>4, <4>1 DEF Underway, InSent
      <4>3. ~(l \in 1 .. Len(toClient)) BY <1>8, <3>2, <4>2 DEF Underway, InSent
      <4>4. l \in Len(toClient) + 1 .. Len(toClient') BY <1>8, <4>3
      <4>5. PICK h \in 1 .. n : toClient'[l] = EventFrame(page[h])
        BY <1>14, <4>4
      <4>6. i = page[h] BY <4>2, <4>5 DEF EventFrame
      <4> QED BY <1>13, <4>6
    <3> QED BY <3>1, <3>2
  <2>5. SentThrough' BY <1>12, <2>4, SentThroughMeans
  <2>6. \A i \in Unshown' : Underway(i, Len(toClient))' => AwaitsAck(i)'
    BY <1>2, <1>12, <2>4 DEF AwaitsAck
  <2> QED BY <1>2, <2>1, <2>2, <2>3, <2>5, <2>6 DEF SessionIsSafe
<1> QED BY <1>15, <1>16, <1>17 DEF AgentGoals

\* The signals of rows come in order.
LEMMA SignalsInOrder ==
    ASSUME IInv, HearRecorded
    PROVE  /\ Head(toHub).id \in Nat \ {0} /\ Head(toHub).id <= Len(log)
           /\ \A i \in Nat : Announced(i) => Head(toHub).id <= i
           /\ \A i \in Nat : Announced(i) /\ i # Head(toHub).id => Announced(i)'
<1>1. toHub \in Seq(Signals) /\ toHub # <<>> /\ toHub' = Tail(toHub)
      /\ Head(toHub).kind = "recorded"
  BY DEF IInv, SpoolTypeOK, HearRecorded
<1>2. /\ Head(toHub).id \in Nat \ {0} /\ Head(toHub).id <= Len(log)
      /\ Head(toHub) = toHub[1] /\ Len(toHub) \in Nat \ {0}
  BY <1>1, HeardSignal
<1>3. /\ Len(toHub') = Len(toHub) - 1
      /\ \A n \in 1 .. Len(toHub) - 1 : toHub'[n] = toHub[n + 1]
      /\ DOMAIN toHub = 1 .. Len(toHub)
  BY <1>1, TailElements
<1>4. ASSUME NEW i \in Nat, Announced(i)
      PROVE  /\ Head(toHub).id <= i
             /\ i # Head(toHub).id => Announced(i)'
  <2>1. PICK n \in 1 .. Len(toHub) : toHub[n] = RecordedSignal(i)
    BY <1>4 DEF Announced
  <2>2. toHub[n].kind = "recorded" /\ toHub[n].id = i BY <2>1 DEF RecordedSignal
  <2>3. CASE n = 1 BY <1>2, <2>2, <2>3
  <2>4. CASE n # 1
    <3>1. 1 < n /\ 1 \in DOMAIN toHub /\ n \in DOMAIN toHub BY <1>2, <1>3, <2>4
    <3>2. toHub[1].id < toHub[n].id
      BY <1>1, <1>2, <2>2, <3>1 DEF IInv, SignalsAscend
    <3>3. n - 1 \in 1 .. Len(toHub') /\ toHub'[n - 1] = RecordedSignal(i)
      <4>1. n - 1 \in 1 .. Len(toHub) - 1 /\ (n - 1) + 1 = n BY <1>2, <2>4
      <4> QED BY <1>3, <2>1, <4>1
    <3>4. Announced(i)' BY <3>3 DEF Announced, RecordedSignal
    <3>5. Head(toHub).id <= i BY <1>2, <2>2, <3>2
    <3> QED BY <3>4, <3>5
  <2> QED BY <2>3, <2>4
<1> QED BY <1>2, <1>4

\* A row the Agent hears of that is not for the client.
LEMMA HeardIsSafe ==
    ASSUME Assumptions, DInv, AgentSends, Moves, HearRecorded,
           ~IsBroadcast(Head(toHub).id)
    PROVE  AgentGoals
<1>1. TypeOK /\ IInv /\ SessionOK BY DeliveryTypeParts DEF DInv, Base
<1>2. PICK h \in Nat \ {0} : h = Head(toHub).id BY <1>1, SignalsInOrder
<1>3. /\ UNCHANGED <<log, pruned, epoch, shown, gui, inbox, toClient, session, reading>>
      /\ highSeen' = Max({highSeen, h}) /\ reading = "no"
  BY <1>2 DEF HearRecorded, HubRuns, stored, client
<1>4. Rows' = Rows /\ Unshown' = Unshown /\ \A j : Safe(j)' <=> Safe(j)
  BY <1>3, SameTable
<1>5. highSeen <= highSeen' /\ highSeen \in Nat /\ highSeen' \in Nat
  <2>1. highSeen \in Nat BY <1>1 DEF SessionOK
  <2>2. highSeen' = IF highSeen <= h THEN h ELSE highSeen
    BY <1>3, <2>1, MaxOfTwo
  <2> QED BY <2>1, <2>2
<1>6. SentIsCovered' BY <1>3, SentIsCoveredStill
<1>7. HellosAreSound'
  <2>1. \A k \in Len(toClient) + 1 .. Len(toClient') : FALSE
    BY <1>3 DEF AgentSends
  <2> QED BY <1>3, <2>1, HellosAreSoundStill DEF AwaitsAck
<1>8. \A i : Underway(i, Len(toClient))' <=> Underway(i, Len(toClient))
  BY <1>3 DEF Underway, Waiting, InGui, InInbox, InSent
<1>9. ASSUME session.state = "on" PROVE SessionIsSafe'
  <2>1. /\ Safe(session.ack) /\ session.through \in 0 .. Len(log)
        /\ Broadcasts /\ SentThrough
        /\ \A i \in Unshown :
              Underway(i, Len(toClient)) => i <= highSeen \/ AwaitsAck(i)
    BY <1>9 DEF DInv, Base, SessionIsSafe
  <2>2. Safe(session.ack)' BY <1>3, <1>4, <2>1 DEF Safe
  <2>3. session'.through \in 0 .. Len(log') BY <1>3, <2>1
  <2>4. Broadcasts'
    <3>1. SUFFICES ASSUME ~session.replaying
                   PROVE  /\ \A i \in Unshown :
                                i <= session.through => Underway(i, Len(toClient))
                          /\ \A i \in Rows : i > session.through => Announced(i)'
      BY <1>3, <1>4, <1>8 DEF Broadcasts
    <3>2. /\ \A i \in Unshown : i <= session.through => Underway(i, Len(toClient))
          /\ \A i \in Rows : i > session.through => Announced(i)
      BY <1>3, <2>1, <3>1 DEF Broadcasts
    <3>3. h <= session.through
      BY <1>1, <1>2, <1>9, <3>1 DEF IsBroadcast, SessionOK
    <3>4. ASSUME NEW i \in Rows, i > session.through PROVE Announced(i)'
      <4>1. i \in Nat /\ i # h
        BY <1>1, <2>1, <3>3, <3>4, RowsAreNumbers
      <4> QED BY <1>1, <1>2, <3>2, <3>4, <4>1, SignalsInOrder
    <3> QED BY <3>2, <3>4
  <2>5. SentThrough' BY <1>3, <1>8, <2>1, SentThroughMeans
  <2>6. \A i \in Unshown' :
           Underway(i, Len(toClient))' => i <= highSeen' \/ AwaitsAck(i)'
    <3>1. SUFFICES ASSUME NEW i \in Unshown, Underway(i, Len(toClient))
                   PROVE  i <= highSeen' \/ AwaitsAck(i)'
      BY <1>4, <1>8
    <3>2. i \in Nat BY <1>1, RowsAreNumbers DEF Unshown
    <3> QED BY <1>3, <1>5, <2>1, <3>1, <3>2 DEF AwaitsAck
  <2> QED BY <1>3, <2>2, <2>3, <2>4, <2>5, <2>6 DEF SessionIsSafe
<1>10. SessionIsSafe' BY <1>3, <1>9 DEF SessionIsSafe
<1> QED BY <1>6, <1>7, <1>10 DEF AgentGoals

\* A row the Agent hears of and sends on.
LEMMA BroadcastIsSafe ==
    ASSUME Assumptions, DInv, AgentSends, Moves, HearRecorded,
           IsBroadcast(Head(toHub).id)
    PROVE  AgentGoals
<1>1. TypeOK /\ IInv /\ SessionOK BY DeliveryTypeParts DEF DInv, Base
<1>2. PICK h \in Nat \ {0} : h = Head(toHub).id /\ h <= Len(log)
  BY <1>1, SignalsInOrder
<1>3. /\ UNCHANGED <<log, pruned, epoch, shown, gui, inbox, reading>>
      /\ highSeen' = Max({highSeen, h}) /\ reading = "no"
      /\ session' = [session EXCEPT !.through = h]
      /\ toClient' = Append(toClient, EventFrame(h))
      /\ session.state = "on" /\ ~session.replaying /\ session.through < h
  BY <1>1, <1>2 DEF HearRecorded, HubRuns, IsBroadcast, stored, client, SessionOK
<1>4. Rows' = Rows /\ Unshown' = Unshown /\ \A j : Safe(j)' <=> Safe(j)
  BY <1>3, SameTable
<1>5. /\ highSeen <= highSeen' /\ h <= highSeen'
      /\ highSeen \in Nat /\ highSeen' \in Nat
  <2>1. highSeen \in Nat BY <1>1 DEF SessionOK
  <2>2. highSeen' = IF highSeen <= h THEN h ELSE highSeen
    BY <1>3, <2>1, MaxOfTwo
  <2> QED BY <2>1, <2>2
<1>6. /\ session'.through = h /\ session'.ack = session.ack
      /\ session'.state = "on" /\ session'.replaying = FALSE
  BY <1>1, <1>3 DEF SessionOK
<1>7. /\ Len(toClient') = Len(toClient) + 1 /\ Len(toClient) \in Nat
      /\ \A k \in 1 .. Len(toClient) : toClient'[k] = toClient[k]
      /\ toClient'[Len(toClient) + 1] = EventFrame(h)
  BY <1>1, <1>3, SentElements
<1>8. /\ Safe(session.ack) /\ session.through \in 0 .. Len(log)
      /\ Broadcasts /\ SentThrough
      /\ \A i \in Unshown :
            Underway(i, Len(toClient)) => i <= highSeen \/ AwaitsAck(i)
  BY <1>3 DEF DInv, Base, SessionIsSafe
<1>9. EventFrame(h).kind = "event" /\ EventFrame(h).id = h BY DEF EventFrame
<1>10. \A i : Underway(i, Len(toClient))' <=> Underway(i, Len(toClient)) \/ i = h
  <2>1. ASSUME NEW i PROVE Waiting(i)' <=> Waiting(i)
    BY <1>3 DEF Waiting, InGui, InInbox
  <2>2. ASSUME NEW i, InSent(i, Len(toClient))' PROVE InSent(i, Len(toClient)) \/ i = h
    <3>1. PICK l \in 1 .. Len(toClient') :
             toClient'[l].kind = "event" /\ toClient'[l].id = i
      BY <2>2 DEF InSent
    <3>2. l \in 1 .. Len(toClient) \/ l = Len(toClient) + 1 BY <1>7
    <3> QED BY <1>7, <1>9, <3>1, <3>2 DEF InSent
  <2>3. ASSUME NEW i, InSent(i, Len(toClient)) \/ i = h PROVE InSent(i, Len(toClient))'
    <3>1. \A l \in 1 .. Len(toClient) : l \in 1 .. Len(toClient') BY <1>7
    <3>2. Len(toClient) + 1 \in 1 .. Len(toClient') BY <1>7
    <3> QED BY <1>7, <1>9, <2>3, <3>1, <3>2 DEF InSent
  <2> QED BY <2>1, <2>2, <2>3 DEF Underway
<1>11. ASSUME NEW i \in Unshown, i <= h PROVE Underway(i, Len(toClient))'
  <2>1. i \in Nat /\ i \in Rows BY <1>1, RowsAreNumbers DEF Unshown
  <2>2. CASE i <= session.through
    BY <1>3, <1>8, <1>10, <2>2 DEF Broadcasts
  <2>3. CASE ~(i <= session.through)
    <3>1. Announced(i) BY <1>3, <1>8, <2>1, <2>3 DEF Broadcasts
    <3>2. h <= i BY <1>1, <1>2, <2>1, <3>1, SignalsInOrder
    <3> QED BY <1>10, <1>11, <2>1, <3>2
  <2> QED BY <2>2, <2>3
<1>12. SentIsCovered'
  <2>1. ASSUME NEW k \in Len(toClient) + 1 .. Len(toClient')
        PROVE  /\ toClient'[k].id \in 0 .. Len(log')
               /\ \A i \in Unshown' : i <= toClient'[k].id => Underway(i, k)'
    <3>1. k = Len(toClient') /\ toClient'[k].id = h BY <1>7, <1>9
    <3>2. \A i \in Unshown' : i <= h => Underway(i, k)'
      BY <1>4, <1>11, <3>1 DEF Underway, Waiting, InGui, InInbox, InSent
    <3> QED BY <1>2, <1>3, <3>1, <3>2
  <2> QED BY <2>1, SentIsCoveredStill
<1>13. HellosAreSound'
  <2>1. \A k \in Len(toClient) + 1 .. Len(toClient') : toClient'[k].kind = "event"
    BY <1>7, <1>9
  <2> QED BY <1>3, <2>1, HellosAreSoundStill DEF AwaitsAck
<1>14. SessionIsSafe'
  <2>1. Safe(session.ack)' BY <1>4, <1>6, <1>8 DEF Safe
  <2>2. session'.through \in 0 .. Len(log') BY <1>2, <1>3, <1>6
  <2>3. Broadcasts'
    <3>1. \A i \in Unshown' : i <= h => Underway(i, Len(toClient))' BY <1>4, <1>11
    <3>2. ASSUME NEW i \in Rows, i > h PROVE Announced(i)'
      <4>1. i \in Nat BY <1>1, RowsAreNumbers
      <4>2. i > session.through BY <1>3, <1>8, <3>2, <4>1
      <4>3. Announced(i) BY <1>3, <1>8, <4>2 DEF Broadcasts
      <4> QED BY <1>1, <1>2, <3>2, <4>1, <4>3, SignalsInOrder
    <3> QED BY <1>4, <1>6, <3>1, <3>2 DEF Broadcasts
  <2>4. SentThrough'
    <3>1. ASSUME NEW i, Underway(i, Len(toClient))' PROVE i <= h
      <4>1. CASE i = h BY <4>1
      <4>2. CASE Underway(i, Len(toClient))
        <5>1. i \in Nat
          BY <1>1, <4>2, QueueElements DEF Underway, Waiting, InGui, InInbox, InSent
        <5>2. i <= session.through BY <1>8, <4>2, SentThroughMeans
        <5> QED BY <1>3, <1>8, <5>1, <5>2
      <4> QED BY <1>10, <3>1, <4>1, <4>2
    <3> QED BY <1>6, <3>1, SentThroughMeans
  <2>5. ASSUME NEW i \in Unshown', Underway(i, Len(toClient))' PROVE i <= highSeen'
    <3>1. i \in Unshown /\ i \in Nat BY <1>1, <1>4, <2>5, RowsAreNumbers DEF Unshown
    <3>2. CASE i = h BY <1>5, <3>2
    <3>3. CASE Underway(i, Len(toClient))
      <4>1. i <= highSeen BY <1>3, <1>8, <3>1, <3>3 DEF AwaitsAck
      <4> QED BY <1>5, <3>1, <4>1
    <3> QED BY <1>10, <2>5, <3>2, <3>3
  <2> QED BY <1>3, <2>1, <2>2, <2>3, <2>4, <2>5 DEF SessionIsSafe
<1> QED BY <1>12, <1>13, <1>14 DEF AgentGoals

\* An acknowledgement of the client.
LEMMA TakeAckIsSafe ==
    ASSUME Assumptions, DInv, AgentSends, Moves, TakeAck
    PROVE  AgentGoals
<1>1. TypeOK /\ IInv /\ SessionOK /\ session.state = "on" /\ reading = "no"
  BY DeliveryTypeParts DEF DInv, Base, TakeAck, HubRuns
<1>2. UNCHANGED <<log, pruned, epoch, shown, gui, inbox, toClient, highSeen, toHub>>
  BY DEF TakeAck, spoolVars, stored, writer, client
<1>3. Rows' = Rows /\ Unshown' = Unshown /\ \A j : Safe(j)' <=> Safe(j)
  BY <1>2, SameTable
<1>4. /\ Safe(session.ack) /\ session.through \in 0 .. Len(log)
      /\ Broadcasts /\ SentThrough
      /\ \A i \in Unshown :
            Underway(i, Len(toClient)) => i <= highSeen \/ AwaitsAck(i)
  BY <1>1 DEF DInv, Base, SessionIsSafe
<1>5. \A i : Underway(i, Len(toClient))' <=> Underway(i, Len(toClient))
  BY <1>2 DEF Underway, Waiting, InGui, InInbox, InSent
<1>6. PICK ack : /\ Safe(ack) /\ session'.ack = ack
                 /\ session'.through = session.through
                 /\ session'.replaying = session.replaying
                 /\ session'.state = "on"
                 /\ \/ reading' = "no"
                    \/ reading' = "bounds" /\ ack >= session.through
  <2>1. /\ toAgent # <<>> /\ Head(toAgent) = toAgent[1] /\ 1 \in 1 .. Len(toAgent)
        /\ Head(toAgent).id \in Nat
    BY <1>1, QueueHeads, QueueElements DEF TakeAck
  <2>2. CASE Head(toAgent).epoch # epoch \/ Head(toAgent).id > session.through
    BY <1>1, <1>4, <2>2 DEF TakeAck
  <2>3. CASE Head(toAgent).epoch = epoch /\ ~(Head(toAgent).id > session.through)
    <3>1. Safe(Head(toAgent).id) BY <2>1, <2>3 DEF DInv, Base, FramesAreSafe
    <3>2. Safe(Max({session.ack, Head(toAgent).id}))
      BY <1>1, <1>4, <2>1, <3>1, MaxOfTwo DEF SessionOK
    <3>3. /\ session' = [session EXCEPT !.ack = Max({session.ack, Head(toAgent).id})]
          /\ reading' = IF NextPageDue(Max({session.ack, Head(toAgent).id}))
                        THEN "bounds" ELSE "no"
      BY <2>3 DEF TakeAck
    <3> QED BY <1>1, <3>2, <3>3 DEF NextPageDue, SessionOK
  <2> QED BY <2>2, <2>3
<1>7. ASSUME reading' # "no" PROVE Safe(session.through)
  <2>1. ack >= session.through /\ ack \in 0 .. Len(log) /\ Len(log) \in Nat
    BY <1>1, <1>6, <1>7, RowsAreNumbers DEF Safe
  <2>2. \A i \in Unshown : i \in Nat /\ ack < i
    BY <1>1, <1>6, RowsAreNumbers DEF Safe, Unshown
  <2>3. \A i \in Unshown : session.through < i
    BY <1>4, <2>1, <2>2
  <2> QED BY <1>4, <2>3 DEF Safe
<1>8. \A i \in Unshown : AwaitsAck(i) => AwaitsAck(i)'
  <2>1. ASSUME NEW i \in Unshown, AwaitsAck(i) PROVE AwaitsAck(i)'
    <3>1. reading' = "no"
      <4>1. i <= session.through /\ i \in Nat
        BY <1>1, <2>1, RowsAreNumbers DEF AwaitsAck, Unshown
      <4> QED BY <1>4, <1>7, <4>1 DEF Safe
    <3> QED BY <1>6, <2>1, <3>1 DEF AwaitsAck
  <2> QED BY <2>1
<1>9. SentIsCovered' BY <1>2, SentIsCoveredStill
<1>10. HellosAreSound'
  <2>1. \A k \in Len(toClient) + 1 .. Len(toClient') : FALSE
    BY <1>2 DEF AgentSends
  <2> QED BY <1>1, <1>8, <2>1, HellosAreSoundStill
<1>11. SessionIsSafe'
  <2>1. Safe(session.ack)' BY <1>3, <1>6 DEF Safe
  <2>2. session'.through \in 0 .. Len(log') BY <1>2, <1>4, <1>6
  <2>3. reading' # "no" => Safe(session.through)' BY <1>3, <1>6, <1>7 DEF Safe
  <2>4. Broadcasts'
    <3>1. \A i : Announced(i)' <=> Announced(i) BY <1>2 DEF Announced, RecordedSignal
    <3> QED BY <1>1, <1>3, <1>4, <1>5, <1>6, <3>1 DEF Broadcasts
  <2>5. SentThrough' BY <1>4, <1>5, <1>6, SentThroughMeans
  <2>6. \A i \in Unshown' :
           Underway(i, Len(toClient))' => i <= highSeen' \/ AwaitsAck(i)'
    BY <1>2, <1>3, <1>4, <1>5, <1>8
  <2> QED BY <2>1, <2>2, <2>3, <2>4, <2>5, <2>6 DEF SessionIsSafe
<1> QED BY <1>9, <1>10, <1>11 DEF AgentGoals

\* Every step of the Agent.
LEMMA AgentIsSafe ==
    ASSUME Assumptions, DInv, [Next]_vars, ~ReplaceDatabase, AgentSide, ~misled'
    PROVE  AgentSends /\ Moves /\ AgentGoals
<1>1. TypeOK /\ IInv /\ Links BY DEF DInv, Base
<1>2. AgentSends BY <1>1, AgentSideSends
<1>3. Moves BY <1>1, StepMoves
<1>4. CASE Start
  <2>1. session'.state = "off" /\ UNCHANGED toClient
    BY <1>1, <1>4 DEF Start, StartWriter, Links, wire
  <2> QED BY <1>2, <1>3, <2>1, EndedSession
<1>5. CASE Crash \/ AgentEnds
  <2>1. session'.state = "off" /\ UNCHANGED toClient
    BY <1>5 DEF Crash, AgentEnds, AgentDrops, GreetUnreadable, Cut, NoSession
  <2> QED BY <1>2, <1>3, <2>1, EndedSession
<1>6. CASE Write \/ (\E e \in Events : Emit(e)) \/ Overflow \/ HearStatus
           \/ UNCHANGED vars
  BY <1>2, <1>3, <1>6, IdleSteps
<1>7. CASE Greet BY <1>2, <1>3, <1>7, GreetIsSafe
<1>8. CASE ReadBounds BY <1>2, <1>3, <1>8, BoundsAreSafe
<1>9. CASE ReadPage BY <1>2, <1>3, <1>9, EmptyPageIsSafe, PageIsSafe
<1>10. CASE HearRecorded BY <1>2, <1>3, <1>10, HeardIsSafe, BroadcastIsSafe
<1>11. CASE TakeAck BY <1>2, <1>3, <1>11, TakeAckIsSafe
<1>12. CASE Misreads
  <2>1. PageUnreadable BY <1>12 DEF Misreads, BoundsUnreadable
  <2> QED BY <1>2, <1>3, <2>1, UnreadPageIsSafe
<1> QED
  BY <1>2, <1>3, <1>4, <1>5, <1>6, <1>7, <1>8, <1>9, <1>10, <1>11, <1>12
  DEF AgentSide, AgentStep, Misreads

-----------------------------------------------------------------------------
(* Steps of the client.                                                    *)

\* A hello whose bounds are too old for i makes the client drop i.
Outdated(i) ==
    /\ toClient # <<>> /\ toClient[1].kind = "hello"
    /\ Underway(i, 1) /\ ~(i <= toClient[1].high)

\* The client takes the first d messages, and what it drops of them or of what
\* waited was seen, or will be sent again after another hello.
ClientMoves(d) ==
    /\ UNCHANGED <<spoolVars, epoch, hub, linked>>
    /\ shown \subseteq shown'
    /\ Len(toClient) \in Nat /\ Len(toClient') \in Nat
    /\ Len(toClient) = Len(toClient') + d
    /\ \A k \in 1 .. Len(toClient') : toClient'[k] = toClient[k + d]
    /\ Streams' => Streams
    /\ \A k \in 0 .. Len(toClient') : \A i : Underway(i, k)' => Underway(i, k + d)
    /\ Streams => \A k \in 0 .. Len(toClient') : \A i \in Unshown' :
           Underway(i, k + d) =>
              \/ Underway(i, k)'
              \/ /\ Outdated(i) /\ OnlyHellosFrom(1)
                 /\ session.state = "on" => AwaitsAck(i)

\* Such a step leaves the socket and the session as the invariant has them.
LEMMA ClientMovesIsSafe ==
    ASSUME DInv, NEW d \in {0, 1}, ClientMoves(d)
    PROVE  AgentGoals
<1>1. UNCHANGED <<log, pruned, epoch, toHub, session, reading, highSeen>>
  BY DEF ClientMoves, spoolVars, stored, writer, hub
<1>2. Rows' = Rows BY <1>1 DEF Rows
<1>3. \A i \in Unshown' : i \in Unshown
  BY <1>1, <1>2 DEF ClientMoves, Unshown, Shown
<1>4. \A j : Safe(j) => Safe(j)' BY <1>1, <1>3 DEF Safe
<1>5. /\ Len(toClient) \in Nat /\ Len(toClient') \in Nat
      /\ Len(toClient) = Len(toClient') + d
      /\ \A k \in 1 .. Len(toClient') :
            toClient'[k] = toClient[k + d] /\ k + d \in 1 .. Len(toClient)
  BY DEF ClientMoves
<1>6. \A l \in 1 .. Len(toClient') :
         OnlyHellosFrom(1) => toClient'[l].kind = "hello"
  BY <1>5 DEF OnlyHellosFrom
<1>7. SentIsCovered'
  <2>1. SUFFICES ASSUME Streams', NEW k \in 1 .. Len(toClient'),
                        toClient'[k].kind = "event"
                 PROVE  /\ toClient'[k].id \in 0 .. Len(log')
                        /\ \A i \in Unshown' : i <= toClient'[k].id => Underway(i, k)'
    BY DEF SentIsCovered
  <2>2. Streams /\ toClient'[k] = toClient[k + d] /\ k + d \in 1 .. Len(toClient)
    BY <1>5, <2>1 DEF ClientMoves
  <2>3. /\ toClient[k + d].id \in 0 .. Len(log)
        /\ \A i \in Unshown : i <= toClient[k + d].id => Underway(i, k + d)
    BY <2>1, <2>2 DEF DInv, Base, SentIsCovered
  <2>4. ~OnlyHellosFrom(1)
    <3>1. toClient'[k].kind # "hello" BY <2>1
    <3> QED BY <1>6, <3>1
  <2>5. \A i \in Unshown' : Underway(i, k + d) => Underway(i, k)'
    BY <2>1, <2>2, <2>4 DEF ClientMoves
  <2> QED BY <1>1, <1>3, <2>2, <2>3, <2>5
<1>8. \A i : session'.state = "on" => (AwaitsAck(i)' <=> AwaitsAck(i))
  BY <1>1 DEF AwaitsAck
<1>9. HellosAreSound'
  <2>1. SUFFICES ASSUME Streams', NEW k \in 1 .. Len(toClient'),
                        toClient'[k].kind = "hello"
                 PROVE  /\ toClient'[k].floor \in 0 .. Len(log')
                        /\ toClient'[k].floor > 0 =>
                              \A i \in Rows' : toClient'[k].floor <= i
                        /\ \A i \in Unshown' : Underway(i, k)' =>
                              \/ i <= toClient'[k].high
                              \/ /\ OnlyHellosFrom(k)'
                                 /\ session'.state = "on" => AwaitsAck(i)'
    BY DEF HellosAreSound
  <2>2. Streams /\ toClient'[k] = toClient[k + d] /\ k + d \in 1 .. Len(toClient)
    BY <1>5, <2>1 DEF ClientMoves
  <2>3. /\ toClient[k + d].floor \in 0 .. Len(log)
        /\ toClient[k + d].floor > 0 => \A i \in Rows : toClient[k + d].floor <= i
        /\ \A i \in Unshown : Underway(i, k + d) =>
              \/ i <= toClient[k + d].high
              \/ OnlyHellosFrom(k + d) /\ (session.state = "on" => AwaitsAck(i))
    BY <2>1, <2>2 DEF DInv, Base, HellosAreSound
  <2>4. ASSUME NEW i \in Unshown', Underway(i, k)'
        PROVE  \/ i <= toClient'[k].high
               \/ OnlyHellosFrom(k)' /\ (session'.state = "on" => AwaitsAck(i)')
    <3>1. i \in Unshown /\ Underway(i, k + d) BY <1>3, <2>4 DEF ClientMoves
    <3>2. OnlyHellosFrom(k + d) => OnlyHellosFrom(k)'
      <4>1. ASSUME NEW l \in k .. Len(toClient')
            PROVE  l + d \in k + d .. Len(toClient) /\ toClient'[l] = toClient[l + d]
        BY <1>5
      <4> QED BY <4>1 DEF OnlyHellosFrom
    <3> QED BY <1>1, <1>8, <2>2, <2>3, <3>1, <3>2
  <2> QED BY <1>1, <1>2, <2>2, <2>3, <2>4
<1>10. ASSUME session.state = "on" PROVE SessionIsSafe'
  <2>1. /\ Safe(session.ack) /\ session.through \in 0 .. Len(log)
        /\ reading # "no" => Safe(session.through)
        /\ Broadcasts /\ SentThrough
        /\ \A i \in Unshown :
              Underway(i, Len(toClient)) => i <= highSeen \/ AwaitsAck(i)
        /\ Streams
    BY <1>10 DEF DInv, Base, SessionIsSafe, Links
  <2>2. \A i : Underway(i, Len(toClient))' => Underway(i, Len(toClient))
    <3>2. SUFFICES ASSUME NEW i, Underway(i, Len(toClient))'
                   PROVE  Underway(i, Len(toClient))
      OBVIOUS
    <3>3. PICK k \in Nat : k = Len(toClient') BY <1>5
    <3>4. Underway(i, k)'
      BY <3>2, <3>3 DEF Underway, Waiting, InGui, InInbox, InSent
    <3>5. k \in 0 .. Len(toClient') BY <3>3
    <3> QED BY <1>5, <3>3, <3>4, <3>5 DEF ClientMoves
  <2>3. \A i \in Unshown' : Underway(i, Len(toClient)) =>
           Underway(i, Len(toClient))' \/ AwaitsAck(i)
    <3>1. SUFFICES ASSUME NEW i \in Unshown', Underway(i, Len(toClient))
                   PROVE  Underway(i, Len(toClient))' \/ AwaitsAck(i)
      OBVIOUS
    <3>2. PICK k \in Nat : k = Len(toClient') BY <1>5
    <3>3. k \in 0 .. Len(toClient') /\ Underway(i, k + d) BY <1>5, <3>1, <3>2
    <3>4. Underway(i, k)' \/ AwaitsAck(i) BY <1>10, <2>1, <3>3 DEF ClientMoves
    <3>5. Underway(i, k)' => Underway(i, Len(toClient))'
      BY <3>2 DEF Underway, Waiting, InGui, InInbox, InSent
    <3> QED BY <3>4, <3>5
  <2>4. Safe(session.ack)' BY <1>1, <1>4, <2>1 DEF Safe
  <2>5. session'.through \in 0 .. Len(log') BY <1>1, <2>1
  <2>6. reading' # "no" => Safe(session.through)' BY <1>1, <1>4, <2>1 DEF Safe
  <2>7. Broadcasts'
    <3>1. SUFFICES ASSUME reading = "no", ~session.replaying
                   PROVE  /\ \A i \in Unshown' :
                                i <= session.through => Underway(i, Len(toClient))'
                          /\ \A i \in Rows : i > session.through => Announced(i)'
      BY <1>1, <1>2 DEF Broadcasts
    <3>2. /\ \A i \in Unshown : i <= session.through => Underway(i, Len(toClient))
          /\ \A i \in Rows : i > session.through => Announced(i)
      BY <2>1, <3>1 DEF Broadcasts
    <3>3. \A i : Announced(i)' <=> Announced(i) BY <1>1 DEF Announced, RecordedSignal
    <3> QED BY <1>3, <2>3, <3>1, <3>2, <3>3 DEF AwaitsAck
  <2>8. SentThrough' BY <1>1, <2>1, <2>2, SentThroughMeans
  <2>9. \A i \in Unshown' :
           Underway(i, Len(toClient))' => i <= highSeen' \/ AwaitsAck(i)'
    BY <1>1, <1>3, <2>1, <2>2 DEF AwaitsAck
  <2> QED BY <2>4, <2>5, <2>6, <2>7, <2>8, <2>9 DEF SessionIsSafe
<1>11. SessionIsSafe' BY <1>1, <1>10 DEF SessionIsSafe
<1> QED BY <1>7, <1>9, <1>11 DEF AgentGoals

\* What is under way after a step that leaves the socket alone.
LEMMA SocketAlone ==
    ASSUME DInv, UNCHANGED <<spoolVars, epoch, hub, linked, toClient, helloDone,
                             cursorEpoch>>,
           shown \subseteq shown',
           \A i : Waiting(i)' => Waiting(i),
           Streams => \A i \in Unshown' : Waiting(i) => Waiting(i)'
    PROVE  ClientMoves(0)
<1>1. Len(toClient) \in Nat /\ Len(toClient') = Len(toClient)
  BY QueueElements DEF DInv, Base
<1>2. \A i, k : InSent(i, k)' <=> InSent(i, k) BY DEF InSent
<1>3. Streams' <=> Streams BY DEF Streams
<1>4. \A k \in 0 .. Len(toClient') : k + 0 = k BY <1>1
<1>5. \A k \in 1 .. Len(toClient') : toClient'[k] = toClient[k + 0]
  BY <1>1
<1>6. \A k \in 0 .. Len(toClient') : \A i : Underway(i, k)' => Underway(i, k + 0)
  BY <1>2, <1>4 DEF Underway
<1>7. Streams => \A k \in 0 .. Len(toClient') : \A i \in Unshown' :
         Underway(i, k + 0) => Underway(i, k)'
  BY <1>2, <1>4 DEF Underway
<1> QED BY <1>1, <1>3, <1>5, <1>6, <1>7 DEF ClientMoves

\* What is sent, after a message was taken.
LEMMA OneTaken ==
    ASSUME TypeOK, toClient # <<>>, toClient' = Tail(toClient)
    PROVE  /\ Len(toClient) \in Nat /\ Len(toClient') \in Nat
           /\ Len(toClient) = Len(toClient') + 1
           /\ \A k \in 1 .. Len(toClient') : toClient'[k] = toClient[k + 1]
           /\ \A k \in 0 .. Len(toClient') : \A i :
                 /\ InSent(i, k)' => InSent(i, k + 1)
                 /\ InSent(i, k + 1) =>
                      \/ InSent(i, k)'
                      \/ toClient[1].kind = "event" /\ toClient[1].id = i
           /\ Head(toClient) = toClient[1] /\ 1 \in 1 .. Len(toClient)
<1>1. /\ Head(toClient) = toClient[1] /\ 1 \in 1 .. Len(toClient)
      /\ Len(toClient') = Len(toClient) - 1 /\ Len(toClient) \in Nat
      /\ \A k \in 1 .. Len(toClient) - 1 : toClient'[k] = toClient[k + 1]
  BY QueueHeads, QueueElements
<1>2. Len(toClient') \in Nat /\ Len(toClient) = Len(toClient') + 1 BY <1>1
<1>3. \A k \in 1 .. Len(toClient') : toClient'[k] = toClient[k + 1] BY <1>1
<1>4. ASSUME NEW k \in 0 .. Len(toClient'), NEW i, InSent(i, k)'
      PROVE  InSent(i, k + 1)
  <2>1. PICK l \in 1 .. k : toClient'[l].kind = "event" /\ toClient'[l].id = i
    BY <1>4 DEF InSent
  <2>2. l + 1 \in 1 .. k + 1 /\ l \in 1 .. Len(toClient') BY <1>2
  <2> QED BY <1>3, <2>1, <2>2 DEF InSent
<1>5. ASSUME NEW k \in 0 .. Len(toClient'), NEW i, InSent(i, k + 1)
      PROVE  \/ InSent(i, k)'
             \/ toClient[1].kind = "event" /\ toClient[1].id = i
  <2>1. PICK l \in 1 .. k + 1 : toClient[l].kind = "event" /\ toClient[l].id = i
    BY <1>5 DEF InSent
  <2>2. CASE l = 1 BY <2>1, <2>2
  <2>3. CASE l # 1
    <3>1. l - 1 \in 1 .. k /\ l - 1 \in 1 .. Len(toClient') /\ (l - 1) + 1 = l
      BY <1>2, <2>3
    <3>2. toClient'[l - 1] = toClient[l] BY <1>3, <3>1
    <3> QED BY <2>1, <3>1, <3>2 DEF InSent
  <2> QED BY <2>2, <2>3
<1> QED BY <1>1, <1>2, <1>3, <1>4, <1>5

\* A session that has begun has the epoch of its hellos.
LEMMA OpenSession ==
    ASSUME DInv, linked, helloDone, cursorEpoch = epoch
    PROVE  Streams
BY DEF DInv, Base, OneEpoch, Streams

\* The first message of a session is a hello.
LEMMA EventsFollowHello ==
    ASSUME Base, linked, toClient # <<>>, Head(toClient).kind = "event"
    PROVE  helloDone
<1>1. Head(toClient) = toClient[1] BY QueueHeads DEF Base
<1> QED BY <1>1 DEF Base, Links, TypeOK

\* Fresh items belong to a session that has begun.
LEMMA FreshAfterHello ==
    ASSUME DInv, linked, NEW i, Waiting(i)
    PROVE  helloDone
<1>1. Len(gui) \in Nat /\ Len(inbox) \in Nat BY QueueElements DEF DInv, Base
<1> QED BY <1>1 DEF DInv, Base, Links, Waiting, InGui, InInbox, TypeOK

\* An event that is taken waits in the client, or was seen.
LEMMA TakesEventMoves ==
    ASSUME DInv, ClientTakesEvent
    PROVE  ClientMoves(1)
<1>1. /\ TypeOK /\ linked /\ toClient # <<>> /\ toClient' = Tail(toClient)
      /\ Head(toClient).kind = "event"
      /\ UNCHANGED <<spoolVars, epoch, hub, linked, helloDone, durable, gui, shown>>
  BY DEF DInv, Base, ClientTakesEvent
<1>2. /\ Len(toClient) \in Nat /\ Len(toClient') \in Nat
      /\ Len(toClient) = Len(toClient') + 1
      /\ \A k \in 1 .. Len(toClient') : toClient'[k] = toClient[k + 1]
      /\ \A k \in 0 .. Len(toClient') : \A i :
            /\ InSent(i, k)' => InSent(i, k + 1)
            /\ InSent(i, k + 1) =>
                 \/ InSent(i, k)'
                 \/ toClient[1].kind = "event" /\ toClient[1].id = i
      /\ Head(toClient) = toClient[1] /\ 1 \in 1 .. Len(toClient)
  BY <1>1, OneTaken
<1>3. PICK h : h = toClient[1].id /\ h \in Nat \ {0}
  BY <1>1, <1>2, QueueElements
<1>4. helloDone BY <1>1, EventsFollowHello DEF DInv
<1>5. Streams' => Streams
  <2>1. Streams' => cursorEpoch = epoch BY <1>1, <1>4 DEF Streams, durable
  <2> QED BY <1>1, <1>4, <2>1, OpenSession
<1>6. \/ /\ h <= cursor \/ h \in pending
         /\ UNCHANGED inbox
      \/ inbox' = Append(inbox, [id |-> h, epoch |-> cursorEpoch, fresh |-> TRUE])
  BY <1>2, <1>3 DEF ClientTakesEvent
<1>7. \A i : /\ Waiting(i) => Waiting(i)'
             /\ Waiting(i)' => Waiting(i) \/ i = h
             /\ ~(UNCHANGED inbox) => Waiting(h)'
  <2>1. CASE UNCHANGED inbox BY <1>1, <2>1 DEF Waiting, InGui, InInbox
  <2>2. CASE inbox' = Append(inbox, [id |-> h, epoch |-> cursorEpoch, fresh |-> TRUE])
    <3> DEFINE x == [id |-> h, epoch |-> cursorEpoch, fresh |-> TRUE]
    <3>1. inbox \in Seq(Items \union {x}) /\ x.id = h BY <1>1 DEF TypeOK
    <3> HIDE DEF x
    <3>2. /\ Len(inbox') = Len(inbox) + 1 /\ Len(inbox) \in Nat
          /\ \A k \in 1 .. Len(inbox) : inbox'[k] = inbox[k]
          /\ inbox'[Len(inbox) + 1] = x
      BY <2>2, <3>1, AppendElements DEF x
    <3>3. \A i : InGui(i, Len(gui))' <=> InGui(i, Len(gui)) BY <1>1 DEF InGui
    <3>4. \A l \in 1 .. Len(inbox') : l \in 1 .. Len(inbox) \/ l = Len(inbox) + 1
      BY <3>2
    <3>5. /\ \A l \in 1 .. Len(inbox) : l \in 1 .. Len(inbox')
          /\ Len(inbox) + 1 \in 1 .. Len(inbox')
      BY <3>2
    <3>6. \A i : InInbox(i, Len(inbox))' <=> InInbox(i, Len(inbox)) \/ i = h
      BY <3>1, <3>2, <3>4, <3>5 DEF InInbox
    <3> QED BY <3>3, <3>6 DEF Waiting
  <2> QED BY <1>6, <2>1, <2>2
<1>8. \A k \in 0 .. Len(toClient') : \A i : Underway(i, k)' => Underway(i, k + 1)
  <2>1. SUFFICES ASSUME NEW k \in 0 .. Len(toClient'), NEW i, Underway(i, k)'
                 PROVE  Underway(i, k + 1)
    OBVIOUS
  <2>2. InSent(h, k + 1)
    <3>1. 1 \in 1 .. k + 1 BY <1>2
    <3> QED BY <1>1, <1>2, <1>3, <3>1 DEF InSent
  <2> QED BY <1>2, <1>7, <2>1, <2>2 DEF Underway
<1>9. ASSUME Streams, NEW k \in 0 .. Len(toClient'), NEW i \in Unshown',
             Underway(i, k + 1)
      PROVE  Underway(i, k)'
  <2>1. CASE i = h
    <3>1. cursorEpoch = epoch BY <1>4, <1>9 DEF Streams
    <3>2. i \in Unshown
      <4>1. Unshown' = Unshown BY <1>1, SameTable DEF spoolVars, stored
      <4> QED BY <1>9, <4>1
    <3>3. cursor \in Nat /\ cursor < i BY <1>1, <3>1, <3>2
          DEF DInv, Base, CursorIsSafe, Safe, TypeOK
    <3>4. i \in pending => Waiting(i) BY <3>1, <3>2 DEF DInv, Base, PendingIsCovered
    <3> QED BY <1>3, <1>6, <1>7, <2>1, <3>3, <3>4 DEF Underway
  <2>2. CASE i # h BY <1>2, <1>3, <1>7, <1>9, <2>2 DEF Underway
  <2> QED BY <2>1, <2>2
<1> QED BY <1>1, <1>2, <1>5, <1>8, <1>9 DEF ClientMoves

\* What waits in the client waits in the GUI.
LEMMA FlushMoves ==
    ASSUME DInv, Flush
    PROVE  /\ ClientMoves(0)
           /\ Len(gui') = Len(gui) + Len(inbox) /\ Len(gui) \in Nat /\ Len(inbox) \in Nat
           /\ \A k \in 1 .. Len(gui) : gui'[k] = gui[k]
           /\ \A k \in 1 .. Len(inbox) : gui'[Len(gui) + k] = inbox[k]
<1>1. TypeOK /\ gui' = gui \o inbox /\ inbox' = <<>>
      /\ UNCHANGED <<spoolVars, epoch, hub, wire, linked, helloDone, durable, shown>>
  BY DEF DInv, Base, Flush
<1>2. gui \in Seq(Items) /\ inbox \in Seq(Items) BY <1>1 DEF TypeOK
<1>3. /\ Len(gui') = Len(gui) + Len(inbox) /\ Len(gui) \in Nat /\ Len(inbox) \in Nat
      /\ \A k \in 1 .. Len(gui) : gui'[k] = gui[k]
      /\ \A k \in 1 .. Len(inbox) : gui'[Len(gui) + k] = inbox[k]
  BY <1>1, <1>2
<1>4. \A k \in 1 .. Len(inbox) : inbox[k].fresh BY DEF DInv, Base, ItemsOfStream
<1>5. ASSUME NEW i PROVE Waiting(i)' <=> Waiting(i)
  <2>1. ~InInbox(i, Len(inbox))' BY <1>1 DEF InInbox
  <2>2. InGui(i, Len(gui))' => InGui(i, Len(gui)) \/ InInbox(i, Len(inbox))
    <3>1. SUFFICES ASSUME NEW l \in 1 .. Len(gui'), gui'[l].fresh, gui'[l].id = i
                   PROVE  InGui(i, Len(gui)) \/ InInbox(i, Len(inbox))
      BY DEF InGui
    <3>2. CASE l \in 1 .. Len(gui) BY <1>3, <3>1, <3>2 DEF InGui
    <3>3. CASE l \notin 1 .. Len(gui)
      <4>1. l - Len(gui) \in 1 .. Len(inbox) /\ Len(gui) + (l - Len(gui)) = l
        BY <1>3, <3>3
      <4>2. gui'[l] = inbox[l - Len(gui)] BY <1>3, <4>1
      <4> QED BY <3>1, <4>1, <4>2 DEF InInbox
    <3> QED BY <3>2, <3>3
  <2>3. InGui(i, Len(gui)) => InGui(i, Len(gui))'
    <3>1. \A l \in 1 .. Len(gui) : l \in 1 .. Len(gui') BY <1>3
    <3> QED BY <1>3, <3>1 DEF InGui
  <2>4. InInbox(i, Len(inbox)) => InGui(i, Len(gui))'
    <3>1. SUFFICES ASSUME NEW l \in 1 .. Len(inbox), inbox[l].id = i
                   PROVE  InGui(i, Len(gui))'
      BY DEF InInbox
    <3>2. Len(gui) + l \in 1 .. Len(gui') BY <1>3
    <3> QED BY <1>3, <1>4, <3>1, <3>2 DEF InGui
  <2> QED BY <2>1, <2>2, <2>3, <2>4 DEF Waiting
<1>6. ClientMoves(0) BY <1>1, <1>5, SocketAlone DEF wire, durable
<1> QED BY <1>3, <1>6

\* An item of this session that is rendered has been seen.
LEMMA RenderMoves ==
    ASSUME DInv, Render
    PROVE  /\ ClientMoves(0)
           /\ gui # <<>> /\ Head(gui) = gui[1] /\ 1 \in 1 .. Len(gui)
           /\ Len(gui') = Len(gui) - 1 /\ Len(gui) \in Nat
           /\ \A k \in 1 .. Len(gui') : gui'[k] = gui[k + 1]
           /\ gui[1].fresh /\ cursorEpoch = epoch => gui[1].id \notin Unshown'
           /\ \A i \in Unshown' : i \in Unshown
<1>1. TypeOK /\ gui # <<>> /\ gui' = Tail(gui)
      /\ shown' = shown \union {<<Head(gui).epoch, Head(gui).id>>}
      /\ UNCHANGED <<spoolVars, epoch, hub, wire, linked, helloDone, durable, inbox>>
  BY DEF DInv, Base, Render
<1>2. /\ Head(gui) = gui[1] /\ 1 \in 1 .. Len(gui)
      /\ Len(gui') = Len(gui) - 1 /\ Len(gui) \in Nat
      /\ \A k \in 1 .. Len(gui') : gui'[k] = gui[k + 1]
  BY <1>1, QueueHeads, QueueElements
<1>3. ASSUME gui[1].fresh, cursorEpoch = epoch PROVE gui[1].id \notin Unshown'
  <2>1. gui[1].epoch = epoch BY <1>2, <1>3 DEF DInv, Base, ItemsOfStream
  <2>2. <<epoch', gui[1].id>> \in shown' BY <1>1, <1>2, <2>1
  <2> QED BY <2>2 DEF Unshown, Shown
<1>4. Rows' = Rows BY <1>1 DEF Rows, spoolVars, stored
<1>5. \A i \in Unshown' : i \in Unshown BY <1>1, <1>4 DEF Unshown, Shown
<1>6. \A i : Waiting(i)' => Waiting(i)
  <2>1. SUFFICES ASSUME NEW i, InGui(i, Len(gui))' PROVE InGui(i, Len(gui))
    BY <1>1 DEF Waiting, InInbox
  <2>2. PICK l \in 1 .. Len(gui') : gui'[l].fresh /\ gui'[l].id = i
    BY <2>1 DEF InGui
  <2>3. l + 1 \in 1 .. Len(gui) BY <1>2
  <2> QED BY <1>2, <2>2, <2>3 DEF InGui
<1>7. ASSUME Streams, NEW i \in Unshown', Waiting(i) PROVE Waiting(i)'
  <2>1. CASE InInbox(i, Len(inbox)) BY <1>1, <2>1 DEF Waiting, InInbox
  <2>2. CASE InGui(i, Len(gui))
    <3>1. PICK l \in 1 .. Len(gui) : gui[l].fresh /\ gui[l].id = i
      BY <2>2 DEF InGui
    <3>2. cursorEpoch = epoch
      <4>1. helloDone BY <1>7, FreshAfterHello DEF Streams
      <4> QED BY <1>7, <4>1 DEF Streams
    <3>3. l # 1 BY <1>3, <1>7, <3>1, <3>2
    <3>4. l - 1 \in 1 .. Len(gui') /\ (l - 1) + 1 = l BY <1>2, <3>3
    <3>5. gui'[l - 1] = gui[l] BY <1>2, <3>4
    <3> QED BY <3>1, <3>4, <3>5 DEF Waiting, InGui
  <2> QED BY <1>7, <2>1, <2>2 DEF Waiting
<1>8. ClientMoves(0) BY <1>1, <1>6, <1>7, SocketAlone DEF wire, durable
<1> QED BY <1>1, <1>2, <1>3, <1>5, <1>8

\* An acknowledgement takes nothing from under way.
LEMMA AcknowledgeMoves ==
    ASSUME DInv, Acknowledge
    PROVE  ClientMoves(0)
<1>1. UNCHANGED <<spoolVars, epoch, hub, linked, toClient, helloDone, cursorEpoch,
                  shown, inbox, gui>>
  BY DEF Acknowledge
<1>2. \A i : Waiting(i)' <=> Waiting(i) BY <1>1 DEF Waiting, InGui, InInbox
<1> QED BY <1>1, <1>2, SocketAlone

\* A hello that makes the client give up its cursor drops only what is sent again.
LEMMA TakesHelloMoves ==
    ASSUME DInv, ClientTakesHello
    PROVE  ClientMoves(1)
<1>1. /\ TypeOK /\ linked /\ toClient # <<>> /\ toClient' = Tail(toClient)
      /\ Head(toClient).kind = "hello" /\ helloDone' = TRUE
      /\ cursorEpoch' = Head(toClient).epoch
      /\ UNCHANGED <<spoolVars, epoch, hub, linked, shown>>
  BY DEF DInv, Base, ClientTakesHello
<1>2. /\ Len(toClient) \in Nat /\ Len(toClient') \in Nat
      /\ Len(toClient) = Len(toClient') + 1
      /\ \A k \in 1 .. Len(toClient') : toClient'[k] = toClient[k + 1]
      /\ \A k \in 0 .. Len(toClient') : \A i :
            /\ InSent(i, k)' => InSent(i, k + 1)
            /\ InSent(i, k + 1) =>
                 \/ InSent(i, k)'
                 \/ toClient[1].kind = "event" /\ toClient[1].id = i
      /\ Head(toClient) = toClient[1] /\ 1 \in 1 .. Len(toClient)
  BY <1>1, OneTaken
<1>3. Streams' => Streams
  <2>1. SUFFICES ASSUME Streams' PROVE Streams OBVIOUS
  <2>2. toClient[1].epoch = epoch BY <1>1, <1>2, <2>1 DEF Streams
  <2>3. helloDone => cursorEpoch = epoch
    BY <1>1, <1>2, <2>2 DEF DInv, Base, OneEpoch
  <2>4. \A k \in 1 .. Len(toClient) :
           toClient[k].kind = "hello" => toClient[k].epoch = epoch
    BY <1>1, <1>2, <2>2 DEF DInv, Base, OneEpoch
  <2> QED BY <1>1, <2>3, <2>4 DEF Streams
<1>4. \A i : Waiting(i)' => Waiting(i)
  <2>1. CASE CursorInvalid(Head(toClient))
    <3>1. gui' = Stale(gui) /\ inbox' = <<>> BY <2>1 DEF ClientTakesHello
    <3>2. \A k \in 1 .. Len(gui') : gui'[k].fresh = FALSE
      BY <1>1, <3>1, StaleItems
    <3> QED BY <3>1, <3>2 DEF Waiting, InGui, InInbox
  <2>2. CASE ~CursorInvalid(Head(toClient))
    <3>1. UNCHANGED <<inbox, gui>> BY <2>2 DEF ClientTakesHello
    <3> QED BY <3>1 DEF Waiting, InGui, InInbox
  <2> QED BY <2>1, <2>2
<1>5. ASSUME Streams, NEW i \in Unshown', Waiting(i)
      PROVE  \/ Waiting(i)'
             \/ /\ Outdated(i) /\ OnlyHellosFrom(1)
                /\ session.state = "on" => AwaitsAck(i)
  <2>1. CASE CursorInvalid(Head(toClient))
    <3>1. helloDone /\ cursorEpoch = epoch
      <4>1. helloDone BY <1>1, <1>5, FreshAfterHello
      <4> QED BY <1>5, <4>1 DEF Streams
    <3>2. toClient[1].epoch = cursorEpoch
      BY <1>1, <1>2, <3>1 DEF DInv, Base, OneEpoch
    <3>3. cursor > toClient[1].high BY <1>2, <2>1, <3>2 DEF CursorInvalid
    <3>4. i \in Unshown
      <4>1. Unshown' = Unshown BY <1>1, SameTable DEF spoolVars, stored
      <4> QED BY <1>5, <4>1
    <3>5. cursor < i /\ i \in Nat /\ cursor \in Nat /\ toClient[1].high \in Nat
      <4>1. i \in Nat BY <3>4, RowsAreNumbers DEF DInv, Base, Unshown
      <4>2. toClient[1].high \in Nat BY <1>1, <1>2, QueueElements
      <4> QED BY <1>1, <3>1, <3>4, <4>1, <4>2 DEF DInv, Base, CursorIsSafe, Safe, TypeOK
    <3>6. ~(i <= toClient[1].high) BY <3>3, <3>5
    <3>7. Underway(i, 1) BY <1>5 DEF Underway
    <3>8. Outdated(i) BY <1>1, <1>2, <3>6, <3>7 DEF Outdated
    <3> QED BY <1>1, <1>2, <1>5, <3>4, <3>6, <3>7, <3>8 DEF DInv, Base, HellosAreSound
  <2>2. CASE ~CursorInvalid(Head(toClient))
    <3>1. UNCHANGED <<inbox, gui>> BY <2>2 DEF ClientTakesHello
    <3> QED BY <1>5, <3>1 DEF Waiting, InGui, InInbox
  <2> QED BY <2>1, <2>2
<1>6. \A k \in 0 .. Len(toClient') : \A i : Underway(i, k)' => Underway(i, k + 1)
  BY <1>2, <1>4 DEF Underway
<1>7. Streams => \A k \in 0 .. Len(toClient') : \A i \in Unshown' :
         Underway(i, k + 1) =>
            \/ Underway(i, k)'
            \/ /\ Outdated(i) /\ OnlyHellosFrom(1)
               /\ session.state = "on" => AwaitsAck(i)
  <2>1. SUFFICES ASSUME Streams, NEW k \in 0 .. Len(toClient'), NEW i \in Unshown',
                        Underway(i, k + 1)
                 PROVE  \/ Underway(i, k)'
                        \/ /\ Outdated(i) /\ OnlyHellosFrom(1)
                           /\ session.state = "on" => AwaitsAck(i)
    OBVIOUS
  <2>2. InSent(i, k + 1) => InSent(i, k)'
    BY <1>1, <1>2
  <2> QED BY <1>5, <2>1, <2>2 DEF Underway
<1> QED BY <1>1, <1>2, <1>3, <1>6, <1>7 DEF ClientMoves

\* Every step of the client.
LEMMA ClientIsSafe ==
    ASSUME DInv, ClientStep
    PROVE  AgentGoals
<1>1. ClientMoves(0) \/ ClientMoves(1)
  BY TakesEventMoves, FlushMoves, RenderMoves, AcknowledgeMoves, TakesHelloMoves
  DEF ClientStep
<1> QED BY <1>1, ClientMovesIsSafe

\* The client's side of the invariant, when nothing waits to be acknowledged.
LEMMA ItemsDropped ==
    ASSUME DInv, Moves, pending' = {}, inbox' = <<>>, acks' = <<>>,
           \A l \in 1 .. Len(gui') : ~gui'[l].fresh,
           cursorEpoch' = epoch => Safe(cursor)'
    PROVE  ClientGoals
<1>1. epoch' = epoch BY DEF Moves
<1>2. ItemsOfStream' BY DEF ItemsOfStream
<1>3. CursorIsSafe' BY <1>1 DEF CursorIsSafe
<1>4. GuiIsCovered' BY DEF GuiIsCovered
<1>5. InboxIsCovered' BY DEF InboxIsCovered
<1>6. PendingIsCovered' BY DEF PendingIsCovered
<1> QED BY <1>2, <1>3, <1>4, <1>5, <1>6 DEF ClientGoals

\* A cursor that stays is safe.
LEMMA CursorKept ==
    ASSUME DInv, Moves, UNCHANGED <<cursor, cursorEpoch>>, cursorEpoch = epoch
    PROVE  Safe(cursor)'
<1>1. Safe(cursor) /\ \A j : Safe(j) => Safe(j)'
  BY MovesKeep DEF DInv, Base, CursorIsSafe
<1> QED BY <1>1 DEF Safe

\* The Agent's steps, and those of the connection.
LEMMA OthersKeepItems ==
    ASSUME Assumptions, DInv, Moves, AgentSide \/ ConnectionStep
    PROVE  ClientGoals
<1>1. CASE UNCHANGED <<cursor, cursorEpoch, pending, inbox, gui, acks>>
  BY <1>1, CursorKept, ItemsKept
<1>2. CASE AgentSide
  <2>1. UNCHANGED client
    BY <1>2, AgentSideSends DEF DInv, Base, AgentSends
  <2> QED BY <1>1, <2>1 DEF client, durable
<1>3. CASE ClientDrops \/ ClientNotices
  BY <1>1, <1>3 DEF ClientDrops, ClientNotices, durable
<1>4. CASE AgentEnds
  BY <1>1, <1>4 DEF AgentEnds, AgentDrops, GreetUnreadable, client, durable
<1>5. CASE UIQuits
  <2>1. \A l \in 1 .. Len(gui') : ~gui'[l].fresh BY <1>5 DEF UIQuits
  <2>2. UNCHANGED <<cursor, cursorEpoch>> BY <1>5 DEF UIQuits, durable
  <2> QED BY <1>5, <2>1, <2>2, CursorKept, ItemsDropped DEF UIQuits
<1>6. CASE Connect
  <2>1. gui' = Stale(gui) /\ UNCHANGED <<cursor, cursorEpoch>>
    BY <1>6 DEF Connect, durable
  <2>2. \A l \in 1 .. Len(gui') : ~gui'[l].fresh BY <2>1, StaleItems DEF DInv, Base
  <2> QED BY <1>6, <2>1, <2>2, CursorKept, ItemsDropped DEF Connect
<1> QED BY <1>2, <1>3, <1>4, <1>5, <1>6 DEF ConnectionStep, AgentEnds

\* A hello.
LEMMA TakesHelloItems ==
    ASSUME DInv, Moves, ClientTakesHello
    PROVE  ClientGoals
<1>1. /\ TypeOK /\ IInv /\ linked /\ toClient # <<>> /\ Head(toClient).kind = "hello"
      /\ cursorEpoch' = Head(toClient).epoch
      /\ UNCHANGED <<log, pruned, epoch, shown>>
  BY DEF DInv, Base, ClientTakesHello, spoolVars, stored
<1>2. Head(toClient) = toClient[1] /\ 1 \in 1 .. Len(toClient)
  BY <1>1, QueueHeads
<1>3. \A j : Safe(j)' <=> Safe(j) BY <1>1, SameTable
<1>4. CASE CursorInvalid(Head(toClient))
  <2>1. /\ cursor' = 0 /\ pending' = {} /\ inbox' = <<>> /\ acks' = <<>>
        /\ gui' = Stale(gui)
    BY <1>4 DEF ClientTakesHello
  <2>2. \A l \in 1 .. Len(gui') : ~gui'[l].fresh BY <1>1, <2>1, StaleItems
  <2>3. Safe(0) BY <1>1, RowsAreNumbers DEF Safe, Unshown
  <2>4. Safe(cursor)' BY <1>3, <2>1, <2>3 DEF Safe
  <2> QED BY <2>1, <2>2, <2>4, ItemsDropped
<1>5. CASE ~CursorInvalid(Head(toClient))
  <2>1. /\ cursor' = NotBelow(toClient[1].floor, cursor)
        /\ UNCHANGED <<pending, inbox, gui, acks>>
        /\ toClient[1].epoch = cursorEpoch /\ cursorEpoch' = cursorEpoch
    BY <1>1, <1>2, <1>5 DEF ClientTakesHello, CursorInvalid
  <2>2. ASSUME cursorEpoch = epoch PROVE Safe(cursor)'
    <3>1. Streams BY <1>1, <1>2, <2>1, <2>2 DEF DInv, Base, OneEpoch, Streams
    <3>2. /\ toClient[1].floor \in 0 .. Len(log)
          /\ toClient[1].floor > 0 => \A i \in Rows : toClient[1].floor <= i
      BY <1>1, <1>2, <3>1 DEF DInv, Base, HellosAreSound
    <3>3. Safe(cursor) BY <2>2 DEF DInv, Base, CursorIsSafe
    <3>4. Safe(NotBelow(toClient[1].floor, cursor))
      BY <1>1, <3>2, <3>3, RaisedIsSafe
    <3> QED BY <1>3, <2>1, <3>4 DEF Safe
  <2> QED BY <2>1, <2>2, ItemsKept
<1> QED BY <1>4, <1>5

\* An event that is queued.
LEMMA TakesEventItems ==
    ASSUME DInv, Moves, ClientTakesEvent
    PROVE  ClientGoals
<1>1. /\ TypeOK /\ linked /\ toClient # <<>> /\ Head(toClient).kind = "event"
      /\ UNCHANGED <<log, pruned, epoch, shown, cursor, cursorEpoch, gui, acks>>
  BY DEF DInv, Base, ClientTakesEvent, spoolVars, stored, durable
<1>2. Head(toClient) = toClient[1] /\ 1 \in 1 .. Len(toClient)
  BY <1>1, QueueHeads
<1>3. PICK h \in Nat \ {0} : h = toClient[1].id BY <1>1, <1>2, QueueElements
<1>4. CASE UNCHANGED <<inbox, pending>> BY <1>1, <1>4, CursorKept, ItemsKept
<1>5. CASE ~UNCHANGED <<inbox, pending>>
  <2> DEFINE x == [id |-> h, epoch |-> cursorEpoch, fresh |-> TRUE]
  <2>1. inbox' = Append(inbox, x) /\ pending' = pending \union {h}
    BY <1>2, <1>3, <1>5 DEF ClientTakesEvent
  <2>2. inbox \in Seq(Items \union {x}) BY <1>1 DEF TypeOK
  <2>3. x.id = h /\ x.epoch = cursorEpoch /\ x.fresh OBVIOUS
  <2> HIDE DEF x
  <2>4. /\ Len(inbox') = Len(inbox) + 1 /\ Len(inbox) \in Nat
        /\ \A k \in 1 .. Len(inbox) : inbox'[k] = inbox[k]
        /\ inbox'[Len(inbox) + 1] = x
    BY <2>1, <2>2, AppendElements DEF x
  <2>5. \A k \in 1 .. Len(inbox') : k \in 1 .. Len(inbox) \/ k = Len(inbox) + 1
    BY <2>4
  <2>6. Rows' = Rows /\ Unshown' = Unshown /\ \A j : Safe(j)' <=> Safe(j)
    BY <1>1, SameTable
  <2>7. \A i, n : InGui(i, n)' <=> InGui(i, n) BY <1>1 DEF InGui
  <2>8. \A i : InGui(i, Len(gui))' <=> InGui(i, Len(gui)) BY <1>1 DEF InGui
  <2>9. PICK n \in Nat : n = Len(inbox) BY <2>4
  <2>10. \A k \in 1 .. n : \A i : InInbox(i, k) => InInbox(i, k)'
    <3>1. \A k \in 1 .. n : \A l \in 1 .. k : inbox'[l] = inbox[l]
      BY <2>4, <2>9
    <3> QED BY <3>1 DEF InInbox
  <2>11. \A i : InInbox(i, n) \/ i = h => InInbox(i, n + 1)'
    <3>1. (\A l \in 1 .. n : l \in 1 .. n + 1) /\ n + 1 \in 1 .. n + 1
      BY <2>9
    <3> QED BY <2>3, <2>4, <2>9, <3>1 DEF InInbox
  <2>12. \A i : Waiting(i) \/ i = h => Waiting(i)'
    <3>1. \A i : InInbox(i, n + 1)' => InInbox(i, Len(inbox))'
      BY <2>4, <2>9 DEF InInbox
    <3> QED BY <2>8, <2>9, <2>11, <3>1 DEF Waiting
  <2>13. helloDone BY <1>1, EventsFollowHello DEF DInv
  <2>14. ItemsOfStream'
    <3>1. \A k \in 1 .. Len(inbox') : inbox'[k].fresh /\ inbox'[k].epoch = cursorEpoch
      BY <2>3, <2>4, <2>5 DEF DInv, Base, ItemsOfStream
    <3> QED BY <1>1, <3>1 DEF DInv, Base, ItemsOfStream
  <2>15. CursorIsSafe' BY <1>1, <2>6 DEF DInv, Base, CursorIsSafe, Safe
  <2>16. GuiIsCovered' BY <1>1, <2>6, <2>7 DEF DInv, Base, GuiIsCovered
  <2>17. ASSUME cursorEpoch = epoch
         PROVE  /\ h \in 0 .. Len(log)
                /\ \A i \in Unshown : i <= h => Waiting(i) \/ i = h
    <3>1. Streams BY <1>1, <2>13, <2>17, OpenSession
    <3>2. /\ h \in 0 .. Len(log)
          /\ \A i \in Unshown : i <= h => Underway(i, 1)
      BY <1>1, <1>2, <1>3, <3>1 DEF DInv, Base, SentIsCovered
    <3>3. \A i : InSent(i, 1) => i = h BY <1>3 DEF InSent
    <3> QED BY <3>2, <3>3 DEF Underway
  <2>18. InboxIsCovered'
    <3>1. SUFFICES ASSUME cursorEpoch = epoch, NEW k \in 1 .. Len(inbox')
                   PROVE  /\ inbox'[k].id \in 0 .. Len(log)
                          /\ \A i \in Unshown : i <= inbox'[k].id =>
                                InGui(i, Len(gui))' \/ InInbox(i, k)'
      BY <1>1, <2>6 DEF InboxIsCovered
    <3>2. CASE k \in 1 .. Len(inbox)
      <4>1. /\ inbox[k].id \in 0 .. Len(log)
            /\ \A i \in Unshown : i <= inbox[k].id =>
                  InGui(i, Len(gui)) \/ InInbox(i, k)
        BY <3>1, <3>2 DEF DInv, Base, InboxIsCovered
      <4> QED BY <2>4, <2>8, <2>9, <2>10, <3>2, <4>1
    <3>3. CASE k = Len(inbox) + 1
      <4>1. inbox'[k].id = h /\ k = n + 1 BY <2>3, <2>4, <2>9, <3>3
      <4>2. \A i : Waiting(i) \/ i = h => InGui(i, Len(gui))' \/ InInbox(i, k)'
        BY <2>8, <2>9, <2>11, <4>1 DEF Waiting
      <4> QED BY <2>17, <3>1, <4>1, <4>2
    <3> QED BY <2>5, <3>2, <3>3
  <2>19. PendingIsCovered'
    <3>1. SUFFICES ASSUME cursorEpoch = epoch, NEW i \in pending'
                   PROVE  i <= Len(log) /\ (i \in Unshown => Waiting(i)')
      BY <1>1, <2>6 DEF PendingIsCovered
    <3>2. CASE i \in pending
      BY <2>12, <3>1, <3>2 DEF DInv, Base, PendingIsCovered
    <3>3. CASE i = h BY <2>12, <2>17, <3>1, <3>3
    <3> QED BY <2>1, <3>2, <3>3
  <2> QED BY <2>14, <2>15, <2>16, <2>18, <2>19 DEF ClientGoals
<1> QED BY <1>4, <1>5

\* What waits is handed to the GUI.
LEMMA FlushItems ==
    ASSUME DInv, Moves, Flush
    PROVE  ClientGoals
<1>1. /\ TypeOK /\ inbox' = <<>>
      /\ UNCHANGED <<log, pruned, epoch, shown, cursor, cursorEpoch, pending, acks>>
  BY DEF DInv, Base, Flush, spoolVars, stored, durable
<1>2. /\ Len(gui') = Len(gui) + Len(inbox) /\ Len(gui) \in Nat /\ Len(inbox) \in Nat
      /\ \A k \in 1 .. Len(gui) : gui'[k] = gui[k]
      /\ \A k \in 1 .. Len(inbox) : gui'[Len(gui) + k] = inbox[k]
  BY FlushMoves
<1>3. Rows' = Rows /\ Unshown' = Unshown /\ \A j : Safe(j)' <=> Safe(j)
  BY <1>1, SameTable
<1>4. \A k \in 1 .. Len(gui') :
         \/ k \in 1 .. Len(gui) /\ gui'[k] = gui[k]
         \/ \E l \in 1 .. Len(inbox) : k = Len(gui) + l /\ gui'[k] = inbox[l]
  <2>1. SUFFICES ASSUME NEW k \in 1 .. Len(gui'), k \notin 1 .. Len(gui)
                 PROVE  \E l \in 1 .. Len(inbox) : k = Len(gui) + l /\ gui'[k] = inbox[l]
    BY <1>2
  <2>2. k - Len(gui) \in 1 .. Len(inbox) /\ k = Len(gui) + (k - Len(gui))
    BY <1>2, <2>1
  <2> QED BY <1>2, <2>2
<1>5. PICK n \in Nat : n = Len(gui) BY <1>2
<1>6. \A k \in 0 .. n : \A i : InGui(i, k) => InGui(i, k)'
  <2>1. \A k \in 0 .. n : \A l \in 1 .. k : gui'[l] = gui[l] BY <1>2, <1>5
  <2> QED BY <2>1 DEF InGui
<1>7. \A i : \A l \in 0 .. Len(inbox) :
         InGui(i, n) \/ InInbox(i, l) => InGui(i, n + l)'
  <2>1. SUFFICES ASSUME NEW i, NEW l \in 0 .. Len(inbox)
                 PROVE  InGui(i, n) \/ InInbox(i, l) => InGui(i, n + l)'
    OBVIOUS
  <2>2. InGui(i, n) => InGui(i, n + l)'
    <3>1. \A j \in 1 .. n : j \in 1 .. n + l /\ gui'[j] = gui[j] BY <1>2, <1>5
    <3> QED BY <3>1 DEF InGui
  <2>3. InInbox(i, l) => InGui(i, n + l)'
    <3>1. \A j \in 1 .. l : n + j \in 1 .. n + l /\ gui'[n + j] = inbox[j] /\ inbox[j].fresh
      BY <1>2, <1>5 DEF DInv, Base, ItemsOfStream
    <3> QED BY <3>1 DEF InGui, InInbox
  <2> QED BY <2>2, <2>3
<1>8. ItemsOfStream'
  <2>1. \A l \in 1 .. Len(gui') : gui'[l].fresh => gui'[l].epoch = cursorEpoch
    BY <1>4 DEF DInv, Base, ItemsOfStream
  <2> QED BY <1>1, <2>1 DEF ItemsOfStream
<1>9. CursorIsSafe' BY <1>1, <1>3 DEF DInv, Base, CursorIsSafe, Safe
<1>10. GuiIsCovered'
  <2>1. SUFFICES ASSUME cursorEpoch = epoch, NEW k \in 1 .. Len(gui'), gui'[k].fresh
                 PROVE  /\ gui'[k].id \in 0 .. Len(log)
                        /\ \A i \in Unshown : i <= gui'[k].id => InGui(i, k)'
    BY <1>1, <1>3 DEF GuiIsCovered
  <2>2. CASE k \in 1 .. Len(gui) /\ gui'[k] = gui[k]
    <3>1. /\ gui[k].id \in 0 .. Len(log)
          /\ \A i \in Unshown : i <= gui[k].id => InGui(i, k)
      BY <2>1, <2>2 DEF DInv, Base, GuiIsCovered
    <3>2. k \in 0 .. n BY <1>5, <2>2
    <3> QED BY <1>6, <2>2, <3>1, <3>2
  <2>3. ASSUME NEW l \in 1 .. Len(inbox), k = Len(gui) + l, gui'[k] = inbox[l]
        PROVE  /\ gui'[k].id \in 0 .. Len(log)
               /\ \A i \in Unshown : i <= gui'[k].id => InGui(i, k)'
    <3>1. /\ inbox[l].id \in 0 .. Len(log)
          /\ \A i \in Unshown :
                i <= inbox[l].id => InGui(i, Len(gui)) \/ InInbox(i, l)
      BY <2>1 DEF DInv, Base, InboxIsCovered
    <3>2. k = n + l /\ l \in 0 .. Len(inbox) BY <1>5, <2>3
    <3> QED BY <1>5, <1>7, <2>3, <3>1, <3>2
  <2> QED BY <1>4, <2>2, <2>3
<1>11. InboxIsCovered' BY <1>1 DEF InboxIsCovered
<1>12. PendingIsCovered'
  <2>1. ASSUME NEW i, Waiting(i) PROVE Waiting(i)'
    <3>1. PICK l \in Nat : l = Len(inbox) BY <1>2
    <3>2. InGui(i, n) \/ InInbox(i, l) BY <1>5, <2>1, <3>1 DEF Waiting
    <3>3. l \in 0 .. Len(inbox) BY <3>1
    <3>4. InGui(i, n + l)' BY <1>7, <3>2, <3>3
    <3>5. n + l = Len(gui') BY <1>2, <1>5, <3>1
    <3> QED BY <3>4, <3>5 DEF Waiting, InGui
  <2> QED BY <1>1, <1>3, <2>1 DEF DInv, Base, PendingIsCovered
<1> QED BY <1>8, <1>9, <1>10, <1>11, <1>12 DEF ClientGoals

\* An event is on the screen.
LEMMA RenderItems ==
    ASSUME DInv, Moves, Render
    PROVE  ClientGoals
<1>1. /\ TypeOK /\ gui # <<>>
      /\ UNCHANGED <<log, pruned, epoch, cursor, cursorEpoch, pending, inbox>>
      /\ acks' = IF Head(gui).fresh THEN Append(acks, Head(gui).id) ELSE acks
  BY DEF DInv, Base, Render, spoolVars, stored, durable
<1>2. /\ Head(gui) = gui[1] /\ 1 \in 1 .. Len(gui)
      /\ Len(gui') = Len(gui) - 1 /\ Len(gui) \in Nat
      /\ \A k \in 1 .. Len(gui') : gui'[k] = gui[k + 1]
      /\ gui[1].fresh /\ cursorEpoch = epoch => gui[1].id \notin Unshown'
      /\ \A i \in Unshown' : i \in Unshown
  BY RenderMoves
<1>3. \A j : Safe(j) => Safe(j)' BY MovesKeep DEF DInv, Base
<1>4. ASSUME cursorEpoch = epoch, NEW i \in Unshown', NEW k \in 1 .. Len(gui),
             InGui(i, k)
      PROVE  InGui(i, k - 1)'
  <2>1. PICK l \in 1 .. k : gui[l].fresh /\ gui[l].id = i BY <1>4 DEF InGui
  <2>2. l # 1 BY <1>2, <1>4, <2>1
  <2>3. l - 1 \in 1 .. k - 1 /\ l - 1 \in 1 .. Len(gui') /\ (l - 1) + 1 = l
    BY <1>2, <2>2
  <2>4. gui'[l - 1] = gui[l] BY <1>2, <2>3
  <2> QED BY <2>1, <2>3, <2>4 DEF InGui
<1>5. \A k \in 1 .. Len(gui') : k + 1 \in 1 .. Len(gui) /\ (k + 1) - 1 = k
  BY <1>2
<1>6. ItemsOfStream' BY <1>1, <1>2, <1>5 DEF DInv, Base, ItemsOfStream
<1>7. PICK h \in Nat \ {0} : h = gui[1].id BY <1>1, <1>2, QueueElements
<1>8. ASSUME cursorEpoch = epoch, gui[1].fresh PROVE Safe(h)'
  <2>1. /\ h \in 0 .. Len(log)
        /\ \A i \in Unshown : i <= h => InGui(i, 1)
    BY <1>2, <1>7, <1>8 DEF DInv, Base, GuiIsCovered
  <2>2. \A i : InGui(i, 1) => i = h BY <1>7 DEF InGui
  <2>3. \A i \in Unshown' : i \in Nat
    BY <1>2, RowsAreNumbers DEF DInv, Base, Unshown
  <2>4. \A i \in Unshown' : h < i
    BY <1>2, <1>7, <1>8, <2>1, <2>2, <2>3
  <2> QED BY <1>1, <2>1, <2>4 DEF Safe
<1>9. CursorIsSafe'
  <2>1. SUFFICES ASSUME cursorEpoch = epoch
                 PROVE  Safe(cursor)' /\ \A k \in 1 .. Len(acks') : Safe(acks[k])'
    BY <1>1 DEF CursorIsSafe
  <2>2. Safe(cursor) /\ \A k \in 1 .. Len(acks) : Safe(acks[k])
    BY <2>1 DEF DInv, Base, CursorIsSafe
  <2>3. Safe(cursor)' BY <1>1, <1>3, <2>2 DEF Safe
  <2>4. CASE acks' = acks BY <1>3, <2>2, <2>3, <2>4 DEF Safe
  <2>5. CASE gui[1].fresh /\ acks' = Append(acks, h)
    <3>1. acks \in Seq(Nat) BY <1>1 DEF TypeOK
    <3>2. /\ Len(acks') = Len(acks) + 1 /\ Len(acks) \in Nat
          /\ \A k \in 1 .. Len(acks) : acks'[k] = acks[k]
          /\ acks'[Len(acks) + 1] = h
      BY <2>5, <3>1, AppendElements
    <3>3. \A k \in 1 .. Len(acks') : k \in 1 .. Len(acks) \/ k = Len(acks) + 1
      BY <3>2
    <3>4. Safe(h)' BY <1>8, <2>1, <2>5
    <3>5. \A k \in 1 .. Len(acks') : \E j : acks'[k] = j /\ Safe(j)'
      BY <1>3, <2>2, <3>2, <3>3, <3>4
    <3> QED BY <2>3, <3>5 DEF Safe
  <2> QED BY <1>1, <1>2, <1>7, <2>4, <2>5
<1>10. GuiIsCovered'
  <2>1. SUFFICES ASSUME cursorEpoch = epoch, NEW k \in 1 .. Len(gui'), gui'[k].fresh
                 PROVE  /\ gui'[k].id \in 0 .. Len(log)
                        /\ \A i \in Unshown' : i <= gui'[k].id => InGui(i, k)'
    BY <1>1 DEF GuiIsCovered
  <2>2. PICK m \in 1 .. Len(gui) : m = k + 1 /\ m - 1 = k /\ gui'[k] = gui[m]
    BY <1>2, <1>5
  <2>3. /\ gui[m].id \in 0 .. Len(log)
        /\ \A i \in Unshown : i <= gui[m].id => InGui(i, m)
    BY <2>1, <2>2 DEF DInv, Base, GuiIsCovered
  <2>4. \A i \in Unshown' : InGui(i, m) => InGui(i, m - 1)' BY <1>4, <2>1
  <2> QED BY <1>2, <2>2, <2>3, <2>4
<1>11. ASSUME cursorEpoch = epoch, NEW i \in Unshown', InGui(i, Len(gui))
       PROVE  InGui(i, Len(gui))'
  <2>1. PICK n \in 1 .. Len(gui) : n = Len(gui) /\ n - 1 = Len(gui') BY <1>2
  <2>2. InGui(i, n - 1)' BY <1>4, <1>11, <2>1
  <2> QED BY <2>1, <2>2 DEF InGui
<1>12. InboxIsCovered'
  <2>1. SUFFICES ASSUME cursorEpoch = epoch, NEW k \in 1 .. Len(inbox)
                 PROVE  /\ inbox[k].id \in 0 .. Len(log)
                        /\ \A i \in Unshown' : i <= inbox[k].id =>
                              InGui(i, Len(gui))' \/ InInbox(i, k)'
    BY <1>1 DEF InboxIsCovered
  <2>2. /\ inbox[k].id \in 0 .. Len(log)
        /\ \A i \in Unshown :
              i <= inbox[k].id => InGui(i, Len(gui)) \/ InInbox(i, k)
    BY <2>1 DEF DInv, Base, InboxIsCovered
  <2>3. \A i : InInbox(i, k)' <=> InInbox(i, k) BY <1>1 DEF InInbox
  <2> QED BY <1>2, <1>11, <2>1, <2>2, <2>3
<1>13. PendingIsCovered'
  <2>1. SUFFICES ASSUME cursorEpoch = epoch, NEW i \in pending
                 PROVE  i <= Len(log) /\ (i \in Unshown' => Waiting(i)')
    BY <1>1 DEF PendingIsCovered
  <2>2. i <= Len(log) /\ (i \in Unshown => Waiting(i))
    BY <2>1 DEF DInv, Base, PendingIsCovered
  <2>3. InInbox(i, Len(inbox))' <=> InInbox(i, Len(inbox)) BY <1>1 DEF InInbox
  <2> QED BY <1>2, <1>11, <2>1, <2>2, <2>3 DEF Waiting
<1> QED BY <1>6, <1>9, <1>10, <1>12, <1>13 DEF ClientGoals

\* The client is told that an event was rendered.
LEMMA AcknowledgeItems ==
    ASSUME DInv, Moves, Acknowledge
    PROVE  ClientGoals
<1>1. /\ TypeOK /\ acks # <<>> /\ acks' = Tail(acks)
      /\ UNCHANGED <<log, pruned, epoch, shown, cursorEpoch, inbox, gui>>
      /\ pending' \subseteq pending /\ cursor' \in {cursor, Head(acks)}
  BY DEF DInv, Base, Acknowledge, spoolVars, stored
<1>2. Rows' = Rows /\ Unshown' = Unshown /\ \A j : Safe(j)' <=> Safe(j)
  BY <1>1, SameTable
<1>3. /\ Head(acks) = acks[1] /\ 1 \in 1 .. Len(acks) /\ Len(acks) \in Nat
      /\ Len(acks') = Len(acks) - 1
      /\ \A k \in 1 .. Len(acks') : acks'[k] = acks[k + 1]
  BY <1>1, QueueHeads, QueueElements
<1>4. ItemsOfStream' BY <1>1 DEF DInv, Base, ItemsOfStream
<1>5. CursorIsSafe'
  <2>1. SUFFICES ASSUME cursorEpoch = epoch
                 PROVE  Safe(cursor)' /\ \A k \in 1 .. Len(acks') : Safe(acks[k])'
    BY <1>1 DEF CursorIsSafe
  <2>2. Safe(cursor) /\ \A k \in 1 .. Len(acks) : Safe(acks[k])
    BY <2>1 DEF DInv, Base, CursorIsSafe
  <2>3. \A k \in 1 .. Len(acks') : \E j : acks'[k] = j /\ Safe(j)'
    <3>1. \A k \in 1 .. Len(acks') : k + 1 \in 1 .. Len(acks) BY <1>3
    <3> QED BY <1>2, <1>3, <2>2, <3>1
  <2>4. \E j : cursor' = j /\ Safe(j)' BY <1>1, <1>2, <1>3, <2>2
  <2> QED BY <2>3, <2>4 DEF Safe
<1>6. \A i, n : InGui(i, n)' <=> InGui(i, n) BY <1>1 DEF InGui
<1>7. \A i, n : InInbox(i, n)' <=> InInbox(i, n) BY <1>1 DEF InInbox
<1>8. \A i : InGui(i, Len(gui))' <=> InGui(i, Len(gui)) BY <1>1 DEF InGui
<1>9. \A i : Waiting(i)' <=> Waiting(i) BY <1>1 DEF Waiting, InGui, InInbox
<1>10. GuiIsCovered' BY <1>1, <1>2, <1>6 DEF DInv, Base, GuiIsCovered
<1>11. InboxIsCovered' BY <1>1, <1>2, <1>7, <1>8 DEF DInv, Base, InboxIsCovered
<1>12. PendingIsCovered' BY <1>1, <1>2, <1>9 DEF DInv, Base, PendingIsCovered
<1> QED BY <1>4, <1>5, <1>10, <1>11, <1>12 DEF ClientGoals

\* Every step but the one that replaces the table.
LEMMA ItemsAreSafe ==
    ASSUME Assumptions, DInv, Moves, AgentSide \/ ConnectionStep \/ ClientStep
    PROVE  ClientGoals
BY OthersKeepItems, TakesHelloItems, TakesEventItems, FlushItems, RenderItems,
   AcknowledgeItems DEF ClientStep

-----------------------------------------------------------------------------
(* The connection.                                                         *)

\* Frames of the client carry its cursor or what it was told is rendered.
LEMMA FramesStaySafe ==
    ASSUME Assumptions, DInv, Moves, AgentSide \/ ConnectionStep \/ ClientStep
    PROVE  FramesAreSafe'
<1>1. TypeOK /\ epoch' = epoch BY DEF DInv, Base, Moves
<1>2. \A j : Safe(j) => Safe(j)' BY MovesKeep DEF DInv, Base
<1>3. SUFFICES ASSUME NEW k \in 1 .. Len(toAgent'), toAgent'[k].epoch = epoch
               PROVE  \E j : toAgent'[k].id = j /\ Safe(j)
  <2>1. ASSUME NEW k \in 1 .. Len(toAgent'), NEW j, toAgent'[k].id = j, Safe(j)
        PROVE  Safe(toAgent[k].id)'
    BY <1>2, <2>1 DEF Safe
  <2> QED BY <1>1, <2>1 DEF FramesAreSafe
<1>4. \A l \in 1 .. Len(toAgent) : toAgent[l].epoch = epoch => Safe(toAgent[l].id)
  BY DEF DInv, Base, FramesAreSafe
<1>5. CASE UNCHANGED toAgent BY <1>3, <1>4, <1>5
<1>6. CASE toAgent' = <<>> BY <1>3, <1>6
<1>7. CASE toAgent # <<>> /\ toAgent' = Tail(toAgent)
  <2>1. k + 1 \in 1 .. Len(toAgent) /\ toAgent'[k] = toAgent[k + 1]
    <3>1. /\ Len(toAgent') = Len(toAgent) - 1 /\ Len(toAgent) \in Nat
          /\ \A l \in 1 .. Len(toAgent) - 1 : toAgent'[l] = toAgent[l + 1]
      BY <1>1, <1>7, QueueHeads, QueueElements
    <3> QED BY <3>1
  <2> QED BY <1>3, <1>4, <2>1
<1>8. CASE Connect
  <2>1. toAgent' = <<HelloFromClient>> BY <1>8 DEF Connect
  <2>2. toAgent'[k] = HelloFromClient BY <2>1
  <2>3. HelloFromClient.id = cursor /\ HelloFromClient.epoch = cursorEpoch
    BY DEF HelloFromClient
  <2> QED BY <1>3, <2>2, <2>3 DEF DInv, Base, CursorIsSafe
<1>9. CASE Acknowledge
  <2>1. PICK i \in Nat \ {0} : i = Head(acks) /\ i = acks[1] /\ 1 \in 1 .. Len(acks)
    BY <1>1, <1>9, QueueElements, QueueHeads DEF Acknowledge
  <2>2. CASE toAgent' = Append(toAgent, AckFrame(i))
    <3>1. toAgent \in Seq(FromClient \union {AckFrame(i)}) BY <1>1 DEF TypeOK
    <3>2. /\ Len(toAgent') = Len(toAgent) + 1 /\ Len(toAgent) \in Nat
          /\ \A l \in 1 .. Len(toAgent) : toAgent'[l] = toAgent[l]
          /\ toAgent'[Len(toAgent) + 1] = AckFrame(i)
      BY <2>2, <3>1, AppendElements
    <3>3. k \in 1 .. Len(toAgent) \/ k = Len(toAgent) + 1 BY <3>2
    <3>4. AckFrame(i).id = i /\ AckFrame(i).epoch = cursorEpoch BY DEF AckFrame
    <3>5. CASE k \in 1 .. Len(toAgent) BY <1>3, <1>4, <3>2, <3>5
    <3>6. CASE k = Len(toAgent) + 1
      BY <1>3, <2>1, <3>2, <3>4, <3>6 DEF DInv, Base, CursorIsSafe
    <3> QED BY <3>3, <3>5, <3>6
  <2> QED BY <1>5, <1>9, <2>1, <2>2 DEF Acknowledge
<1>10. CASE AgentSide
  BY <1>5, <1>6, <1>7, <1>10, MisreadsAlone
  DEF AgentSide, AgentEnds, AgentDrops, GreetUnreadable, Start, Crash, Write,
      AgentStep, Misreads, Emit, Overflow, Greet,
      ReadBounds, ReadPage, HearRecorded, HearStatus, TakeAck, Cut, vars,
      deliveryVars, wire
<1>11. CASE AgentEnds \/ ClientDrops \/ UIQuits \/ ClientNotices
  BY <1>5, <1>6, <1>11
  DEF AgentEnds, AgentDrops, GreetUnreadable, ClientDrops, UIQuits, ClientNotices, Cut
<1>12. CASE ClientTakesHello \/ ClientTakesEvent \/ Flush \/ Render
  BY <1>5, <1>12 DEF ClientTakesHello, ClientTakesEvent, Flush, Render, wire
<1> QED
  BY <1>8, <1>9, <1>10, <1>11, <1>12 DEF ConnectionStep, AgentEnds, ClientStep

\* The links, and the epochs of the hellos.
WireGoals == Links' /\ OneEpoch'

\* The hellos of an open session are of one epoch.
LEMMA OneEpochOfSession ==
    ASSUME Links', session'.state = "on"
    PROVE  OneEpoch'
BY DEF Links, Streams, OneEpoch

\* Steps of the Agent that send nothing.
LEMMA QuietLinks ==
    ASSUME Base, Moves, UNCHANGED <<client, toClient>>,
           \/ /\ session'.state = session.state /\ (up => up')
              /\ session.state = "off" => toAgent' = toAgent
           \/ session'.state = "off" /\ toAgent' = <<>>
    PROVE  WireGoals
<1>1. UNCHANGED <<linked, helloDone, cursorEpoch, inbox, gui, acks, toClient, epoch>>
  BY DEF Moves, client, durable
<1>2. Links' BY <1>1 DEF Base, Links, Streams
<1>3. OneEpoch' BY <1>1 DEF Base, OneEpoch
<1> QED BY <1>2, <1>3 DEF WireGoals

\* Steps of the Agent that send in a session.
LEMMA SendingLinks ==
    ASSUME Base, Moves, AgentSends, session.state = "on", session'.state = "on", up',
           \A k \in Len(toClient) + 1 .. Len(toClient') :
               toClient'[k].kind = "hello" => toClient'[k].epoch = epoch
    PROVE  WireGoals
<1>1. UNCHANGED <<linked, helloDone, cursorEpoch, inbox, gui, acks, epoch>>
  BY DEF AgentSends, Moves, client, durable
<1>2. Links /\ Streams /\ linked /\ (~helloDone => toClient # <<>>)
  BY DEF Base, Links
<1>3. \A k \in 1 .. Len(toClient') :
         toClient'[k].kind = "hello" => toClient'[k].epoch = epoch
  <2>1. \A k \in 1 .. Len(toClient') :
           \/ k \in 1 .. Len(toClient) /\ toClient'[k] = toClient[k]
           \/ k \in Len(toClient) + 1 .. Len(toClient')
    BY DEF AgentSends
  <2> QED BY <1>2, <2>1 DEF Streams
<1>4. Streams' BY <1>1, <1>2, <1>3 DEF Streams
<1>5. toClient # <<>> => toClient' # <<>> /\ toClient'[1] = toClient[1]
  <2>1. SUFFICES ASSUME toClient # <<>> PROVE toClient' # <<>> /\ toClient'[1] = toClient[1]
    OBVIOUS
  <2>2. 1 \in 1 .. Len(toClient) BY <2>1, QueueHeads DEF Base
  <2>3. Len(toClient') # 0 BY <2>2 DEF AgentSends
  <2> QED BY <2>2, <2>3 DEF AgentSends
<1>6. Links' BY <1>1, <1>2, <1>4, <1>5 DEF Links
<1> QED BY <1>6, OneEpochOfSession DEF WireGoals

\* The answer to a hello opens the session.
LEMMA GreetLinks ==
    ASSUME Base, Moves, Greet
    PROVE  WireGoals
<1>1. TypeOK /\ Links /\ up /\ session.state = "greeting" /\ session'.state = "on"
      /\ UNCHANGED <<linked, helloDone, cursorEpoch, inbox, gui, acks, epoch, up>>
  BY DEF Base, Greet, HubRuns, client, durable, spoolVars
<1>2. linked /\ ~helloDone /\ toClient = <<>> BY <1>1 DEF Links, TypeOK
<1>3. /\ Len(toClient') = Len(toClient) + 1 /\ Len(toClient) = 0
      /\ toClient'[Len(toClient) + 1] = HelloFromAgent(Floor, High)
  BY <1>1, <1>2, SentElements DEF Greet
<1>4. /\ toClient'[1].kind = "hello" /\ toClient'[1].epoch = epoch
      /\ Len(toClient') = 1 /\ toClient' # <<>>
  BY <1>3 DEF HelloFromAgent
<1>5. \A k \in 1 .. Len(toClient') : k = 1 BY <1>4
<1>6. Streams' BY <1>1, <1>2, <1>4, <1>5 DEF Streams
<1>7. Links' BY <1>1, <1>2, <1>4, <1>6 DEF Links
<1> QED BY <1>1, <1>7, OneEpochOfSession DEF WireGoals

\* The Agent's steps keep the links.
LEMMA AgentLinks ==
    ASSUME Assumptions, Base, Moves, AgentSide
    PROVE  WireGoals
<1>1. TypeOK /\ SessionOK /\ IInv /\ Links BY DeliveryTypeParts DEF Base
<1>2. AgentSends BY <1>1, AgentSideSends
<1>3. UNCHANGED client BY <1>2 DEF AgentSends
<1>4. CASE UNCHANGED <<toClient, up, session, toAgent>>
  BY <1>3, <1>4, QuietLinks
<1>5. CASE Start
  <2>1. up' /\ UNCHANGED <<toClient, session, toAgent>>
    BY <1>5 DEF Start, StartWriter, wire
  <2> QED BY <1>3, <2>1, QuietLinks
<1>6. CASE Crash \/ AgentEnds
  <2>1. session'.state = "off" /\ toAgent' = <<>> /\ UNCHANGED toClient
    BY <1>6 DEF Crash, AgentEnds, AgentDrops, GreetUnreadable, Cut, NoSession
  <2> QED BY <1>3, <2>1, QuietLinks
<1>7. CASE Write \/ (\E e \in Events : Emit(e)) \/ UNCHANGED vars
  <2>1. UNCHANGED <<toClient, session, toAgent>>
    BY <1>7 DEF Write, Emit, vars, deliveryVars, hub, wire
  <2>2. up' = up
    BY <1>7
    DEF Write, Emit, Enqueue, Emits, vars, spoolVars,
        WriterStep, AppendLine, AppendFails, AppendTears, TakesEvent, DrainLine,
        DrainUnreadable, DrainFails, DrainRefused, StopWriter, RecordOther, RecordFails
  <2> QED BY <1>4, <2>1, <2>2
<1>8. CASE Overflow \/ HearStatus
  <2>1. up' = up /\ up /\ UNCHANGED <<session, toAgent>>
    BY <1>8 DEF Overflow, HearStatus, Emits, HubRuns, hub
  <2>2. CASE session.state # "on"
    <3>1. UNCHANGED toClient BY <1>8, <2>2 DEF Overflow, HearStatus, SendHello
    <3> QED BY <1>4, <2>1, <3>1
  <2>3. CASE session.state = "on"
    <3>1. toClient' = Append(toClient, CachedHello)
      BY <1>8, <2>3 DEF Overflow, HearStatus, SendHello
    <3>2. /\ Len(toClient') = Len(toClient) + 1 /\ Len(toClient) \in Nat
          /\ toClient'[Len(toClient) + 1] = CachedHello
      BY <1>1, <3>1, SentElements
    <3>3. CachedHello.epoch = epoch BY DEF CachedHello, HelloFromAgent
    <3>4. \A k \in Len(toClient) + 1 .. Len(toClient') : toClient'[k].epoch = epoch
      BY <3>2, <3>3
    <3> QED BY <1>2, <2>1, <2>3, <3>4, SendingLinks
  <2> QED BY <2>2, <2>3
<1>9. CASE Greet BY <1>9, GreetLinks
<1>10. CASE ReadBounds \/ TakeAck
  <2>1. /\ session'.state = "on" /\ session.state = "on"
        /\ UNCHANGED <<toClient, up>>
    BY <1>1, <1>10
    DEF ReadBounds, TakeAck, SessionOK, wire, spoolVars
  <2> QED BY <1>3, <2>1, QuietLinks
<1>13. CASE Misreads
  <2>1. UNCHANGED <<toClient, up, session, toAgent>>
    BY <1>13, MisreadsAlone DEF spoolVars, wire
  <2> QED BY <1>4, <2>1
<1>11. CASE ReadPage
  <2>1. session.state = "on" /\ up /\ up' = up
    BY <1>1, <1>11 DEF ReadPage, SessionOK, spoolVars
  <2>2. CASE {i \in Rows : i > session.through} = {}
    <3>1. session'.state = "on" /\ UNCHANGED <<toClient, toAgent>>
      BY <1>1, <1>11, <2>1, <2>2 DEF ReadPage, SessionOK
    <3> QED BY <1>3, <2>1, <3>1, QuietLinks
  <2>3. CASE {i \in Rows : i > session.through} # {}
    <3>1. PICK n \in 1 .. PageSize :
             \E page \in [1 .. n -> {i \in Rows : i > session.through}] :
                /\ session' = [session EXCEPT !.replaying = TRUE, !.through = page[n]]
                /\ n \in Nat \ {0}
                /\ Len(toClient') = Len(toClient) + n /\ Len(toClient) \in Nat
                /\ \A k \in 1 .. n : toClient'[Len(toClient) + k] = EventFrame(page[k])
      BY <1>1, <1>11, <2>3, PageElements
    <3>2. session'.state = "on" BY <1>1, <2>1, <3>1 DEF SessionOK
    <3>3. ASSUME NEW k \in 1 .. n PROVE toClient'[Len(toClient) + k].kind = "event"
      <4>1. \E i : toClient'[Len(toClient) + k] = EventFrame(i) BY <3>1
      <4> QED BY <4>1 DEF EventFrame
    <3>4. ASSUME NEW k \in Len(toClient) + 1 .. Len(toClient')
          PROVE  toClient'[k].kind = "event"
      <4>1. k - Len(toClient) \in 1 .. n /\ Len(toClient) + (k - Len(toClient)) = k
        BY <3>1
      <4> QED BY <3>3, <4>1
    <3> QED BY <1>2, <2>1, <3>2, <3>4, SendingLinks
  <2> QED BY <2>2, <2>3
<1>12. CASE HearRecorded
  <2>1. up /\ up' = up /\ UNCHANGED toAgent
    BY <1>12 DEF HearRecorded, HubRuns
  <2>2. CASE UNCHANGED <<session, toClient>> BY <1>4, <2>1, <2>2
  <2>3. CASE ~UNCHANGED <<session, toClient>>
    <3>1. PICK h : /\ session.state = "on"
                   /\ session' = [session EXCEPT !.through = h]
                   /\ toClient' = Append(toClient, EventFrame(h))
      BY <1>12, <2>3 DEF HearRecorded, IsBroadcast
    <3>2. /\ Len(toClient') = Len(toClient) + 1 /\ Len(toClient) \in Nat
          /\ toClient'[Len(toClient) + 1] = EventFrame(h)
      BY <1>1, <3>1, SentElements
    <3>3. EventFrame(h).kind = "event" BY DEF EventFrame
    <3>4. \A k \in Len(toClient) + 1 .. Len(toClient') : toClient'[k].kind = "event"
      BY <3>2, <3>3
    <3>5. session'.state = "on" BY <1>1, <3>1 DEF SessionOK
    <3> QED BY <1>2, <2>1, <3>1, <3>4, <3>5, SendingLinks
  <2> QED BY <2>2, <2>3
<1> QED
  BY <1>5, <1>6, <1>7, <1>8, <1>9, <1>10, <1>11, <1>12, <1>13
  DEF AgentSide, AgentStep, Misreads

\* So do those of the connection,
LEMMA ConnectionLinks ==
    ASSUME Base, Moves, ConnectionStep, ~AgentEnds
    PROVE  WireGoals
<1>1. TypeOK /\ Links BY DEF Base
<1>2. CASE ClientDrops \/ UIQuits \/ ClientNotices
  <2>1. /\ ~linked' /\ ~helloDone' /\ toClient' = <<>> /\ toAgent' = <<>>
        /\ session'.state = "off"
    BY <1>1, <1>2 DEF ClientDrops, UIQuits, ClientNotices, Cut, NoSession, Links, hub
  <2>2. Links' BY <2>1 DEF Links
  <2>3. OneEpoch' BY <2>1 DEF OneEpoch
  <2> QED BY <2>2, <2>3 DEF WireGoals
<1>3. CASE Connect
  <2>1. /\ linked' /\ ~helloDone' /\ toClient' = <<>> /\ up'
        /\ session'.state = "greeting"
        /\ inbox' = <<>> /\ acks' = <<>> /\ gui' = Stale(gui)
    BY <1>3 DEF Connect, HubRuns, NoSession, spoolVars
  <2>2. \A l \in 1 .. Len(gui') : ~gui'[l].fresh BY <1>1, <2>1, StaleItems
  <2>3. Links' BY <2>1, <2>2 DEF Links
  <2>4. OneEpoch' BY <2>1 DEF OneEpoch
  <2> QED BY <2>3, <2>4 DEF WireGoals
<1> QED BY <1>2, <1>3 DEF ConnectionStep, AgentEnds

\* ... a hello that is taken, which gives the client its epoch,
LEMMA TakesHelloLinks ==
    ASSUME Base, Moves, ClientTakesHello
    PROVE  WireGoals
<1>1. /\ TypeOK /\ Links /\ linked /\ toClient # <<>> /\ toClient' = Tail(toClient)
      /\ Head(toClient).kind = "hello" /\ helloDone' = TRUE
      /\ cursorEpoch' = Head(toClient).epoch
      /\ UNCHANGED <<up, epoch, session, toAgent, linked>>
  BY DEF Base, ClientTakesHello, spoolVars, hub
<1>2. /\ Head(toClient) = toClient[1] /\ 1 \in 1 .. Len(toClient)
      /\ Len(toClient) = Len(toClient') + 1 /\ Len(toClient') \in Nat
      /\ \A k \in 1 .. Len(toClient') : toClient'[k] = toClient[k + 1]
  BY <1>1, OneTaken
<1>3. \A k \in 1 .. Len(toClient') : k + 1 \in 1 .. Len(toClient) BY <1>2
<1>4. cursorEpoch' \in 1 .. epoch BY <1>1, <1>2, QueueElements
<1>5. cursorEpoch' # 0 BY <1>4
<1>6. \A k \in 1 .. Len(toClient') :
         toClient'[k].kind = "hello" => toClient'[k].epoch = cursorEpoch'
  BY <1>1, <1>2, <1>3 DEF Base, OneEpoch
<1>7. OneEpoch' BY <1>6 DEF OneEpoch
<1>8. session.state = "on" => Streams'
  <2>1. ASSUME session.state = "on" PROVE Streams'
    <3>1. cursorEpoch' = epoch BY <1>1, <1>2, <2>1 DEF Links, Streams
    <3> QED BY <1>1, <1>6, <3>1 DEF Streams
  <2> QED BY <2>1
<1>9. Links' BY <1>1, <1>5, <1>8 DEF Links
<1> QED BY <1>7, <1>9 DEF WireGoals

\* ... and an event that is taken.
LEMMA TakesEventLinks ==
    ASSUME Base, Moves, ClientTakesEvent
    PROVE  WireGoals
<1>1. /\ TypeOK /\ Links /\ linked /\ toClient # <<>> /\ toClient' = Tail(toClient)
      /\ Head(toClient).kind = "event"
      /\ UNCHANGED <<up, epoch, session, toAgent, linked, helloDone, cursorEpoch>>
  BY DEF Base, ClientTakesEvent, spoolVars, hub, durable
<1>2. /\ Len(toClient) = Len(toClient') + 1 /\ Len(toClient') \in Nat
      /\ \A k \in 1 .. Len(toClient') : toClient'[k] = toClient[k + 1]
  BY <1>1, OneTaken
<1>3. helloDone BY <1>1, EventsFollowHello
<1>4. \A k \in 1 .. Len(toClient') : k + 1 \in 1 .. Len(toClient) BY <1>2
<1>5. OneEpoch' BY <1>1, <1>2, <1>4 DEF Base, OneEpoch
<1>6. Streams => Streams' BY <1>1, <1>2, <1>4 DEF Streams
<1>7. Links' BY <1>1, <1>3, <1>6 DEF Links
<1> QED BY <1>5, <1>7 DEF WireGoals

\* What the client does beside its socket.
LEMMA InnerLinks ==
    ASSUME Base, Moves, Flush \/ Render \/ Acknowledge
    PROVE  WireGoals
<1>1. /\ TypeOK /\ Links
      /\ UNCHANGED <<up, epoch, session, toClient, linked, helloDone, cursorEpoch>>
      /\ session.state = "off" => toAgent' = toAgent
  BY DEF Base, Flush, Render, Acknowledge, spoolVars, hub, wire, durable
<1>2. OneEpoch' BY <1>1 DEF Base, OneEpoch
<1>3. Streams' <=> Streams BY <1>1 DEF Streams
<1>4. ASSUME linked, ~helloDone
      PROVE  /\ inbox' = <<>> /\ acks' = <<>>
             /\ \A l \in 1 .. Len(gui') : ~gui'[l].fresh
  <2>1. inbox = <<>> /\ acks = <<>> /\ \A l \in 1 .. Len(gui) : ~gui[l].fresh
    BY <1>1, <1>4 DEF Links
  <2>2. CASE Render
    <3>1. /\ Head(gui) = gui[1] /\ 1 \in 1 .. Len(gui) /\ Len(gui) \in Nat
          /\ Len(gui') = Len(gui) - 1
          /\ \A k \in 1 .. Len(gui') : gui'[k] = gui[k + 1]
      BY <1>1, <2>2, QueueHeads, QueueElements DEF Render
    <3>2. \A k \in 1 .. Len(gui') : k + 1 \in 1 .. Len(gui) BY <3>1
    <3> QED BY <2>1, <2>2, <3>1, <3>2 DEF Render
  <2> QED BY <2>1, <2>2 DEF Flush, Acknowledge
<1>5. Links' BY <1>1, <1>3, <1>4 DEF Links
<1> QED BY <1>2, <1>5 DEF WireGoals

\* Every step but the one that replaces the table keeps the links.
LEMMA LinksAreSafe ==
    ASSUME Assumptions, Base, Moves, AgentSide \/ ConnectionStep \/ ClientStep
    PROVE  WireGoals
<1>1. CASE AgentEnds BY <1>1, AgentLinks DEF AgentSide
<1>2. CASE ~AgentEnds
  BY <1>2, AgentLinks, ConnectionLinks, TakesHelloLinks, TakesEventLinks, InnerLinks
  DEF ClientStep
<1> QED BY <1>1, <1>2

\* What the client holds is of the epoch its cursor is of, after every step.
LEMMA StreamItems ==
    ASSUME Assumptions, Base, [Next]_vars
    PROVE  ItemsOfStream'
<1>1. TypeOK /\ IInv /\ ItemsOfStream BY DEF Base
<1>2. CASE UNCHANGED <<cursorEpoch, inbox, gui>>
  BY <1>1, <1>2 DEF ItemsOfStream
<1>3. CASE inbox' = <<>> /\ \A l \in 1 .. Len(gui') : ~gui'[l].fresh
  BY <1>3 DEF ItemsOfStream
<1>4. CASE AgentSide
  <2>1. UNCHANGED client BY <1>1, <1>4, AgentSideSends DEF AgentSends
  <2> QED BY <1>2, <2>1 DEF client, durable
<1>5. CASE ReplaceDatabase \/ ClientDrops \/ ClientNotices \/ Acknowledge
  BY <1>2, <1>5
  DEF ReplaceDatabase, ClientDrops, ClientNotices, Acknowledge, client, durable
<1>6. CASE UIQuits BY <1>3, <1>6 DEF UIQuits
<1>7. CASE Connect
  <2>1. \A l \in 1 .. Len(gui') : ~gui'[l].fresh
    BY <1>1, <1>7, StaleItems DEF Connect
  <2> QED BY <1>3, <1>7, <2>1 DEF Connect
<1>8. CASE ClientTakesHello
  <2>1. CASE CursorInvalid(Head(toClient))
    <3>1. \A l \in 1 .. Len(gui') : ~gui'[l].fresh
      BY <1>1, <1>8, <2>1, StaleItems DEF ClientTakesHello
    <3> QED BY <1>3, <1>8, <2>1, <3>1 DEF ClientTakesHello
  <2>2. CASE ~CursorInvalid(Head(toClient))
    BY <1>2, <1>8, <2>2 DEF ClientTakesHello, CursorInvalid
  <2> QED BY <2>1, <2>2
<1>9. CASE ClientTakesEvent
  <2>1. UNCHANGED <<cursorEpoch, gui>> BY <1>9 DEF ClientTakesEvent, durable
  <2>2. CASE UNCHANGED inbox BY <1>2, <2>1, <2>2
  <2>3. CASE ~UNCHANGED inbox
    <3> DEFINE x == [id |-> Head(toClient).id, epoch |-> cursorEpoch, fresh |-> TRUE]
    <3>1. inbox' = Append(inbox, x) BY <1>9, <2>3 DEF ClientTakesEvent
    <3>2. inbox \in Seq(Items \union {x}) BY <1>1 DEF TypeOK
    <3>3. x.epoch = cursorEpoch /\ x.fresh OBVIOUS
    <3> HIDE DEF x
    <3>4. /\ Len(inbox') = Len(inbox) + 1 /\ Len(inbox) \in Nat
          /\ \A k \in 1 .. Len(inbox) : inbox'[k] = inbox[k]
          /\ inbox'[Len(inbox) + 1] = x
      BY <3>1, <3>2, AppendElements
    <3>5. \A k \in 1 .. Len(inbox') : k \in 1 .. Len(inbox) \/ k = Len(inbox) + 1
      BY <3>4
    <3>6. \A k \in 1 .. Len(inbox') : inbox'[k].fresh /\ inbox'[k].epoch = cursorEpoch
      BY <1>1, <3>3, <3>4, <3>5 DEF ItemsOfStream
    <3> QED BY <1>1, <2>1, <3>6 DEF ItemsOfStream
  <2> QED BY <2>2, <2>3
<1>10. CASE Flush
  <2>1. /\ cursorEpoch' = cursorEpoch /\ inbox' = <<>> /\ gui' = gui \o inbox
    BY <1>10 DEF Flush, durable
  <2>2. /\ Len(gui') = Len(gui) + Len(inbox) /\ Len(gui) \in Nat /\ Len(inbox) \in Nat
        /\ \A k \in 1 .. Len(gui) : gui'[k] = gui[k]
        /\ \A k \in 1 .. Len(inbox) : gui'[Len(gui) + k] = inbox[k]
    BY <1>1, <2>1 DEF TypeOK
  <2>3. SUFFICES ASSUME NEW k \in 1 .. Len(gui'), gui'[k].fresh
                 PROVE  gui'[k].epoch = cursorEpoch
    BY <2>1 DEF ItemsOfStream
  <2>4. CASE k \in 1 .. Len(gui) BY <1>1, <2>2, <2>3, <2>4 DEF ItemsOfStream
  <2>5. CASE k \notin 1 .. Len(gui)
    <3>1. k - Len(gui) \in 1 .. Len(inbox) /\ Len(gui) + (k - Len(gui)) = k
      BY <2>2, <2>5
    <3>2. gui'[k] = inbox[k - Len(gui)] BY <2>2, <3>1
    <3> QED BY <1>1, <3>1, <3>2 DEF ItemsOfStream
  <2> QED BY <2>4, <2>5
<1>11. CASE Render
  <2>1. gui # <<>> /\ gui' = Tail(gui) /\ UNCHANGED <<cursorEpoch, inbox>>
    BY <1>11 DEF Render, durable
  <2>2. /\ Len(gui') = Len(gui) - 1 /\ Len(gui) \in Nat
        /\ \A k \in 1 .. Len(gui') : gui'[k] = gui[k + 1]
    BY <1>1, <2>1, QueueHeads, QueueElements
  <2>3. \A k \in 1 .. Len(gui') : k + 1 \in 1 .. Len(gui) BY <2>2
  <2> QED BY <1>1, <2>1, <2>2, <2>3 DEF ItemsOfStream
<1> QED
  BY <1>4, <1>5, <1>6, <1>7, <1>8, <1>9, <1>10, <1>11
  DEF Next, AgentSide, AgentEnds, ConnectionStep, ClientStep

\* The floor the Agent has cached for a session is no row too far.
LEMMA FloorStaysSound ==
    ASSUME Assumptions, DInv, Moves, AgentSide \/ ConnectionStep \/ ClientStep,
           ~misled'
    PROVE  FloorIsSound'
<1>1. TypeOK /\ SessionOK /\ IInv /\ Links BY DeliveryTypeParts DEF DInv, Base
<1>2. /\ \A i \in Rows' : i \in Nat /\ (i \in Rows \/ i > Len(log))
      /\ Len(log) \in Nat /\ Len(log') \in Nat /\ Len(log) <= Len(log')
  BY <1>1, MovesKeep
<1>3. CASE session.state = "on" /\ UNCHANGED floorSeen /\ RowsAreAnnounced
  <2>1. /\ floorSeen \in 0 .. Len(log)
        /\ floorSeen > 0 => \A i \in Rows : floorSeen <= i
        /\ floorSeen = 0 => \A i \in Rows : Announced(i)
    BY <1>3 DEF DInv, FloorIsSound
  <2>2. floorSeen' \in 0 .. Len(log') BY <1>2, <1>3, <2>1
  <2>3. floorSeen' > 0 => \A i \in Rows' : floorSeen' <= i
    BY <1>2, <1>3, <2>1
  <2>4. floorSeen' = 0 => \A i \in Rows' : Announced(i)'
    BY <1>3, <2>1 DEF RowsAreAnnounced
  <2> QED BY <2>2, <2>3, <2>4 DEF FloorIsSound
<1>4. CASE floorSeen' = Floor /\ UNCHANGED <<log, pruned>>
  <2>1. Rows' = Rows BY <1>4 DEF Rows
  <2> QED BY <1>1, <1>4, <2>1, BoundsOfTable DEF FloorIsSound
<1>5. CASE session'.state # "on" BY <1>5 DEF FloorIsSound
<1>6. CASE Start BY <1>4, <1>6 DEF Start, StartWriter, stored
<1>7. CASE Crash \/ AgentEnds
  BY <1>5, <1>7 DEF Crash, AgentEnds, AgentDrops, GreetUnreadable, Cut, NoSession
<1>8. CASE Greet \/ ReadBounds
  BY <1>4, <1>8 DEF Greet, ReadBounds, spoolVars, stored
<1>9. CASE UNCHANGED <<spoolVars, floorSeen>> /\ session'.state = session.state
  <2>1. RowsAreAnnounced BY <1>1, <1>9, WriterAnnounces
  <2> QED BY <1>3, <1>5, <1>9, <2>1
<1>10. CASE Write \/ (\E e \in Events : Emit(e))
  <2>1. RowsAreAnnounced
    BY <1>1, <1>10, WriterAnnounces DEF Write, Emit, EmitEvent
  <2>2. UNCHANGED <<floorSeen, session>> BY <1>10 DEF Write, Emit, deliveryVars, hub
  <2> QED BY <1>3, <1>5, <2>1, <2>2
<1>11. CASE Overflow
  BY <1>1, <1>3, <1>5, <1>11, RefusedEmission DEF Overflow, hub
<1>12. CASE HearStatus
  BY <1>3, <1>5, <1>12, StatusHeard DEF HearStatus, hub
<1>13. CASE HearRecorded /\ session.state = "on"
  <2>1. PICK h \in Nat \ {0} : h = Head(toHub).id /\ h <= Len(log)
    BY <1>1, <1>13, SignalsInOrder
  <2>2. /\ UNCHANGED <<log, pruned>>
        /\ floorSeen' = IF floorSeen = 0 THEN h ELSE floorSeen
    BY <1>13, <2>1 DEF HearRecorded, stored
  <2>3. /\ floorSeen \in 0 .. Len(log)
        /\ floorSeen > 0 => \A i \in Rows : floorSeen <= i
        /\ floorSeen = 0 => \A i \in Rows : Announced(i)
    BY <1>13 DEF DInv, FloorIsSound
  <2>4. Rows' = Rows BY <2>2 DEF Rows
  <2>5. floorSeen = 0 => \A i \in Rows : h <= i
    BY <1>1, <1>13, <2>1, <2>3, RowsAreNumbers, SignalsInOrder
  <2>6. floorSeen' \in 0 .. Len(log') /\ floorSeen' # 0 BY <2>1, <2>2, <2>3
  <2>7. \A i \in Rows' : floorSeen' <= i
    <3>1. floorSeen = 0 \/ floorSeen > 0 BY <2>3
    <3> QED BY <2>2, <2>3, <2>4, <2>5, <3>1
  <2> QED BY <2>6, <2>7 DEF FloorIsSound
<1>14. CASE HearRecorded /\ session.state # "on"
  <2>1. UNCHANGED session BY <1>14 DEF HearRecorded, IsBroadcast
  <2> QED BY <1>5, <1>14, <2>1
<1>15. CASE ReadPage \/ TakeAck
  <2>1. session'.state = session.state
    BY <1>1, <1>15 DEF ReadPage, TakeAck, SessionOK
  <2> QED BY <1>9, <1>15, <2>1 DEF ReadPage, TakeAck
<1>16. CASE Misreads \/ UNCHANGED vars
  <2>1. UNCHANGED <<spoolVars, floorSeen, session>>
    BY <1>16, MisreadsAlone DEF vars, deliveryVars, hub
  <2> QED BY <1>9, <2>1
<1>17. CASE ConnectionStep /\ ~AgentEnds
  <2>1. session'.state # "on"
    BY <1>17
    DEF ConnectionStep, AgentEnds, ClientDrops, UIQuits, ClientNotices, Connect, Cut,
        NoSession, hub
  <2> QED BY <1>5, <2>1
<1>18. CASE ClientStep
  BY <1>9, <1>18
  DEF ClientStep, ClientTakesHello, ClientTakesEvent, Flush, Render, Acknowledge, hub
<1> QED
  BY <1>6, <1>7, <1>8, <1>10, <1>11, <1>12, <1>13, <1>14, <1>15, <1>16, <1>17, <1>18
  DEF AgentSide, AgentStep, Misreads

-----------------------------------------------------------------------------
(* The invariant of every behaviour.                                       *)

\* At the beginning there is nothing to lose.
LEMMA InitHolds ==
    ASSUME Assumptions, Init
    PROVE  DInv
<1>1. /\ log = <<>> /\ pruned = 0 /\ offset = 0 /\ ~up
      /\ epoch = 1 /\ cursorEpoch = 0 /\ session = NoSession
      /\ toClient = <<>> /\ toAgent = <<>> /\ gui = <<>> /\ inbox = <<>> /\ acks = <<>>
      /\ pending = {} /\ ~linked /\ ~helloDone
  BY DEF Init, SpoolInit
<1>2. IInv BY InitInvariant DEF Assumptions, Init
<1>3. TypeOK
  <2>1. SpoolTypeOK BY <1>2 DEF IInv
  <2>2. SessionOK BY DEF Init, SessionOK, NoSession
  <2>3. ToAgentOK /\ ToClientOK /\ ItemsOK
    BY DEF Init, ToAgentOK, ToClientOK, ItemsOK
  <2>4. CursorOK
    <3>1. MaxReplaced \in Nat /\ MaxDrops \in Nat
      BY DEF Assumptions, DeliveryAssumption
    <3>2. epoch \in 1 .. MaxReplaced + 1 BY <1>1, <3>1
    <3>3. /\ drops \in 0 .. MaxDrops /\ shown = {} /\ cursor = 0
          /\ linked = FALSE /\ helloDone = FALSE
      BY <3>1 DEF Init
    <3>4. cursorEpoch \in 0 .. epoch BY <1>1
    <3> QED BY <1>1, <3>2, <3>3, <3>4 DEF CursorOK
  <2>5. ReadsOK
    <3>1. MaxMisreads \in Nat BY DEF Assumptions, DeliveryAssumption
    <3>2. misreads = 0 /\ misled = FALSE BY DEF Init
    <3>3. misreads \in 0 .. MaxMisreads BY <3>1, <3>2
    <3> QED BY <3>2, <3>3 DEF ReadsOK
  <2> QED BY <2>1, <2>2, <2>3, <2>4, <2>5, DeliveryTypeParts
<1>4. session.state = "off" BY <1>1 DEF NoSession
<1>5. Links /\ OneEpoch /\ ItemsOfStream
  BY <1>1, <1>4 DEF Links, OneEpoch, ItemsOfStream
<1>6. CursorIsSafe /\ GuiIsCovered /\ InboxIsCovered /\ PendingIsCovered
  BY <1>1 DEF CursorIsSafe, GuiIsCovered, InboxIsCovered, PendingIsCovered
<1>7. FramesAreSafe /\ SentIsCovered /\ HellosAreSound
  BY <1>1 DEF FramesAreSafe, SentIsCovered, HellosAreSound
<1>8. SessionIsSafe /\ FloorIsSound /\ DownIsDrained
  BY <1>1, <1>4 DEF SessionIsSafe, FloorIsSound, DownIsDrained
<1> QED BY <1>2, <1>3, <1>5, <1>6, <1>7, <1>8 DEF DInv, Base

\* Every step keeps who talks to whom, whatever it cannot read.
LEMMA BaseHolds ==
    ASSUME Assumptions, Base, [Next]_vars
    PROVE  Base'
<1>1. TypeOK /\ IInv /\ DownIsDrained /\ Links /\ OneEpoch /\ ItemsOfStream
  BY DEF Base
<1>2. TypeOK' BY <1>1, StepTypes
<1>3. IInv' /\ DownIsDrained' BY <1>1, StepKeepsSpool
<1>4. ItemsOfStream' BY StreamItems
<1>5. WireGoals
  <2>1. CASE ReplaceDatabase
    <3>1. /\ ~up
          /\ UNCHANGED <<up, session, toClient, toAgent, linked, helloDone, cursorEpoch,
                         inbox, gui, acks>>
      BY <2>1 DEF ReplaceDatabase, hub, wire, client, durable
    <3>2. session.state = "off" BY <1>1, <3>1 DEF Links
    <3>3. Links' /\ OneEpoch' BY <1>1, <3>1, <3>2 DEF Links, OneEpoch
    <3> QED BY <3>3 DEF WireGoals
  <2>2. CASE ~ReplaceDatabase
    <3>1. Moves BY <1>1, <2>2, StepMoves
    <3>2. AgentSide \/ ConnectionStep \/ ClientStep BY <2>2 DEF Next, AgentSide
    <3> QED BY <3>1, <3>2, LinksAreSafe
  <2> QED BY <2>1, <2>2
<1> QED BY <1>2, <1>3, <1>4, <1>5 DEF Base, WireGoals

\* The table is replaced: nothing that is under way is about the new one.
LEMMA ReplacedIsSafe ==
    ASSUME Assumptions, DInv, [Next]_vars, ReplaceDatabase
    PROVE  DInv'
<1>1. Base /\ TypeOK /\ Links
  BY DEF DInv, Base
<1>2. /\ ~up /\ epoch' = epoch + 1
      /\ UNCHANGED <<up, session, toClient, toAgent, linked, helloDone, cursorEpoch,
                     inbox, gui, acks>>
  BY DEF ReplaceDatabase, hub, wire, client, durable
<1>3. Base' BY <1>1, BaseHolds
<1>4. session.state = "off" /\ toAgent = <<>> BY <1>1, <1>2 DEF Links
<1>5. cursorEpoch # epoch' BY <1>1, <1>2 DEF TypeOK
<1>6. \A k \in 1 .. Len(toClient) :
         toClient[k].kind = "hello" => toClient[k].epoch # epoch'
  <2>1. \A k \in 1 .. Len(toClient) :
           toClient[k].kind = "hello" => toClient[k].epoch \in 1 .. epoch
    BY <1>1, QueueElements
  <2>2. epoch \in Nat BY <1>1 DEF TypeOK
  <2>3. \A x \in 1 .. epoch : x # epoch' BY <1>2, <2>2
  <2> QED BY <2>1, <2>3
<1>7. Streams' => \A k \in 1 .. Len(toClient) : FALSE
  <2>1. SUFFICES ASSUME Streams', NEW k \in 1 .. Len(toClient) PROVE FALSE OBVIOUS
  <2>2. linked /\ ~helloDone BY <1>1, <1>2, <1>5, <2>1 DEF Streams, TypeOK
  <2>3. toClient # <<>> BY <2>1
  <2>4. 1 \in 1 .. Len(toClient) BY <1>1, <2>3, QueueHeads
  <2>5. toClient[1].kind = "hello" BY <1>1, <2>2, <2>3 DEF Links
  <2> QED BY <1>2, <1>6, <2>1, <2>4, <2>5 DEF Streams
<1>8. CursorIsSafe' /\ GuiIsCovered' /\ InboxIsCovered' /\ PendingIsCovered'
  BY <1>2, <1>5 DEF CursorIsSafe, GuiIsCovered, InboxIsCovered, PendingIsCovered
<1>9. FramesAreSafe' BY <1>2, <1>4 DEF FramesAreSafe
<1>10. SentIsCovered' /\ HellosAreSound'
  BY <1>2, <1>7 DEF SentIsCovered, HellosAreSound
<1>11. SessionIsSafe' /\ FloorIsSound'
  BY <1>2, <1>4 DEF SessionIsSafe, FloorIsSound
<1> QED BY <1>3, <1>8, <1>9, <1>10, <1>11 DEF DInv, Base

\* As long as no session was misled, every step keeps the invariant.
LEMMA StepHolds ==
    ASSUME Assumptions, DInv, [Next]_vars, ~misled'
    PROVE  DInv'
<1>1. CASE ReplaceDatabase BY <1>1, ReplacedIsSafe
<1>2. CASE ~ReplaceDatabase
  <2>1. Base /\ TypeOK /\ IInv /\ Links BY DEF DInv, Base
  <2>2. Moves BY <1>2, <2>1, StepMoves
  <2>3. AgentSide \/ ConnectionStep \/ ClientStep BY <1>2 DEF Next, AgentSide
  <2>4. Base' BY <2>1, BaseHolds
  <2>5. ClientGoals BY <2>2, <2>3, ItemsAreSafe
  <2>6. FramesAreSafe' BY <2>2, <2>3, FramesStaySafe
  <2>7. FloorIsSound' BY <2>2, <2>3, FloorStaysSound
  <2>8. AgentGoals
    <3>1. CASE AgentSide BY <1>2, <3>1, AgentIsSafe
    <3>2. CASE ClientStep BY <3>2, ClientIsSafe
    <3>3. CASE AgentEnds BY <1>2, <3>3, AgentIsSafe DEF AgentSide
    <3>4. CASE ConnectionStep /\ ~AgentEnds
      <4>1. toClient' = <<>> /\ session'.state # "on"
        BY <2>1, <3>4
        DEF ConnectionStep, AgentEnds, ClientDrops, UIQuits, ClientNotices, Connect,
            Cut, NoSession, Links, hub
      <4>2. SentIsCovered' /\ HellosAreSound' /\ SessionIsSafe'
        BY <4>1 DEF SentIsCovered, HellosAreSound, SessionIsSafe
      <4> QED BY <4>2 DEF AgentGoals
    <3> QED BY <2>3, <3>1, <3>2, <3>3, <3>4
  <2> QED
    BY <2>4, <2>5, <2>6, <2>7, <2>8 DEF DInv, ClientGoals, AgentGoals
<1> QED BY <1>1, <1>2

\* The invariant of every behaviour.
Delivered == Base /\ (~misled => DInv)

\* What holds at the beginning and is kept holds of every behaviour: what the
\* Agent and the client have of each other, whatever fails, and as long as no
\* read that failed misled a session, that nothing unseen is left behind.
THEOREM DeliveryInvariance == Spec => []Delivered
<1>1. Assumptions BY SpoolAssumption, DeliveryAssumption DEF Assumptions
<1>2. Init => Delivered BY <1>1, InitHolds DEF Delivered, DInv
<1>3. Delivered /\ [Next]_vars => Delivered'
  <2>1. SUFFICES ASSUME Delivered, [Next]_vars PROVE Delivered' OBVIOUS
  <2>2. Base' BY <1>1, <2>1, BaseHolds DEF Delivered
  <2>3. misled => misled' BY <1>1, <2>1, StepReads DEF Delivered, Base
  <2>4. ~misled' => DInv' BY <1>1, <2>1, <2>3, StepHolds DEF Delivered
  <2> QED BY <2>2, <2>4 DEF Delivered
<1> QED BY <1>2, <1>3, PTL DEF Spec

\* Every variable has its type, and what is acknowledged was sent.
THEOREM DeliveryTypeCorrect == Spec => []TypeOK
<1>1. Delivered => TypeOK BY DEF Delivered, Base
<1> QED BY <1>1, DeliveryInvariance, PTL

\* Whatever is lost on the way, a cursor never passes an event the operator has
\* not seen, unless a session went on without what it had to read:
\* HubClient::acknowledgeCriticalEvent.
THEOREM NoGapEver == Spec => []NoGap
<1>1. Delivered => NoGap
  <2>1. SUFFICES ASSUME DInv, cursorEpoch = epoch, NEW i \in Rows, i <= cursor
                 PROVE  <<epoch, i>> \in shown
    BY DEF NoGap, Delivered
  <2>2. cursor \in Nat /\ \A j \in Unshown : cursor < j
    BY <2>1 DEF DInv, Base, CursorIsSafe, Safe, TypeOK
  <2>3. i \in Nat BY <2>1, RowsAreNumbers DEF DInv, Base
  <2>4. i \notin Unshown BY <2>1, <2>2, <2>3
  <2> QED BY <2>1, <2>4 DEF Unshown, Shown
<1> QED BY <1>1, DeliveryInvariance, PTL

-----------------------------------------------------------------------------
(* The order of what is in flight: a second invariant beside DInv.         *)

AckIds == {acks[k] : k \in DOMAIN acks}

QueuesAscend ==
    /\ Ascends(gui, FreshItems) /\ Ascends(inbox, DOMAIN inbox)
    /\ Ascends(toClient, EventFrames)
    /\ Precede(GuiIds, InboxIds \union SentIds) /\ Precede(InboxIds, SentIds)

AheadOfCursor ==
    cursorEpoch = epoch /\ linked => \A i \in Rows \intersect InFlight : i > cursor

\* What was rendered came before what is in flight, and was sent.
AcksPrecede == Precede(AckIds, InFlight)
AcksAreSent == session.state = "on" => \A i \in AckIds : i <= session.through

\* The Agent sends no row the cursor has passed.
ThroughIsAhead ==
    session.state = "on" /\ cursorEpoch = epoch =>
        \A i \in Rows : i > session.through => i > cursor

AsksForCursor == session.state = "greeting" => toAgent = <<HelloFromClient>>

\* An identifier that was a row: it still is one, or retention has passed it.
Anchored(j) == j \in Rows \/ \A i \in Rows : j < i

HeldAreAnchored ==
    cursorEpoch = epoch =>
        /\ Anchored(cursor)
        /\ \A i \in AckIds \union GuiIds \union InboxIds : Anchored(i)

SentAreAnchored == Streams => \A i \in SentIds : Anchored(i)

Order ==
    /\ QueuesAscend /\ AheadOfCursor
    /\ AcksPrecede /\ AcksAreSent
    /\ ThroughIsAhead /\ AsksForCursor
    /\ HeldAreAnchored /\ SentAreAnchored

\* A table grows in every step but the one that replaces it.
LEMMA TableGrows ==
    ASSUME Assumptions, IInv, [Next]_vars, ~ReplaceDatabase
    PROVE  LogGrows
<1>1. SpoolAssumption BY DEF Assumptions
<1>2. CASE UNCHANGED <<log, pruned>> BY <1>2, LogUnchanged
<1>3. CASE DrainLine BY <1>1, <1>3, DrainStep
<1>4. CASE SpoolNext /\ ~DrainLine BY <1>1, <1>4, GrowingStep DEF Grows
<1>5. CASE Overflow BY <1>2, <1>5 DEF Overflow, Emits, stored
<1>6. CASE UNCHANGED spoolVars BY <1>2, <1>6 DEF spoolVars, stored
<1> QED BY <1>3, <1>4, <1>5, <1>6, StepOfSpool

\* Retention deletes a row only with those before it.
LEMMA AnchorsStay ==
    ASSUME IInv, LogGrows, NEW j \in 0 .. Len(log), Anchored(j)
    PROVE  Anchored(j)'
<1>1. /\ Len(log) \in Nat /\ pruned \in Nat
      /\ \A i \in Rows' : i \in Nat /\ (i \in Rows \/ i > Len(log))
  BY RowsAreNumbers, GrowthMovesRows DEF RowsMove
<1>2. CASE \A i \in Rows : j < i
  <2>1. \A i \in Rows' : j < i BY <1>1, <1>2
  <2> QED BY <2>1 DEF Anchored
<1>3. CASE j \in Rows
  <2>1. PICK n \in Nat, q \in Nat : n = Len(log') /\ q = pruned'
    <3>1. log' \in Seq(Events \union {Other}) /\ pruned' \in 0 .. Len(log')
      BY DEF LogGrows
    <3> QED BY <3>1
  <2>2. j \in 1 .. Len(log) /\ log[j] \in Events /\ j <= n
    <3>1. j \in Nat /\ 0 < j /\ j <= Len(log) BY <1>3, RowsAreNumbers
    <3> QED BY <1>1, <1>3, <2>1, <3>1 DEF LogGrows, Rows
  <2>3. log'[j] \in Events BY <2>2 DEF LogGrows
  <2>4. CASE q < j
    <3>1. j \in q + 1 .. n BY <2>2, <2>4
    <3> QED BY <2>1, <2>3, <3>1 DEF Anchored, Rows
  <2>5. CASE j <= q
    <3>1. \A i \in q + 1 .. n : j < i BY <2>2, <2>5
    <3> QED BY <2>1, <3>1 DEF Anchored, Rows
  <2> QED BY <2>2, <2>4, <2>5
<1> QED BY <1>2, <1>3 DEF Anchored

\* What was announced was a row.
LEMMA HeardIsAnchored ==
    ASSUME IInv, toHub # <<>>, Head(toHub).kind = "recorded"
    PROVE  Anchored(Head(toHub).id)
<1>1. PICK h \in Nat \ {0} : h = Head(toHub).id /\ h <= Len(log) BY HeardSignal
<1>2. log[h] \in Events
  <2>1. toHub \in Seq(Signals) BY DEF IInv, SpoolTypeOK
  <2>2. 1 \in DOMAIN toHub /\ Head(toHub) = toHub[1] BY <2>1
  <2> QED BY <1>1, <2>2 DEF IInv, SignalsAreRows
<1>3. PICK p \in Nat, n \in Nat : p = pruned /\ n = Len(log) BY RowsAreNumbers
<1>4. CASE p < h
  <2>1. h \in p + 1 .. n BY <1>1, <1>3, <1>4
  <2> QED BY <1>1, <1>2, <1>3, <2>1 DEF Anchored, Rows
<1>5. CASE h <= p
  <2>1. \A i \in p + 1 .. n : h < i BY <1>1, <1>5
  <2> QED BY <1>1, <1>3, <2>1 DEF Anchored, Rows
<1> QED BY <1>1, <1>3, <1>4, <1>5

\* The identifiers, by their places.
LEMMA IdsByPlace ==
    ASSUME TypeOK
    PROVE  /\ \A i : i \in SentIds <=>
                 \E k \in 1 .. Len(toClient) :
                     toClient[k].kind = "event" /\ toClient[k].id = i
           /\ \A i : i \in InboxIds <=> \E k \in 1 .. Len(inbox) : inbox[k].id = i
           /\ \A i : i \in GuiIds <=>
                 \E k \in 1 .. Len(gui) : gui[k].fresh /\ gui[k].id = i
           /\ \A i : i \in AckIds <=> \E k \in 1 .. Len(acks) : acks[k] = i
<1>1. /\ DOMAIN toClient = 1 .. Len(toClient) /\ DOMAIN inbox = 1 .. Len(inbox)
      /\ DOMAIN gui = 1 .. Len(gui) /\ DOMAIN acks = 1 .. Len(acks)
  BY DEF TypeOK
<1> QED
  BY <1>1 DEF SentIds, InboxIds, GuiIds, AckIds, IdsAt, EventFrames, FreshItems

\* ... and what they are.
LEMMA IdsAreNumbers ==
    ASSUME TypeOK
    PROVE  \A i \in SentIds \union InboxIds \union GuiIds \union AckIds : i \in Nat
<1>1. \A i \in SentIds : i \in Nat BY IdsByPlace, QueueElements
<1>2. \A i \in InboxIds : i \in Nat BY IdsByPlace, QueueElements
<1>3. \A i \in GuiIds : i \in Nat BY IdsByPlace, QueueElements
<1>4. \A i \in AckIds : i \in Nat BY IdsByPlace, QueueElements
<1> QED BY <1>1, <1>2, <1>3, <1>4

\* What is held of the table is within its length.
LEMMA IdsAreInTable ==
    ASSUME DInv
    PROVE  /\ cursorEpoch = epoch =>
                 \A i \in AckIds \union GuiIds \union InboxIds \union {cursor} :
                     i \in 0 .. Len(log)
           /\ Streams => \A i \in SentIds : i \in 0 .. Len(log)
<1>1. TypeOK BY DEF DInv, Base
<1>2. ASSUME cursorEpoch = epoch
      PROVE  \A i \in AckIds \union GuiIds \union InboxIds \union {cursor} :
                 i \in 0 .. Len(log)
  <2>1. cursor \in 0 .. Len(log) /\ \A k \in 1 .. Len(acks) : acks[k] \in 0 .. Len(log)
    BY <1>2 DEF DInv, Base, CursorIsSafe, Safe
  <2>2. \A k \in 1 .. Len(gui) : gui[k].fresh => gui[k].id \in 0 .. Len(log)
    BY <1>2 DEF DInv, Base, GuiIsCovered
  <2>3. \A k \in 1 .. Len(inbox) : inbox[k].id \in 0 .. Len(log)
    BY <1>2 DEF DInv, Base, InboxIsCovered
  <2>4. \A i \in AckIds : i \in 0 .. Len(log) BY <1>1, <2>1, IdsByPlace
  <2>5. \A i \in GuiIds : i \in 0 .. Len(log) BY <1>1, <2>2, IdsByPlace
  <2>6. \A i \in InboxIds : i \in 0 .. Len(log) BY <1>1, <2>3, IdsByPlace
  <2> QED BY <2>1, <2>4, <2>5, <2>6
<1>3. ASSUME Streams PROVE \A i \in SentIds : i \in 0 .. Len(log)
  BY <1>1, <1>3, IdsByPlace DEF DInv, Base, SentIsCovered
<1> QED BY <1>2, <1>3

\* What an Agent sends may be sent: it follows what was sent, in order, and is
\* of the table.
SendsInOrder ==
    \A k \in Len(toClient) + 1 .. Len(toClient') :
        toClient'[k].kind = "event" =>
            /\ session.state = "on"
            /\ toClient'[k].id > session.through /\ toClient'[k].id \in Nat
            /\ Anchored(toClient[k].id)'
            /\ \A l \in Len(toClient) + 1 .. Len(toClient') :
                  toClient'[l].kind = "event" /\ l < k =>
                      toClient'[l].id < toClient'[k].id

\* The queues, and what an Agent adds to them.
LEMMA SendingOrder ==
    ASSUME DInv, Order, AgentSends, Moves, LogGrows, SendsInOrder, TypeOK'
    PROVE  /\ QueuesAscend' /\ AcksPrecede' /\ AheadOfCursor'
           /\ HeldAreAnchored' /\ SentAreAnchored'
<1>1. TypeOK /\ IInv BY DEF DInv, Base
<1>2. /\ UNCHANGED <<gui, inbox, acks, cursor, cursorEpoch, linked, helloDone, epoch>>
      /\ GuiIds' = GuiIds /\ InboxIds' = InboxIds /\ AckIds' = AckIds
      /\ FreshItems' = FreshItems
  BY DEF AgentSends, Moves, client, durable, GuiIds, InboxIds, AckIds, IdsAt, FreshItems
<1>3. /\ Len(toClient) \in Nat /\ Len(toClient') \in Nat
      /\ Len(toClient) <= Len(toClient')
      /\ \A k \in 1 .. Len(toClient) : toClient'[k] = toClient[k]
      /\ DOMAIN toClient = 1 .. Len(toClient) /\ DOMAIN toClient' = 1 .. Len(toClient')
  BY <1>1 DEF AgentSends, TypeOK
<1>4. \A i \in SentIds' :
         \/ i \in SentIds
         \/ /\ session.state = "on" /\ i \in Nat /\ i > session.through
            /\ Anchored(i)'
  <2>1. SUFFICES ASSUME NEW i \in SentIds', i \notin SentIds
                 PROVE  /\ session.state = "on" /\ i \in Nat /\ i > session.through
                        /\ Anchored(i)'
    OBVIOUS
  <2>2. PICK k \in 1 .. Len(toClient') : toClient'[k].kind = "event" /\ toClient'[k].id = i
    BY <1>3, <2>1 DEF SentIds, IdsAt, EventFrames
  <2>3. k \in Len(toClient) + 1 .. Len(toClient')
    <3>1. ~(k <= Len(toClient)) BY <1>1, <1>3, <2>1, <2>2, IdsByPlace
    <3> QED BY <1>3, <3>1
  <2>4. Anchored(toClient[k].id)' BY <2>2, <2>3 DEF SendsInOrder
  <2>5. Anchored(i)' BY <2>2, <2>4 DEF Anchored
  <2> QED BY <2>2, <2>3, <2>5 DEF SendsInOrder
<1>5. \A i \in AckIds \union GuiIds \union InboxIds \union SentIds : i \in Nat
  BY <1>1, IdsAreNumbers
<1>6. session.state = "on" =>
         /\ session.through \in Nat
         /\ \A i \in AckIds \union GuiIds \union InboxIds \union SentIds :
               i <= session.through
  <2>1. SUFFICES ASSUME session.state = "on"
                 PROVE  /\ session.through \in Nat
                        /\ \A i \in AckIds : i <= session.through
                        /\ \A i \in GuiIds \union InboxIds \union SentIds :
                              i <= session.through
    OBVIOUS
  <2>2. SentThrough BY <2>1 DEF DInv, Base, SessionIsSafe
  <2>3. session.through \in Nat BY <1>1 DEF TypeOK
  <2>4. \A i \in GuiIds : i <= session.through BY <1>1, <2>2, IdsByPlace DEF SentThrough
  <2>5. \A i \in InboxIds : i <= session.through BY <1>1, <2>2, IdsByPlace DEF SentThrough
  <2>6. \A i \in SentIds : i <= session.through BY <1>1, <2>2, IdsByPlace DEF SentThrough
  <2> QED BY <2>1, <2>3, <2>4, <2>5, <2>6 DEF Order, AcksAreSent
<1>7. QueuesAscend'
  <2>1. Ascends(gui, FreshItems)' /\ Ascends(inbox, DOMAIN inbox)'
    BY <1>2 DEF Order, QueuesAscend, Ascends
  <2>2. Ascends(toClient, EventFrames)'
    <3>1. SUFFICES ASSUME NEW m \in 1 .. Len(toClient'), NEW n \in 1 .. Len(toClient'),
                          m < n, toClient'[m].kind = "event", toClient'[n].kind = "event"
                   PROVE  toClient'[m].id < toClient'[n].id
      BY <1>3 DEF Ascends, EventFrames
    <3>2. CASE n <= Len(toClient)
      <4>1. m \in EventFrames /\ n \in EventFrames BY <1>3, <3>1, <3>2 DEF EventFrames
      <4>2. m \in 1 .. Len(toClient) /\ n \in 1 .. Len(toClient) BY <1>3, <3>1, <3>2
      <4>3. toClient[m].id < toClient[n].id
        BY <3>1, <4>1 DEF Order, QueuesAscend, Ascends
      <4> QED BY <1>3, <4>2, <4>3
    <3>3. CASE ~(n <= Len(toClient))
      <4>1. n \in Len(toClient) + 1 .. Len(toClient') BY <1>3, <3>3
      <4>2. CASE m <= Len(toClient)
        <5>1. m \in 1 .. Len(toClient) BY <1>3, <4>2
        <5>2. toClient[m].id \in SentIds BY <1>1, <1>3, <3>1, <5>1, IdsByPlace
        <5>3. PICK a \in Nat : a = toClient[m].id BY <1>5, <5>2
        <5>4. PICK b \in Nat : b = toClient'[n].id BY <3>1, <4>1 DEF SendsInOrder
        <5>5. session.state = "on" /\ b > session.through
          BY <3>1, <4>1, <5>4 DEF SendsInOrder
        <5> QED BY <1>3, <1>6, <5>1, <5>2, <5>3, <5>4, <5>5
      <4>3. CASE ~(m <= Len(toClient))
        <5>1. m \in Len(toClient) + 1 .. Len(toClient') BY <1>3, <4>3
        <5> QED BY <3>1, <4>1, <5>1 DEF SendsInOrder
      <4> QED BY <4>2, <4>3
    <3> QED BY <3>2, <3>3
  <2>3. Precede(GuiIds, InboxIds \union SentIds)' /\ Precede(InboxIds, SentIds)'
    BY <1>2, <1>4, <1>5, <1>6 DEF Order, QueuesAscend, Precede
  <2> QED BY <2>1, <2>2, <2>3 DEF QueuesAscend
<1>8. AcksPrecede'
  BY <1>2, <1>4, <1>5, <1>6 DEF Order, AcksPrecede, Precede, InFlight
<1>9. AheadOfCursor'
  <2>1. SUFFICES ASSUME cursorEpoch = epoch, linked,
                        NEW i \in Rows', i \in GuiIds \union InboxIds \union SentIds'
                 PROVE  i > cursor
    BY <1>2 DEF AheadOfCursor, InFlight
  <2>2. i \in Nat /\ (i \in Rows \/ i > Len(log)) /\ Len(log) \in Nat
    BY <1>1, GrowthMovesRows, RowsAreNumbers DEF RowsMove
  <2>3. cursor \in 0 .. Len(log) BY <2>1, IdsAreInTable
  <2>4. CASE i > Len(log) BY <2>2, <2>3, <2>4
  <2>5. CASE i \in Rows
    BY <1>4, <2>1, <2>5 DEF Order, AheadOfCursor, InFlight, ThroughIsAhead
  <2> QED BY <2>2, <2>4, <2>5
<1>10. HeldAreAnchored'
  <2>1. SUFFICES ASSUME cursorEpoch = epoch,
                        NEW i \in AckIds \union GuiIds \union InboxIds \union {cursor}
                 PROVE  Anchored(i)'
    <3>1. \A i \in {cursor} : Anchored(i)' => Anchored(cursor)' BY <1>2 DEF Anchored
    <3> QED BY <1>2, <3>1 DEF HeldAreAnchored
  <2>2. Anchored(i) BY <2>1 DEF Order, HeldAreAnchored
  <2>3. i \in 0 .. Len(log) BY <2>1, IdsAreInTable
  <2> QED BY <1>1, <2>2, <2>3, AnchorsStay
<1>11. SentAreAnchored'
  <2>1. SUFFICES ASSUME Streams', NEW i \in SentIds' PROVE Anchored(i)'
    BY DEF SentAreAnchored
  <2>2. CASE i \notin SentIds BY <1>4, <2>1, <2>2
  <2>3. CASE i \in SentIds
    <3>1. Streams
      BY <1>2, <1>3, <2>1 DEF Streams
    <3>2. Anchored(i) BY <2>3, <3>1 DEF Order, SentAreAnchored
    <3>3. i \in 0 .. Len(log) BY <2>3, <3>1, IdsAreInTable
    <3> QED BY <1>1, <3>2, <3>3, AnchorsStay
  <2> QED BY <2>2, <2>3
<1> QED BY <1>7, <1>8, <1>9, <1>10, <1>11

\* A step that sends no event.
LEMMA NoEventSent ==
    ASSUME \A k \in Len(toClient) + 1 .. Len(toClient') : toClient'[k].kind = "hello"
    PROVE  SendsInOrder
BY DEF SendsInOrder

\* A page is sent in order.
LEMMA PageInOrder ==
    ASSUME Assumptions, DInv, ReadPage, {i \in Rows : i > session.through} # {}
    PROVE  SendsInOrder
<1>1. TypeOK /\ IInv /\ session.state = "on" BY DEF DInv, Base, TypeOK, ReadPage
<1> DEFINE rows == {i \in Rows : i > session.through}
<1>0. PICK n \in 1 .. PageSize : \E page \in [1 .. n -> rows] :
         /\ IsPage(page, rows)
         /\ n \in Nat \ {0}
         /\ Len(toClient') = Len(toClient) + n /\ Len(toClient) \in Nat
         /\ \A k \in 1 .. n : toClient'[Len(toClient) + k] = EventFrame(page[k])
  BY <1>1, PageElements
<1>2. PICK page \in [1 .. n -> rows] :
         /\ IsPage(page, rows)
         /\ n \in Nat \ {0}
         /\ Len(toClient') = Len(toClient) + n /\ Len(toClient) \in Nat
         /\ \A k \in 1 .. n : toClient'[Len(toClient) + k] = EventFrame(page[k])
  BY <1>0
<1>3. Rows' = Rows BY DEF ReadPage, Rows, spoolVars, stored
<1>4. ASSUME NEW k \in Len(toClient) + 1 .. Len(toClient')
      PROVE  /\ k - Len(toClient) \in 1 .. n
             /\ toClient'[k].id = page[k - Len(toClient)]
  <2>1. k - Len(toClient) \in 1 .. n /\ Len(toClient) + (k - Len(toClient)) = k
    BY <1>2
  <2>2. toClient'[k] = EventFrame(page[k - Len(toClient)]) BY <1>2, <2>1
  <2> QED BY <2>1, <2>2 DEF EventFrame
<1>5. SUFFICES ASSUME NEW k \in Len(toClient) + 1 .. Len(toClient')
               PROVE  /\ toClient'[k].id > session.through /\ toClient'[k].id \in Nat
                      /\ Anchored(toClient[k].id)'
                      /\ \A l \in Len(toClient) + 1 .. Len(toClient') :
                            l < k => toClient'[l].id < toClient'[k].id
  BY <1>1 DEF SendsInOrder
<1>6. page[k - Len(toClient)] \in rows BY <1>2, <1>4
<1>7. toClient'[k].id \in Rows /\ toClient'[k].id > session.through BY <1>4, <1>6
<1>8. toClient'[k].id \in Nat BY <1>1, <1>7, RowsAreNumbers
<1>9. Anchored(toClient[k].id)' BY <1>3, <1>7 DEF Anchored
<1>10. ASSUME NEW l \in Len(toClient) + 1 .. Len(toClient'), l < k
       PROVE  toClient'[l].id < toClient'[k].id
  <2>1. l - Len(toClient) \in 1 .. n /\ toClient'[l].id = page[l - Len(toClient)]
    BY <1>4
  <2>2. l - Len(toClient) < k - Len(toClient) BY <1>2, <1>10
  <2>3. page[l - Len(toClient)] < page[k - Len(toClient)]
    BY <1>2, <1>4, <2>1, <2>2 DEF IsPage
  <2> QED BY <1>4, <2>1, <2>3
<1> QED BY <1>7, <1>8, <1>9, <1>10

\* A row that is broadcast follows what was sent.
LEMMA BroadcastInOrder ==
    ASSUME DInv, HearRecorded
    PROVE  SendsInOrder
<1>1. TypeOK /\ IInv BY DEF DInv, Base
<1>2. PICK h \in Nat \ {0} : h = Head(toHub).id BY <1>1, HeardSignal DEF HearRecorded
<1>3. Rows' = Rows /\ Anchored(h)
  BY <1>1, <1>2, HeardIsAnchored DEF HearRecorded, Rows, stored
<1>4. CASE ~IsBroadcast(h)
  <2>1. toClient' = toClient /\ Len(toClient) \in Nat
    BY <1>1, <1>2, <1>4 DEF HearRecorded, TypeOK
  <2>2. \A k \in Len(toClient) + 1 .. Len(toClient') : FALSE BY <2>1
  <2> QED BY <2>2 DEF SendsInOrder
<1>5. CASE IsBroadcast(h)
  <2>1. toClient' = Append(toClient, EventFrame(h))
    BY <1>2, <1>5 DEF HearRecorded
  <2>2. /\ Len(toClient') = Len(toClient) + 1 /\ Len(toClient) \in Nat
        /\ toClient'[Len(toClient) + 1] = EventFrame(h)
    BY <1>1, <2>1, SentElements
  <2>3. \A k \in Len(toClient) + 1 .. Len(toClient') : k = Len(toClient) + 1
    BY <2>2
  <2>4. \A k \in Len(toClient) + 1 .. Len(toClient') : toClient'[k].id = h
    BY <2>2, <2>3 DEF EventFrame
  <2>5. ASSUME NEW k \in Len(toClient) + 1 .. Len(toClient')
        PROVE  Anchored(toClient[k].id)'
    BY <1>3, <2>4 DEF Anchored
  <2>6. session.state = "on" /\ h > session.through BY <1>5 DEF IsBroadcast
  <2>7. \A k, l \in Len(toClient) + 1 .. Len(toClient') : ~(l < k) BY <2>2, <2>3
  <2> QED BY <2>4, <2>5, <2>6, <2>7 DEF SendsInOrder
<1> QED BY <1>4, <1>5

\* Every step of the Agent sends in order.
LEMMA AgentSendsInOrder ==
    ASSUME Assumptions, DInv, AgentSide
    PROVE  SendsInOrder
<1>1. TypeOK /\ IInv BY DEF DInv, Base
<1>2. CASE UNCHANGED toClient
  <2>1. Len(toClient) \in Nat /\ Len(toClient') = Len(toClient) BY <1>1, <1>2 DEF TypeOK
  <2>2. \A k \in Len(toClient) + 1 .. Len(toClient') : FALSE BY <2>1
  <2> QED BY <2>2 DEF SendsInOrder
<1>3. ASSUME NEW m, m.kind = "hello", toClient' = Append(toClient, m)
      PROVE  SendsInOrder
  <2>1. /\ Len(toClient') = Len(toClient) + 1 /\ Len(toClient) \in Nat
        /\ toClient'[Len(toClient) + 1] = m
    BY <1>1, <1>3, SentElements
  <2>2. \A k \in Len(toClient) + 1 .. Len(toClient') : k = Len(toClient) + 1 BY <2>1
  <2> QED BY <1>3, <2>1, <2>2, NoEventSent
<1>4. CASE Overflow \/ HearStatus
  <2>1. \/ UNCHANGED toClient
        \/ toClient' = Append(toClient, CachedHello)
    BY <1>4 DEF Overflow, HearStatus, SendHello
  <2>2. CachedHello.kind = "hello" BY DEF CachedHello, HelloFromAgent
  <2> QED BY <1>2, <1>3, <2>1, <2>2
<1>5. CASE Greet
  <2>1. toClient' = Append(toClient, HelloFromAgent(Floor, High)) BY <1>5 DEF Greet
  <2>2. HelloFromAgent(Floor, High).kind = "hello" BY DEF HelloFromAgent
  <2> QED BY <1>3, <2>1, <2>2
<1>6. CASE ReadPage
  <2>1. CASE {i \in Rows : i > session.through} = {}
    BY <1>2, <1>6, <2>1 DEF ReadPage
  <2> QED BY <1>6, <2>1, PageInOrder
<1>7. CASE HearRecorded BY <1>7, BroadcastInOrder
<1>8. CASE \/ Start \/ Crash \/ Write \/ (\E e \in Events : Emit(e)) \/ ReadBounds
           \/ TakeAck \/ AgentEnds \/ Misreads \/ UNCHANGED vars
  BY <1>2, <1>8, MisreadsAlone
  DEF Start, Crash, Write, Emit, ReadBounds, TakeAck, AgentEnds, AgentDrops,
      GreetUnreadable, vars, deliveryVars, wire
<1> QED BY <1>4, <1>5, <1>6, <1>7, <1>8 DEF AgentSide, AgentStep, Misreads

\* What an Agent knows of its client, as long as the session goes on.
SessionOrder == AcksAreSent' /\ ThroughIsAhead' /\ AsksForCursor'

LEMMA SessionGoesOn ==
    ASSUME DInv, Order, TypeOK', UNCHANGED client, Moves,
           session'.state = "on" =>
               session.state = "on" /\ session.through <= session'.through,
           session'.state = "greeting" =>
               session.state = "greeting" /\ UNCHANGED toAgent
    PROVE  SessionOrder
<1>1. /\ UNCHANGED <<acks, cursor, cursorEpoch, epoch>> /\ AckIds' = AckIds
      /\ HelloFromClient' = HelloFromClient
  BY DEF client, durable, AckIds, Moves, HelloFromClient
<1>2. session.through \in Nat /\ session'.through \in Nat /\ cursor \in Nat
  BY DEF DInv, Base, TypeOK
<1>3. AcksAreSent'
  <2>1. \A i \in AckIds : i \in Nat BY IdsAreNumbers DEF DInv, Base
  <2> QED BY <1>1, <1>2, <2>1 DEF Order, AcksAreSent
<1>4. ThroughIsAhead'
  <2>1. SUFFICES ASSUME session'.state = "on", cursorEpoch = epoch,
                        NEW i \in Rows', i > session'.through
                 PROVE  i > cursor
    BY <1>1 DEF ThroughIsAhead
  <2>2. i \in Nat /\ (i \in Rows \/ i > Len(log)) /\ Len(log) \in Nat
    BY MovesKeep DEF DInv, Base
  <2>3. CASE i \in Rows BY <1>2, <2>1, <2>2, <2>3 DEF Order, ThroughIsAhead
  <2>4. CASE i > Len(log)
    <3>1. cursor \in 0 .. Len(log) BY <2>1, IdsAreInTable
    <3> QED BY <2>2, <2>4, <3>1
  <2> QED BY <2>2, <2>3, <2>4
<1>5. AsksForCursor' BY <1>1 DEF Order, AsksForCursor
<1> QED BY <1>3, <1>4, <1>5 DEF SessionOrder

\* The session that answers a hello begins at the client's cursor.
LEMMA GreetOrder ==
    ASSUME DInv, Order, Greet
    PROVE  SessionOrder
<1>1. TypeOK /\ IInv /\ Links BY DEF DInv, Base
<1>2. /\ session.state = "greeting" /\ session'.state = "on"
      /\ session'.through = NotBelow(Floor, RequestedCursor(Head(toAgent), High))
      /\ UNCHANGED <<log, pruned, epoch, acks, cursor, cursorEpoch>>
  BY DEF Greet, spoolVars, stored, client, durable
<1>3. Rows' = Rows BY <1>2 DEF Rows
<1>4. AcksAreSent'
  <2>1. acks = <<>> BY <1>1, <1>2 DEF Links
  <2>2. AckIds' = {} BY <1>2, <2>1 DEF AckIds
  <2> QED BY <2>2 DEF AcksAreSent
<1>5. ThroughIsAhead'
  <2>1. SUFFICES ASSUME cursorEpoch = epoch, NEW i \in Rows, i > session'.through
                 PROVE  i > cursor
    BY <1>2, <1>3 DEF ThroughIsAhead
  <2>2. Head(toAgent).id = cursor /\ Head(toAgent).epoch = cursorEpoch
    <3>1. toAgent = <<HelloFromClient>> BY <1>2 DEF Order, AsksForCursor
    <3> QED BY <3>1 DEF HelloFromClient
  <2>3. /\ Floor \in Nat /\ High \in Nat /\ i <= High /\ i \in Nat /\ cursor \in Nat
        /\ \A j \in Rows : j <= High /\ j \in Nat
    BY <1>1, <2>1, BoundsOfTable, RowsAreNumbers DEF TypeOK
  <2>4. CASE cursor <= High
    <3>1. session'.through = NotBelow(Floor, cursor)
      BY <1>2, <2>1, <2>2, <2>4 DEF RequestedCursor
    <3> QED BY <2>1, <2>3, <3>1 DEF NotBelow
  <2>5. CASE ~(cursor <= High)
    <3>1. cursor \notin Rows BY <2>3, <2>5
    <3> QED BY <2>1, <3>1 DEF Order, HeldAreAnchored, Anchored
  <2> QED BY <2>4, <2>5
<1>6. AsksForCursor' BY <1>2 DEF AsksForCursor
<1> QED BY <1>4, <1>5, <1>6 DEF SessionOrder

\* Every step of the Agent keeps the order.
LEMMA AgentOrder ==
    ASSUME Assumptions, DInv, TypeOK', Order, [Next]_vars, ~ReplaceDatabase, AgentSide
    PROVE  Order'
<1>1. TypeOK /\ IInv /\ Links BY DEF DInv, Base
<1>2. AgentSends /\ Moves BY <1>1, AgentSideSends, StepMoves
<1>3. LogGrows BY <1>1, TableGrows
<1>4. SendsInOrder BY AgentSendsInOrder
<1>5. SessionOrder
  <2>1. UNCHANGED client /\ session.through \in Nat BY <1>1, <1>2 DEF AgentSends, TypeOK
  <2>2. CASE UNCHANGED <<session, toAgent>> BY <1>2, <2>1, <2>2, SessionGoesOn
  <2>3. CASE session'.state = "off" BY <1>2, <2>1, <2>3, SessionGoesOn
  <2>4. ASSUME session'.state = "on", session.state = "on",
               session.through <= session'.through
        PROVE  SessionOrder
    BY <1>2, <2>1, <2>4, SessionGoesOn
  <2>5. CASE Greet BY <2>5, GreetOrder
  <2>6. CASE ReadBounds
    <3>1. session.state = "on" BY <1>1, <2>6 DEF ReadBounds, TypeOK
    <3>2. Floor \in Nat BY <1>1, BoundsOfTable
    <3>3. PICK after \in Nat : after = NotBelow(Floor, session.through)
                              /\ session.through <= after
      BY <2>1, <3>2 DEF NotBelow
    <3>4. session'.state = "on" /\ session.through <= session'.through
      BY <1>1, <2>1, <2>6, <3>1, <3>3 DEF ReadBounds, TypeOK
    <3> QED BY <2>4, <3>1, <3>4
  <2>7. CASE ReadPage
    <3>1. session.state = "on" BY <1>1, <2>7 DEF ReadPage, TypeOK
    <3>2. CASE {i \in Rows : i > session.through} = {}
      <4>1. session'.state = "on" /\ session'.through = session.through
        BY <1>1, <2>7, <3>1, <3>2 DEF ReadPage, TypeOK
      <4> QED BY <2>1, <2>4, <3>1, <4>1
    <3>3. CASE {i \in Rows : i > session.through} # {}
      <4>1. PICK i \in Rows :
               /\ i > session.through
               /\ session' = [session EXCEPT !.replaying = TRUE, !.through = i]
        <5>1. \A n \in Nat \ {0} :
              \A page \in [1 .. n -> {i \in Rows : i > session.through}] :
                 page[n] \in Rows /\ page[n] > session.through
          OBVIOUS
        <5> QED BY <1>1, <2>7, <3>3, <5>1, PageElements
      <4>2. session'.state = "on" /\ session'.through = i
        BY <1>1, <3>1, <4>1 DEF TypeOK
      <4>3. i \in Nat BY <1>1, RowsAreNumbers
      <4> QED BY <2>1, <2>4, <3>1, <4>1, <4>2, <4>3
    <3> QED BY <3>2, <3>3
  <2>8. CASE HearRecorded
    <3>1. PICK h \in Nat : h = Head(toHub).id BY <1>1, <2>8, HeardSignal DEF HearRecorded
    <3>2. CASE IsBroadcast(h)
      <4>1. session' = [session EXCEPT !.through = h] BY <2>8, <3>1, <3>2 DEF HearRecorded
      <4>2. session.state = "on" /\ session'.state = "on" /\ session'.through = h
        BY <1>1, <3>2, <4>1 DEF IsBroadcast, TypeOK
      <4>3. session.through <= session'.through BY <2>1, <3>2, <4>2 DEF IsBroadcast
      <4> QED BY <2>4, <4>2, <4>3
    <3>3. CASE ~IsBroadcast(h)
      BY <2>2, <2>8, <3>1, <3>3 DEF HearRecorded
    <3> QED BY <3>2, <3>3
  <2>9. CASE TakeAck
    <3>1. session.state = "on" /\ session'.state = "on"
          /\ session'.through = session.through
      BY <1>1, <2>9 DEF TakeAck, TypeOK
    <3> QED BY <2>1, <2>4, <3>1
  <2>10. CASE Start
    BY <1>1, <2>3, <2>10 DEF Start, StartWriter, Links
  <2>11. CASE Crash \/ AgentEnds
    BY <2>3, <2>11 DEF Crash, AgentEnds, AgentDrops, GreetUnreadable, Cut, NoSession
  <2>12. CASE \/ Write \/ (\E e \in Events : Emit(e)) \/ Overflow \/ HearStatus
              \/ Misreads \/ UNCHANGED vars
    BY <2>2, <2>12, MisreadsAlone
    DEF Write, Emit, Overflow, HearStatus, vars, deliveryVars, hub, wire
  <2> QED
    BY <2>5, <2>6, <2>7, <2>8, <2>9, <2>10, <2>11, <2>12
    DEF AgentSide, AgentStep, Misreads
<1> QED
  BY <1>2, <1>3, <1>4, <1>5, SendingOrder DEF Order, SessionOrder

\* When nothing that was received is held, there is nothing to order.
LEMMA NothingHeld ==
    ASSUME GuiIds' = {}, InboxIds' = {}, AckIds' = {}, SentIds' = {}, TypeOK'
    PROVE  QueuesAscend' /\ AheadOfCursor' /\ AcksPrecede' /\ AcksAreSent'
           /\ SentAreAnchored'
<1>1. FreshItems' = {} /\ EventFrames' = {} /\ (DOMAIN inbox)' = {}
  BY DEF GuiIds, SentIds, InboxIds, IdsAt
<1>2. QueuesAscend' BY <1>1 DEF QueuesAscend, Ascends, Precede
<1>3. AheadOfCursor' /\ AcksPrecede' BY DEF AheadOfCursor, AcksPrecede, InFlight, Precede
<1> QED BY <1>2, <1>3 DEF AcksAreSent, SentAreAnchored

\* Items that will not be acknowledged, and queues that are empty.
LEMMA EmptyIds ==
    ASSUME TypeOK
    PROVE  /\ toClient' = <<>> => SentIds' = {} /\ EventFrames' = {}
           /\ inbox' = <<>> => InboxIds' = {} /\ DOMAIN inbox' = {}
           /\ acks' = <<>> => AckIds' = {}
           /\ gui' = <<>> \/ gui' = Stale(gui) => GuiIds' = {} /\ FreshItems' = {}
<1>1. DOMAIN Stale(gui) = DOMAIN gui /\ \A k \in DOMAIN gui : ~Stale(gui)[k].fresh
  <2>1. Len(Stale(gui)) = Len(gui) /\ Stale(gui) \in Seq(Items)
        /\ \A k \in 1 .. Len(gui) : Stale(gui)[k].fresh = FALSE
    BY StaleItems
  <2>2. DOMAIN gui = 1 .. Len(gui) BY DEF TypeOK
  <2> QED BY <2>1, <2>2
<1>2. gui' = <<>> \/ gui' = Stale(gui) => FreshItems' = {} BY <1>1 DEF FreshItems
<1> QED BY <1>2 DEF SentIds, InboxIds, AckIds, GuiIds, IdsAt, EventFrames

\* A cut connection leaves what waits in the client, a new one nothing.
LEMMA ConnectionOrder ==
    ASSUME DInv, TypeOK', Order, ConnectionStep, ~AgentEnds
    PROVE  Order'
<1>1. TypeOK /\ Links BY DEF DInv, Base
<1>2. /\ UNCHANGED <<log, pruned, epoch, cursor, cursorEpoch>>
      /\ toClient' = <<>> /\ session'.state # "on"
  BY <1>1
  DEF ConnectionStep, AgentEnds, ClientDrops, UIQuits, ClientNotices, Connect, Cut,
      NoSession, spoolVars, stored, durable, hub
<1>3. Rows' = Rows /\ SentIds' = {} /\ EventFrames' = {}
  BY <1>1, <1>2, EmptyIds DEF Rows
<1>4. \A i : Anchored(i)' <=> Anchored(i) BY <1>3 DEF Anchored
<1>5. /\ AcksAreSent' /\ ThroughIsAhead' /\ SentAreAnchored'
  BY <1>2, <1>3 DEF AcksAreSent, ThroughIsAhead, SentAreAnchored
<1>6. Anchored(cursor) => Anchored(cursor)' BY <1>2, <1>4 DEF Anchored
<1>7. CASE UNCHANGED <<inbox, gui, acks>> /\ ~linked' /\ session'.state = "off"
  <2>1. /\ InboxIds' = InboxIds /\ GuiIds' = GuiIds /\ AckIds' = AckIds
        /\ FreshItems' = FreshItems
    BY <1>7 DEF InboxIds, GuiIds, AckIds, IdsAt, FreshItems
  <2>2. QueuesAscend'
    BY <1>3, <1>7, <2>1 DEF Order, QueuesAscend, Ascends, Precede
  <2>3. AcksPrecede' BY <1>3, <2>1 DEF Order, AcksPrecede, InFlight, Precede
  <2>4. AheadOfCursor' /\ AsksForCursor' BY <1>7 DEF AheadOfCursor, AsksForCursor
  <2>5. HeldAreAnchored' BY <1>2, <1>4, <1>6, <2>1 DEF Order, HeldAreAnchored
  <2> QED BY <1>5, <2>2, <2>3, <2>4, <2>5 DEF Order
<1>8. CASE /\ inbox' = <<>> /\ acks' = <<>>
           /\ gui' = <<>> \/ gui' = Stale(gui)
           /\ AsksForCursor'
  <2>1. InboxIds' = {} /\ AckIds' = {} /\ GuiIds' = {} BY <1>1, <1>8, EmptyIds
  <2>2. HeldAreAnchored' BY <1>2, <1>6, <2>1 DEF Order, HeldAreAnchored
  <2> QED BY <1>3, <1>5, <1>8, <2>1, <2>2, NothingHeld DEF Order
<1>9. CASE ClientDrops \/ ClientNotices
  <2>1. UNCHANGED <<inbox, gui, acks>> /\ ~linked' /\ session'.state = "off"
    BY <1>9 DEF ClientDrops, ClientNotices, Cut, NoSession, hub
  <2> QED BY <1>7, <2>1
<1>10. CASE UIQuits
  <2>1. session'.state = "off" BY <1>10 DEF UIQuits, Cut, NoSession
  <2> QED BY <1>8, <1>10, <2>1 DEF UIQuits, AsksForCursor
<1>11. CASE Connect
  <2>1. toAgent' = <<HelloFromClient>> /\ HelloFromClient' = HelloFromClient
    BY <1>2, <1>11 DEF Connect, HelloFromClient
  <2> QED BY <1>8, <1>11, <2>1 DEF Connect, AsksForCursor
<1> QED BY <1>9, <1>10, <1>11 DEF ConnectionStep, AgentEnds

\* Nothing that is in flight is of a table that replaces another.
LEMMA ReplacedOrder ==
    ASSUME DInv, DInv', Order, ReplaceDatabase
    PROVE  Order'
<1>1. TypeOK /\ Links /\ Links' BY DEF DInv, Base
<1>2. /\ ~up /\ epoch' = epoch + 1
      /\ UNCHANGED <<session, toClient, cursor, cursorEpoch, inbox, gui, acks,
                     linked, helloDone>>
  BY DEF ReplaceDatabase, hub, wire, client, durable
<1>3. session'.state = "off" BY <1>1, <1>2 DEF Links
<1>4. cursorEpoch' # epoch' BY <1>1, <1>2 DEF TypeOK
<1>5. QueuesAscend' /\ AcksPrecede'
  <2>1. /\ InboxIds' = InboxIds /\ GuiIds' = GuiIds /\ AckIds' = AckIds
        /\ SentIds' = SentIds /\ FreshItems' = FreshItems /\ EventFrames' = EventFrames
    BY <1>2 DEF InboxIds, GuiIds, AckIds, SentIds, IdsAt, FreshItems, EventFrames
  <2>2. QueuesAscend' BY <1>2, <2>1 DEF Order, QueuesAscend, Ascends
  <2>3. AcksPrecede' BY <2>1 DEF Order, AcksPrecede, InFlight
  <2> QED BY <2>2, <2>3
<1>6. SentAreAnchored'
  <2>1. SUFFICES ASSUME Streams' PROVE SentIds' = {} BY DEF SentAreAnchored
  <2>2. linked' /\ ~helloDone' BY <1>1, <1>2, <1>4, <2>1 DEF Streams, TypeOK
  <2>3. toClient # <<>> =>
           toClient[1].kind = "hello" /\ toClient[1].epoch \in 1 .. epoch
           /\ 1 \in 1 .. Len(toClient)
    BY <1>1, <1>2, <2>2, QueueHeads, QueueElements DEF Links
  <2>4. toClient = <<>>
    <3>1. epoch \in Nat BY <1>1 DEF TypeOK
    <3>2. toClient # <<>> => toClient[1].epoch = epoch + 1
      BY <1>2, <2>1, <2>3 DEF Streams
    <3> QED BY <2>3, <3>1, <3>2
  <2> QED BY <1>1, <1>2, <2>4, EmptyIds
<1> QED
  BY <1>3, <1>4, <1>5, <1>6
  DEF Order, AheadOfCursor, AcksAreSent, ThroughIsAhead, AsksForCursor, HeldAreAnchored

\* At the beginning nothing is in flight.
LEMMA InitOrder ==
    ASSUME Init
    PROVE  Order
<1>1. /\ toClient = <<>> /\ gui = <<>> /\ inbox = <<>> /\ acks = <<>>
      /\ session.state = "off" /\ ~linked /\ cursorEpoch # epoch
  BY DEF Init, NoSession
<1>2. /\ InboxIds = {} /\ GuiIds = {} /\ AckIds = {} /\ SentIds = {}
      /\ FreshItems = {} /\ EventFrames = {} /\ DOMAIN inbox = {}
  BY <1>1 DEF InboxIds, GuiIds, AckIds, SentIds, IdsAt, FreshItems, EventFrames
<1>3. QueuesAscend BY <1>2 DEF QueuesAscend, Ascends, Precede
<1>4. AcksPrecede BY <1>2 DEF AcksPrecede, Precede
<1> QED
  BY <1>1, <1>2, <1>3, <1>4
  DEF Order, AheadOfCursor, AcksAreSent, ThroughIsAhead, AsksForCursor,
      HeldAreAnchored, SentAreAnchored

\* What is sent, after a message was taken.
LEMMA TakenIds ==
    ASSUME TypeOK, TypeOK', toClient # <<>>, toClient' = Tail(toClient),
           Ascends(toClient, EventFrames)
    PROVE  /\ SentIds' \subseteq SentIds
           /\ Ascends(toClient, EventFrames)'
           /\ Head(toClient).kind = "event" =>
                /\ Head(toClient).id \in SentIds
                /\ \A i \in SentIds' : Head(toClient).id < i
<1>1. /\ Len(toClient) \in Nat /\ Len(toClient') \in Nat
      /\ Len(toClient) = Len(toClient') + 1
      /\ \A k \in 1 .. Len(toClient') : toClient'[k] = toClient[k + 1]
      /\ Head(toClient) = toClient[1] /\ 1 \in 1 .. Len(toClient)
  BY OneTaken
<1>2. \A k \in 1 .. Len(toClient') : k + 1 \in 1 .. Len(toClient) BY <1>1
<1>3. /\ DOMAIN toClient = 1 .. Len(toClient)
      /\ DOMAIN toClient' = 1 .. Len(toClient')
  BY DEF TypeOK
<1>4. \A m, n \in 1 .. Len(toClient) :
         /\ m < n
         /\ toClient[m].kind = "event" /\ toClient[n].kind = "event"
         => toClient[m].id < toClient[n].id
  BY <1>3 DEF Ascends, EventFrames
<1>5. ASSUME NEW i \in SentIds'
      PROVE  /\ i \in SentIds
             /\ Head(toClient).kind = "event" => Head(toClient).id < i
  <2>1. PICK k \in 1 .. Len(toClient') : toClient'[k].kind = "event" /\ toClient'[k].id = i
    BY <1>3, <1>5 DEF SentIds, IdsAt, EventFrames
  <2>2. toClient[k + 1].kind = "event" /\ toClient[k + 1].id = i BY <1>1, <2>1
  <2>3. 1 < k + 1 BY <1>1
  <2> QED BY <1>1, <1>2, <1>4, <2>2, <2>3, IdsByPlace
<1>6. Ascends(toClient, EventFrames)'
  <2>1. SUFFICES ASSUME NEW m \in 1 .. Len(toClient'), NEW n \in 1 .. Len(toClient'),
                        m < n, toClient'[m].kind = "event", toClient'[n].kind = "event"
                 PROVE  toClient'[m].id < toClient'[n].id
    BY <1>3 DEF Ascends, EventFrames
  <2>2. m + 1 < n + 1 BY <1>1, <2>1
  <2> QED BY <1>1, <1>2, <1>4, <2>1, <2>2
<1> QED BY <1>1, <1>5, <1>6, IdsByPlace

\* A hello that is taken.
LEMMA TakesHelloOrder ==
    ASSUME DInv, TypeOK', Order, ClientTakesHello
    PROVE  Order'
<1>1. TypeOK /\ IInv /\ Links BY DEF DInv, Base
<1> DEFINE m == Head(toClient)
<1>2. /\ linked /\ toClient # <<>> /\ toClient' = Tail(toClient) /\ m.kind = "hello"
      /\ cursorEpoch' = m.epoch
      /\ UNCHANGED <<log, pruned, epoch, session, toAgent, linked>>
      /\ m = toClient[1] /\ 1 \in 1 .. Len(toClient)
  BY <1>1, QueueHeads DEF ClientTakesHello, spoolVars, stored, hub
<1>3. /\ SentIds' \subseteq SentIds /\ Ascends(toClient, EventFrames)'
  BY <1>1, <1>2, TakenIds DEF Order, QueuesAscend
<1>4. Rows' = Rows /\ \A i \in Rows : i \in Nat /\ 0 < i
  BY <1>1, <1>2, RowsAreNumbers DEF Rows
<1>5. \A i : Anchored(i)' <=> Anchored(i) BY <1>4 DEF Anchored
<1>6. AsksForCursor' BY <1>1, <1>2 DEF Links, AsksForCursor
<1>7. Streams' => Streams BY TakesHelloMoves DEF ClientMoves
<1>8. SentAreAnchored' BY <1>3, <1>5, <1>7 DEF Order, SentAreAnchored
<1>9. CASE CursorInvalid(m)
  <2>1. cursor' = 0 /\ inbox' = <<>> /\ gui' = Stale(gui) /\ acks' = <<>>
    BY <1>9 DEF ClientTakesHello
  <2>2. /\ InboxIds' = {} /\ AckIds' = {} /\ GuiIds' = {} /\ FreshItems' = {}
        /\ DOMAIN inbox' = {}
    BY <1>1, <2>1, EmptyIds
  <2>3. QueuesAscend' BY <1>3, <2>2 DEF QueuesAscend, Ascends, Precede
  <2>4. AcksPrecede' /\ AcksAreSent' BY <2>2 DEF AcksPrecede, AcksAreSent, Precede
  <2>5. AheadOfCursor' /\ ThroughIsAhead'
    BY <1>4, <2>1 DEF AheadOfCursor, ThroughIsAhead
  <2>6. HeldAreAnchored'
    <3>1. \A i \in Rows' : 0 < i BY <1>4
    <3> QED BY <2>1, <2>2, <3>1 DEF HeldAreAnchored, Anchored
  <2> QED BY <1>6, <1>8, <2>3, <2>4, <2>5, <2>6 DEF Order
<1>10. CASE ~CursorInvalid(m)
  <2>1. /\ cursorEpoch' = cursorEpoch /\ cursor' = NotBelow(m.floor, cursor)
        /\ UNCHANGED <<inbox, gui, acks>>
    BY <1>2, <1>10 DEF ClientTakesHello, CursorInvalid
  <2>2. /\ InboxIds' = InboxIds /\ GuiIds' = GuiIds /\ AckIds' = AckIds
        /\ FreshItems' = FreshItems
    BY <2>1 DEF InboxIds, GuiIds, AckIds, IdsAt, FreshItems
  <2>3. InFlight' \subseteq InFlight BY <1>3, <2>2 DEF InFlight
  <2>4. QueuesAscend'
    BY <1>3, <2>1, <2>2 DEF Order, QueuesAscend, Ascends, Precede
  <2>5. AcksPrecede' /\ AcksAreSent'
    BY <1>2, <2>2, <2>3 DEF Order, AcksPrecede, AcksAreSent, Precede
  <2>6. cursorEpoch = epoch => \A i \in Rows : i > cursor => i > cursor'
    <3>1. SUFFICES ASSUME cursorEpoch = epoch, NEW i \in Rows, i > cursor
                   PROVE  i > NotBelow(m.floor, cursor)
      BY <2>1
    <3>2. Streams
      <4>1. toClient[1].epoch = epoch BY <1>2, <2>1, <3>1
      <4> QED BY <1>2, <3>1, <4>1 DEF DInv, Base, OneEpoch, Streams
    <3>3. m.floor \in Nat /\ m.floor > 0 => m.floor <= i
      BY <1>2, <3>1, <3>2 DEF DInv, Base, HellosAreSound
    <3>4. i \in Nat /\ cursor \in Nat /\ m.floor \in Nat
      BY <1>1, <1>2, <1>4, QueueElements DEF TypeOK
    <3> QED BY <3>1, <3>3, <3>4 DEF NotBelow
  <2>7. AheadOfCursor'
    BY <1>2, <1>4, <2>1, <2>3, <2>6 DEF Order, AheadOfCursor
  <2>8. ThroughIsAhead'
    BY <1>2, <1>4, <2>1, <2>6 DEF Order, ThroughIsAhead
  <2>9. HeldAreAnchored'
    <3>1. SUFFICES ASSUME cursorEpoch = epoch PROVE Anchored(cursor)'
      BY <1>2, <1>5, <2>1, <2>2 DEF Order, HeldAreAnchored
    <3>2. CASE cursor' = cursor
      BY <1>4, <3>1, <3>2 DEF Order, HeldAreAnchored, Anchored
    <3>3. CASE cursor' # cursor
      <4>1. m.floor > 0 /\ cursor < m.floor - 1 /\ cursor' = m.floor - 1
        BY <2>1, <3>3 DEF NotBelow
      <4>2. Streams
        <5>1. toClient[1].epoch = epoch BY <1>2, <2>1, <3>1
        <5> QED BY <1>2, <3>1, <5>1 DEF DInv, Base, OneEpoch, Streams
      <4>3. \A i \in Rows : m.floor <= i
        BY <1>2, <4>1, <4>2 DEF DInv, Base, HellosAreSound
      <4>4. m.floor \in Nat BY <1>1, <1>2, QueueElements
      <4>5. \A i \in Rows : cursor' < i BY <1>4, <4>1, <4>3, <4>4
      <4> QED BY <1>4, <4>5 DEF Anchored
    <3> QED BY <3>2, <3>3
  <2> QED BY <1>6, <1>8, <2>4, <2>5, <2>7, <2>8, <2>9 DEF Order
<1> QED BY <1>9, <1>10

\* An event that is taken goes behind those the client holds.
LEMMA TakesEventOrder ==
    ASSUME DInv, TypeOK', Order, ClientTakesEvent
    PROVE  Order'
<1>1. TypeOK /\ IInv /\ Links BY DEF DInv, Base
<1> DEFINE h == Head(toClient).id
<1>2. /\ linked /\ toClient # <<>> /\ toClient' = Tail(toClient)
      /\ Head(toClient).kind = "event"
      /\ UNCHANGED <<log, pruned, epoch, session, toAgent, linked, helloDone, cursor,
                     cursorEpoch, gui, acks>>
  BY DEF ClientTakesEvent, spoolVars, stored, hub, durable
<1>3. /\ SentIds' \subseteq SentIds /\ Ascends(toClient, EventFrames)'
      /\ h \in SentIds /\ \A i \in SentIds' : h < i
  BY <1>1, <1>2, TakenIds DEF Order, QueuesAscend
<1>4. /\ GuiIds' = GuiIds /\ AckIds' = AckIds /\ FreshItems' = FreshItems
      /\ HelloFromClient' = HelloFromClient
  BY <1>2 DEF GuiIds, AckIds, IdsAt, FreshItems, HelloFromClient
<1>5. Rows' = Rows BY <1>2 DEF Rows
<1>6. \A i : Anchored(i)' <=> Anchored(i) BY <1>5 DEF Anchored
<1>7. AsksForCursor' BY <1>2, <1>4 DEF Order, AsksForCursor
<1>8. AcksAreSent' /\ ThroughIsAhead'
  BY <1>2, <1>4, <1>5 DEF Order, AcksAreSent, ThroughIsAhead
<1>9. helloDone BY <1>2, EventsFollowHello DEF DInv
<1>10. SentAreAnchored'
  <2>1. Streams' => Streams BY TakesEventMoves DEF ClientMoves
  <2> QED BY <1>3, <1>6, <2>1 DEF Order, SentAreAnchored
<1>11. Anchored(cursor)' <=> Anchored(cursor) BY <1>2, <1>5 DEF Anchored
<1>12. InboxIds' \subseteq InboxIds \union {h} /\ Ascends(inbox, DOMAIN inbox)'
  <2>1. CASE inbox' = inbox
    BY <2>1 DEF InboxIds, IdsAt, Order, QueuesAscend, Ascends
  <2>2. CASE inbox' = Append(inbox, [id |-> h, epoch |-> cursorEpoch, fresh |-> TRUE])
    <3> DEFINE x == [id |-> h, epoch |-> cursorEpoch, fresh |-> TRUE]
    <3>0. inbox \in Seq(Items \union {x}) /\ x.id = h BY <1>1 DEF TypeOK
    <3> HIDE DEF x
    <3>1. /\ DOMAIN inbox = 1 .. Len(inbox) /\ Len(inbox) \in Nat
          /\ DOMAIN inbox' = 1 .. Len(inbox) + 1
          /\ \A k \in 1 .. Len(inbox) : inbox'[k] = inbox[k]
          /\ inbox'[Len(inbox) + 1].id = h
      <4>1. /\ inbox' \in Seq(Items \union {x}) /\ Len(inbox') = Len(inbox) + 1
            /\ \A k \in 1 .. Len(inbox) : inbox'[k] = inbox[k]
            /\ inbox'[Len(inbox) + 1] = x
        BY <2>2, <3>0, AppendElements DEF x
      <4>2. DOMAIN inbox = 1 .. Len(inbox) /\ Len(inbox) \in Nat BY <3>0
      <4>3. DOMAIN inbox' = 1 .. Len(inbox') BY <4>1
      <4> QED BY <3>0, <4>1, <4>2, <4>3
    <3>2. \A k \in 1 .. Len(inbox) : inbox[k].id \in InboxIds /\ inbox[k].id < h
      BY <1>3, <3>1 DEF Order, QueuesAscend, Precede, InboxIds, IdsAt
    <3>3. \A k \in DOMAIN inbox' : k \in 1 .. Len(inbox) \/ k = Len(inbox) + 1
      BY <3>1
    <3>4. InboxIds' \subseteq InboxIds \union {h}
      BY <3>1, <3>2, <3>3 DEF InboxIds, IdsAt
    <3>5. ASSUME NEW a \in DOMAIN inbox', NEW b \in DOMAIN inbox', a < b
          PROVE  inbox'[a].id < inbox'[b].id
      <4>1. a \in 1 .. Len(inbox) BY <3>1, <3>5
      <4>2. CASE b \in 1 .. Len(inbox)
        BY <3>1, <3>5, <4>1, <4>2 DEF Order, QueuesAscend, Ascends
      <4>3. CASE b = Len(inbox) + 1 BY <3>1, <3>2, <4>1, <4>3
      <4> QED BY <3>3, <4>2, <4>3
    <3> QED BY <3>4, <3>5 DEF Ascends
  <2> QED BY <2>1, <2>2 DEF ClientTakesEvent
<1>13. InFlight' \subseteq InFlight BY <1>3, <1>4, <1>12 DEF InFlight
<1>14. QueuesAscend'
  <2>1. Ascends(gui, FreshItems)' BY <1>2, <1>4 DEF Order, QueuesAscend, Ascends
  <2>2. Precede(GuiIds, InboxIds \union SentIds)'
    BY <1>3, <1>4, <1>12 DEF Order, QueuesAscend, Precede
  <2>3. Precede(InboxIds, SentIds)'
    BY <1>3, <1>12 DEF Order, QueuesAscend, Precede
  <2> QED BY <1>3, <1>12, <2>1, <2>2, <2>3 DEF QueuesAscend
<1>15. AcksPrecede' BY <1>4, <1>13 DEF Order, AcksPrecede, Precede
<1>16. AheadOfCursor' BY <1>2, <1>5, <1>13 DEF Order, AheadOfCursor
<1>17. HeldAreAnchored'
  <2>1. SUFFICES ASSUME cursorEpoch = epoch PROVE \A i \in InboxIds' : Anchored(i)'
    BY <1>2, <1>4, <1>6, <1>11 DEF Order, HeldAreAnchored
  <2>2. Streams BY <1>2, <1>9, <2>1, OpenSession
  <2> QED BY <1>3, <1>6, <1>12, <2>1, <2>2 DEF Order, HeldAreAnchored, SentAreAnchored
<1> QED BY <1>7, <1>8, <1>10, <1>14, <1>15, <1>16, <1>17 DEF Order

\* What the client holds goes behind what the GUI holds.
LEMMA FlushOrder ==
    ASSUME DInv, TypeOK', Order, Flush
    PROVE  Order'
<1>1. TypeOK /\ ItemsOfStream BY DEF DInv, Base
<1>2. /\ inbox' = <<>>
      /\ UNCHANGED <<log, pruned, epoch, session, toAgent, toClient, linked, helloDone,
                     cursor, cursorEpoch, acks>>
  BY DEF Flush, spoolVars, stored, hub, wire, durable
<1>3. /\ Len(gui') = Len(gui) + Len(inbox) /\ Len(gui) \in Nat /\ Len(inbox) \in Nat
      /\ \A k \in 1 .. Len(gui) : gui'[k] = gui[k]
      /\ \A k \in 1 .. Len(inbox) : gui'[Len(gui) + k] = inbox[k]
      /\ DOMAIN gui = 1 .. Len(gui) /\ DOMAIN inbox = 1 .. Len(inbox)
      /\ DOMAIN gui' = 1 .. Len(gui')
  BY <1>1, FlushMoves DEF TypeOK
<1>4. ASSUME NEW k \in 1 .. Len(gui')
      PROVE  \/ k \in 1 .. Len(gui)
             \/ /\ k - Len(gui) \in 1 .. Len(inbox)
                /\ gui'[k] = inbox[k - Len(gui)]
  <2>1. CASE k <= Len(gui) BY <1>3, <2>1
  <2>2. CASE ~(k <= Len(gui))
    <3>1. k - Len(gui) \in 1 .. Len(inbox) /\ Len(gui) + (k - Len(gui)) = k
      BY <1>3, <2>2
    <3> QED BY <1>3, <3>1
  <2> QED BY <2>1, <2>2
<1>5. GuiIds' \subseteq GuiIds \union InboxIds
  <2>1. SUFFICES ASSUME NEW i \in GuiIds' PROVE i \in GuiIds \union InboxIds OBVIOUS
  <2>2. PICK k \in 1 .. Len(gui') : gui'[k].fresh /\ gui'[k].id = i
    BY <1>3, <2>1 DEF GuiIds, IdsAt, FreshItems
  <2> QED BY <1>1, <1>3, <1>4, <2>2, IdsByPlace
<1>6. InboxIds' = {} /\ (DOMAIN inbox)' = {} BY <1>2 DEF InboxIds, IdsAt
<1>7. /\ SentIds' = SentIds /\ AckIds' = AckIds /\ EventFrames' = EventFrames
      /\ HelloFromClient' = HelloFromClient /\ Rows' = Rows
  BY <1>2 DEF SentIds, AckIds, IdsAt, EventFrames, HelloFromClient, Rows
<1>8. \A i : Anchored(i)' <=> Anchored(i) BY <1>7 DEF Anchored
<1>9. InFlight' \subseteq InFlight BY <1>5, <1>6, <1>7 DEF InFlight
<1>10. Ascends(gui, FreshItems)'
  <2>1. SUFFICES ASSUME NEW a \in 1 .. Len(gui'), NEW b \in 1 .. Len(gui'), a < b,
                        gui'[a].fresh, gui'[b].fresh
                 PROVE  gui'[a].id < gui'[b].id
    BY <1>3 DEF Ascends, FreshItems
  <2>2. CASE b \in 1 .. Len(gui)
    <3>1. a \in 1 .. Len(gui) BY <1>3, <2>1, <2>2
    <3> QED BY <1>3, <2>1, <2>2, <3>1 DEF Order, QueuesAscend, Ascends, FreshItems
  <2>3. CASE /\ b - Len(gui) \in 1 .. Len(inbox)
             /\ gui'[b] = inbox[b - Len(gui)]
    <3>1. CASE a \in 1 .. Len(gui)
      <4>1. gui[a].id \in GuiIds /\ gui'[a] = gui[a]
        BY <1>1, <1>3, <2>1, <3>1, IdsByPlace
      <4>2. gui'[b].id \in InboxIds BY <1>1, <2>3, IdsByPlace
      <4> QED BY <4>1, <4>2 DEF Order, QueuesAscend, Precede
    <3>2. CASE /\ a - Len(gui) \in 1 .. Len(inbox)
               /\ gui'[a] = inbox[a - Len(gui)]
      <4>1. a - Len(gui) < b - Len(gui) BY <1>3, <2>1
      <4> QED BY <1>3, <2>3, <3>2, <4>1 DEF Order, QueuesAscend, Ascends
    <3> QED BY <1>4, <3>1, <3>2
  <2> QED BY <1>4, <2>2, <2>3
<1>11. QueuesAscend'
  BY <1>2, <1>5, <1>6, <1>7, <1>10 DEF Order, QueuesAscend, Ascends, Precede
<1>12. AcksPrecede' /\ AcksAreSent' /\ ThroughIsAhead' /\ AsksForCursor'
  BY <1>2, <1>7, <1>9
  DEF Order, AcksPrecede, AcksAreSent, ThroughIsAhead, AsksForCursor, Precede
<1>13. AheadOfCursor' BY <1>2, <1>7, <1>9 DEF Order, AheadOfCursor
<1>14. Anchored(cursor)' <=> Anchored(cursor) BY <1>2, <1>7 DEF Anchored
<1>15. HeldAreAnchored'
  BY <1>2, <1>5, <1>6, <1>7, <1>8, <1>14 DEF Order, HeldAreAnchored
<1>16. SentAreAnchored'
  <2>1. Streams' <=> Streams BY <1>2 DEF Streams
  <2> QED BY <1>7, <1>8, <2>1 DEF Order, SentAreAnchored
<1> QED BY <1>11, <1>12, <1>13, <1>15, <1>16 DEF Order

\* An event that is on the screen was the first of those in flight.
LEMMA RenderOrder ==
    ASSUME DInv, TypeOK', Order, Render
    PROVE  Order'
<1>1. TypeOK BY DEF DInv, Base
<1>2. /\ UNCHANGED <<log, pruned, epoch, session, toAgent, toClient, linked, helloDone,
                     cursor, cursorEpoch, inbox>>
      /\ acks' = IF gui[1].fresh THEN Append(acks, gui[1].id) ELSE acks
      /\ gui # <<>>
  BY <1>1, QueueHeads DEF Render, spoolVars, stored, hub, wire, durable
<1>3. /\ 1 \in 1 .. Len(gui) /\ Len(gui') = Len(gui) - 1 /\ Len(gui) \in Nat
      /\ \A k \in 1 .. Len(gui') : gui'[k] = gui[k + 1]
      /\ DOMAIN gui = 1 .. Len(gui) /\ DOMAIN gui' = 1 .. Len(gui')
  BY <1>1, RenderMoves DEF TypeOK
<1>4. \A k \in 1 .. Len(gui') : k + 1 \in 1 .. Len(gui) /\ 1 < k + 1 BY <1>3
<1>5. \A a, b \in 1 .. Len(gui) :
         a < b /\ gui[a].fresh /\ gui[b].fresh => gui[a].id < gui[b].id
  BY <1>3 DEF Order, QueuesAscend, Ascends, FreshItems
<1>6. GuiIds' \subseteq GuiIds
      /\ (gui[1].fresh => gui[1].id \in GuiIds /\ \A i \in GuiIds' : gui[1].id < i)
  <2>1. ASSUME NEW i \in GuiIds'
        PROVE  i \in GuiIds /\ (gui[1].fresh => gui[1].id < i)
    <3>1. PICK k \in 1 .. Len(gui') : gui'[k].fresh /\ gui'[k].id = i
      BY <1>3, <2>1 DEF GuiIds, IdsAt, FreshItems
    <3>2. gui[k + 1].fresh /\ gui[k + 1].id = i BY <1>3, <3>1
    <3> QED BY <1>1, <1>3, <1>4, <1>5, <3>2, IdsByPlace
  <2> QED BY <1>1, <1>3, <2>1, IdsByPlace
<1>7. Ascends(gui, FreshItems)'
  <2>1. SUFFICES ASSUME NEW a \in 1 .. Len(gui'), NEW b \in 1 .. Len(gui'), a < b,
                        gui'[a].fresh, gui'[b].fresh
                 PROVE  gui'[a].id < gui'[b].id
    BY <1>3 DEF Ascends, FreshItems
  <2>2. a + 1 < b + 1 BY <1>3, <2>1
  <2> QED BY <1>3, <1>4, <1>5, <2>1, <2>2
<1>8. AckIds' \subseteq AckIds \union (IF gui[1].fresh THEN {gui[1].id} ELSE {})
  <2>1. CASE gui[1].fresh
    <3>1. /\ Len(acks') = Len(acks) + 1 /\ Len(acks) \in Nat
          /\ \A k \in 1 .. Len(acks) : acks'[k] = acks[k]
          /\ acks'[Len(acks) + 1] = gui[1].id
          /\ DOMAIN acks' = 1 .. Len(acks') /\ DOMAIN acks = 1 .. Len(acks)
      <4>1. acks \in Seq(Nat \ {0}) /\ gui[1].id \in Nat \ {0}
            /\ acks' \in Seq(Nat \ {0})
        BY <1>1, <1>3, QueueElements DEF TypeOK
      <4> QED BY <1>2, <2>1, <4>1, AppendElements
    <3>2. \A k \in DOMAIN acks' : k \in DOMAIN acks \/ k = Len(acks) + 1 BY <3>1
    <3> QED BY <2>1, <3>1, <3>2 DEF AckIds
  <2>2. CASE ~gui[1].fresh BY <1>2, <2>2 DEF AckIds
  <2> QED BY <2>1, <2>2
<1>9. /\ SentIds' = SentIds /\ InboxIds' = InboxIds /\ EventFrames' = EventFrames
      /\ HelloFromClient' = HelloFromClient /\ Rows' = Rows
  BY <1>2 DEF SentIds, InboxIds, IdsAt, EventFrames, HelloFromClient, Rows
<1>10. \A i : Anchored(i)' <=> Anchored(i) BY <1>9 DEF Anchored
<1>11. InFlight' \subseteq InFlight BY <1>6, <1>9 DEF InFlight
<1>12. QueuesAscend'
  BY <1>2, <1>6, <1>7, <1>9 DEF Order, QueuesAscend, Ascends, Precede
<1>13. AcksPrecede'
  <2>1. gui[1].fresh => \A i \in InFlight' : gui[1].id < i
    BY <1>6, <1>9 DEF InFlight, Order, QueuesAscend, Precede
  <2> QED BY <1>8, <1>11, <2>1 DEF Order, AcksPrecede, Precede
<1>14. AcksAreSent'
  <2>1. session.state = "on" /\ gui[1].fresh => gui[1].id <= session.through
    BY <1>3 DEF DInv, Base, SessionIsSafe, SentThrough
  <2> QED BY <1>2, <1>8, <2>1 DEF Order, AcksAreSent
<1>15. ThroughIsAhead' /\ AsksForCursor'
  BY <1>2, <1>9 DEF Order, ThroughIsAhead, AsksForCursor
<1>16. AheadOfCursor' BY <1>2, <1>9, <1>11 DEF Order, AheadOfCursor
<1>17. Anchored(cursor)' <=> Anchored(cursor) BY <1>2, <1>9 DEF Anchored
<1>18. HeldAreAnchored'
  BY <1>2, <1>6, <1>8, <1>9, <1>10, <1>17 DEF Order, HeldAreAnchored
<1>19. SentAreAnchored'
  <2>1. Streams' <=> Streams BY <1>2 DEF Streams
  <2> QED BY <1>9, <1>10, <2>1 DEF Order, SentAreAnchored
<1> QED BY <1>12, <1>13, <1>14, <1>15, <1>16, <1>18, <1>19 DEF Order

\* The cursor moves up to what was rendered, and passes nothing in flight.
LEMMA AcknowledgeOrder ==
    ASSUME DInv, TypeOK', Order, Acknowledge
    PROVE  Order'
<1>1. TypeOK /\ IInv /\ Links BY DEF DInv, Base
<1>2. /\ acks # <<>> /\ acks' = Tail(acks)
      /\ UNCHANGED <<log, pruned, epoch, session, toClient, linked, helloDone,
                     cursorEpoch, inbox, gui>>
      /\ cursor' = cursor \/ cursor' = Head(acks)
  BY DEF Acknowledge, spoolVars, stored, hub
<1>3. /\ Head(acks) = acks[1] /\ 1 \in 1 .. Len(acks) /\ Len(acks) \in Nat
      /\ Len(acks') = Len(acks) - 1
      /\ \A k \in 1 .. Len(acks') : acks'[k] = acks[k + 1]
      /\ DOMAIN acks' = 1 .. Len(acks')
  <2>1. DOMAIN acks' = 1 .. Len(acks') BY DEF TypeOK
  <2>2. Len(acks) \in Nat BY <1>1, QueueElements
  <2> QED BY <1>1, <1>2, <2>1, <2>2, QueueHeads
<1>4. Head(acks) \in AckIds BY <1>1, <1>3, IdsByPlace
<1>5. AckIds' \subseteq AckIds
  <2>1. SUFFICES ASSUME NEW i \in AckIds' PROVE i \in AckIds OBVIOUS
  <2>2. PICK k \in 1 .. Len(acks') : acks'[k] = i BY <1>3, <2>1 DEF AckIds
  <2>3. k + 1 \in 1 .. Len(acks) /\ acks[k + 1] = i BY <1>3, <2>2
  <2> QED BY <1>1, <2>3, IdsByPlace
<1>6. /\ SentIds' = SentIds /\ InboxIds' = InboxIds /\ GuiIds' = GuiIds
      /\ EventFrames' = EventFrames /\ FreshItems' = FreshItems /\ Rows' = Rows
      /\ InFlight' = InFlight
  BY <1>2 DEF SentIds, InboxIds, GuiIds, InFlight, IdsAt, EventFrames, FreshItems, Rows
<1>7. \A i : Anchored(i)' <=> Anchored(i) BY <1>6 DEF Anchored
<1>8. QueuesAscend' BY <1>2, <1>6 DEF Order, QueuesAscend, Ascends
<1>9. AcksPrecede' /\ AcksAreSent'
  BY <1>2, <1>5, <1>6 DEF Order, AcksPrecede, AcksAreSent, Precede
<1>10. AheadOfCursor'
  <2>1. \A i \in InFlight : Head(acks) < i
    BY <1>4 DEF Order, AcksPrecede, Precede
  <2>2. \A i \in InFlight : i \in Nat BY <1>1, IdsAreNumbers DEF InFlight
  <2>3. Head(acks) \in Nat BY <1>1, <1>4, IdsAreNumbers
  <2>4. \A i \in InFlight : i > Head(acks) BY <2>1, <2>2, <2>3
  <2> QED BY <1>2, <1>6, <2>4 DEF Order, AheadOfCursor
<1>11. ThroughIsAhead'
  <2>1. SUFFICES ASSUME session.state = "on", cursorEpoch = epoch,
                        NEW i \in Rows, i > session.through
                 PROVE  i > cursor'
    BY <1>2, <1>6 DEF ThroughIsAhead
  <2>2. i > cursor BY <2>1 DEF Order, ThroughIsAhead
  <2>3. Head(acks) <= session.through BY <1>4, <2>1 DEF Order, AcksAreSent
  <2>4. Head(acks) \in Nat /\ session.through \in Nat /\ i \in Nat
    BY <1>1, <1>4, <2>1, IdsAreNumbers, RowsAreNumbers DEF TypeOK
  <2>5. i > Head(acks) BY <2>1, <2>3, <2>4
  <2> QED BY <1>2, <2>2, <2>5
<1>12. AsksForCursor' BY <1>1, <1>2 DEF Links, AsksForCursor
<1>13. HeldAreAnchored'
  <2>1. SUFFICES ASSUME cursorEpoch = epoch PROVE Anchored(cursor)'
    BY <1>2, <1>5, <1>6, <1>7 DEF Order, HeldAreAnchored
  <2>2. \A i : cursor' = i /\ Anchored(i) => Anchored(cursor)'
    BY <1>6 DEF Anchored
  <2>3. Anchored(cursor) /\ Anchored(Head(acks))
    BY <1>4, <2>1 DEF Order, HeldAreAnchored
  <2> QED BY <1>2, <2>2, <2>3
<1>14. SentAreAnchored'
  <2>1. Streams' <=> Streams BY <1>2 DEF Streams
  <2> QED BY <1>6, <1>7, <2>1 DEF Order, SentAreAnchored
<1> QED BY <1>8, <1>9, <1>10, <1>11, <1>12, <1>13, <1>14 DEF Order

\* Every step keeps the order.
LEMMA StepKeepsOrder ==
    ASSUME Assumptions, DInv, DInv', Order, [Next]_vars
    PROVE  Order'
<1>1. TypeOK' BY DEF DInv, Base
<1>2. CASE ReplaceDatabase BY <1>2, ReplacedOrder
<1>3. CASE ~ReplaceDatabase /\ AgentSide BY <1>1, <1>3, AgentOrder
<1>4. CASE ConnectionStep /\ ~AgentEnds BY <1>1, <1>4, ConnectionOrder
<1>5. CASE ClientStep
  BY <1>1, <1>5, TakesHelloOrder, TakesEventOrder, FlushOrder, RenderOrder,
     AcknowledgeOrder DEF ClientStep
<1> QED BY <1>2, <1>3, <1>4, <1>5 DEF Next, AgentSide

\* Events reach the screen in the order of their rows, whether they were paged or
\* broadcast, and none that the cursor has passed is on its way again, as long as
\* no session went on without what it had to read: enqueueCriticalReplay,
\* broadcast and HubClient::queueEvent.
THEOREM OrderIsKept == Spec => [](~misled => InFlightAscends)
<1>1. Assumptions BY SpoolAssumption, DeliveryAssumption DEF Assumptions
<1> DEFINE Ordered == ~misled => Order
<1>2. Init => Ordered BY InitOrder
<1>3. Delivered /\ Delivered' /\ Ordered /\ [Next]_vars => Ordered'
  <2>1. SUFFICES ASSUME Delivered, Delivered', Ordered, [Next]_vars, ~misled'
                 PROVE  Order'
    OBVIOUS
  <2>2. misled => misled' BY <1>1, <2>1, StepReads DEF Delivered, Base
  <2>3. DInv /\ DInv' /\ Order BY <2>1, <2>2 DEF Delivered
  <2> QED BY <1>1, <2>1, <2>3, StepKeepsOrder
<1>4. Ordered => (~misled => InFlightAscends)
  BY DEF Order, QueuesAscend, AheadOfCursor, InFlightAscends
<1> HIDE DEF Ordered
<1> QED BY <1>2, <1>3, <1>4, DeliveryInvariance, PTL DEF Spec

-----------------------------------------------------------------------------
(* Nothing is skipped while the writer's queue has room.                   *)

\* The writer's signals that it has stopped come last.
StatusesEnd ==
    /\ ~up => toHub = <<>>
    /\ \A n \in 1 .. Len(toHub) : toHub[n].kind = "status" =>
          ~ready /\ \A m \in n .. Len(toHub) : toHub[m].kind = "status"

\* Of a row above the bound it has cached, the Agent will hear.
HighIsCurrent ==
    session.state = "on" => \A i \in Rows : i <= highSeen \/ Announced(i)

\* A hello knows the events in front of it.
HellosAreCurrent ==
    Streams =>
        \A k \in 1 .. Len(toClient) : toClient[k].kind = "hello" =>
            \A i \in Unshown : Underway(i, k) => i <= toClient[k].high

\* What is marked as sent is under way, whether it was paged or broadcast.
SentIsUnderway ==
    session.state = "on" =>
        \A i \in Unshown : i <= session.through => Underway(i, Len(toClient))

\* What holds as long as there is room.
Complete == StatusesEnd /\ HighIsCurrent /\ HellosAreCurrent /\ SentIsUnderway

\* The behaviours in which the writer's queue has room for every event.
HasRoom == Init /\ [][Next /\ ~Overflow]_vars

\* How a step changes the signals of the writer.
SignalsMove ==
    \/ toHub' = toHub /\ (ready' => ready) /\ up' = up
    \/ ready /\ up' /\ \E i \in Nat \ {0} : toHub' = Append(toHub, RecordedSignal(i))
    \/ ~ready' /\ up' /\ toHub' = Append(toHub, StatusSignal)
    \/ toHub # <<>> /\ toHub' = Tail(toHub) /\ ready' = ready /\ up'
    \/ toHub' = <<>>

\* Every step does it in one of these ways.
LEMMA StepMovesSignals ==
    ASSUME Assumptions, TypeOK, IInv, StatusesEnd, [Next]_vars
    PROVE  SignalsMove
<1>1. Len(log) \in Nat BY RowsAreNumbers
<1>2. CASE Start BY <1>2 DEF Start, StartWriter, StatusesEnd, SignalsMove
<1>3. CASE Crash
  BY <1>3 DEF Crash, WriterDies, CrashWriter, CrashInAppend, CrashInDrain, LoseWriter,
              SignalsMove
<1>4. CASE ReplaceDatabase BY <1>4 DEF ReplaceDatabase, writer, SignalsMove
<1>5. CASE DrainLine
  <2>1. PICK e \in Events : Announce(e) BY <1>5 DEF DrainLine
  <2>2. toHub' = toHub \/ toHub' = Append(toHub, RecordedSignal(Len(log) + 1))
    BY <2>1 DEF Announce
  <2>3. Len(log) + 1 \in Nat \ {0} BY <1>1
  <2>4. ready /\ up' /\ up' = up /\ ready' = ready BY <1>5 DEF DrainLine, Drains
  <2> QED BY <2>2, <2>3, <2>4 DEF SignalsMove
<1>6. CASE DrainUnreadable \/ DrainFails \/ RecordFails
  BY <1>6 DEF DrainUnreadable, DrainFails, RecordFails, StopWriter, Drains, SignalsMove
<1>7. CASE RecordOther BY <1>7 DEF RecordOther, SignalsMove
<1>8. CASE AppendLine \/ AppendFails \/ AppendTears \/ DrainRefused
  BY <1>8 DEF AppendLine, AppendFails, AppendTears, TakesEvent, DrainRefused, SignalsMove
<1>9. CASE Write
  BY <1>5, <1>6, <1>7, <1>8, <1>9 DEF Write, WriterStep
<1>10. CASE (\E e \in Events : Emit(e)) \/ Overflow
  BY <1>10 DEF Emit, Enqueue, Overflow, Emits, SignalsMove
<1>11. CASE HearRecorded \/ HearStatus
  BY <1>11 DEF HearRecorded, HearStatus, HubRuns, SignalsMove
<1>12. CASE UNCHANGED spoolVars BY <1>12 DEF spoolVars, writer, SignalsMove
<1>13. CASE Greet \/ ReadBounds \/ ReadPage \/ TakeAck \/ ConnectionStep \/ ClientStep
            \/ Misreads \/ UNCHANGED vars
  BY <1>12, <1>13, MisreadsAlone
  DEF Greet, ReadBounds, ReadPage, TakeAck, ConnectionStep, AgentDrops,
      GreetUnreadable, ClientDrops, UIQuits, ClientNotices, Connect, ClientStep,
      ClientTakesHello, ClientTakesEvent, Flush, Render, Acknowledge, vars
<1> QED
  BY <1>2, <1>3, <1>4, <1>9, <1>10, <1>11, <1>13 DEF Next, AgentStep, Misreads

\* A writer that has stopped records nothing more.
LEMMA StatusesStayLast ==
    ASSUME Assumptions, TypeOK, IInv, StatusesEnd, [Next]_vars
    PROVE  StatusesEnd'
<1>1. toHub \in Seq(Signals) /\ Len(toHub) \in Nat BY DEF IInv, SpoolTypeOK
<1>2. SignalsMove BY StepMovesSignals
<1>3. CASE toHub' = toHub /\ (ready' => ready) /\ up' = up
  BY <1>3 DEF StatusesEnd
<1>4. CASE toHub' = <<>> BY <1>4 DEF StatusesEnd
<1>5. ASSUME up', NEW s \in Signals, toHub' = Append(toHub, s),
             \/ ready /\ s.kind = "recorded"
             \/ ~ready' /\ s.kind = "status"
      PROVE  StatusesEnd'
  <2>1. /\ Len(toHub') = Len(toHub) + 1
        /\ \A n \in 1 .. Len(toHub) : toHub'[n] = toHub[n]
        /\ toHub'[Len(toHub) + 1] = s
    BY <1>1, <1>5, AppendElements
  <2>2. ASSUME NEW n \in 1 .. Len(toHub'), toHub'[n].kind = "status"
        PROVE  ~ready' /\ \A m \in n .. Len(toHub') : toHub'[m].kind = "status"
    <3>1. n \in 1 .. Len(toHub) \/ n = Len(toHub) + 1 BY <1>1, <2>1
    <3>2. s.kind = "status"
      <4>1. CASE n \in 1 .. Len(toHub)
        <5>1. ~ready BY <2>1, <2>2, <4>1 DEF StatusesEnd
        <5> QED BY <1>5, <5>1
      <4> QED BY <2>1, <2>2, <3>1, <4>1
    <3>3. ~ready'
      <4>1. ~(s.kind = "recorded") BY <3>2
      <4> QED BY <1>5, <4>1
    <3>4. ASSUME NEW m \in n .. Len(toHub') PROVE toHub'[m].kind = "status"
      <4>1. CASE m = Len(toHub) + 1 BY <2>1, <3>2, <4>1
      <4>2. CASE m # Len(toHub) + 1
        <5>1. n \in 1 .. Len(toHub) /\ m \in n .. Len(toHub) /\ m \in 1 .. Len(toHub)
          BY <1>1, <2>1, <4>2
        <5> QED BY <2>1, <2>2, <5>1 DEF StatusesEnd
      <4> QED BY <4>1, <4>2
    <3> QED BY <3>3, <3>4
  <2> QED BY <1>5, <2>2 DEF StatusesEnd
<1>6. CASE toHub # <<>> /\ toHub' = Tail(toHub) /\ ready' = ready /\ up'
  <2>1. /\ Len(toHub') = Len(toHub) - 1
        /\ \A n \in 1 .. Len(toHub) - 1 : toHub'[n] = toHub[n + 1]
    BY <1>1, <1>6, TailElements
  <2>2. ASSUME NEW n \in 1 .. Len(toHub'), toHub'[n].kind = "status"
        PROVE  ~ready' /\ \A m \in n .. Len(toHub') : toHub'[m].kind = "status"
    <3>1. n + 1 \in 1 .. Len(toHub) /\ toHub[n + 1].kind = "status"
      <4>1. n \in 1 .. Len(toHub) - 1 /\ n + 1 \in 1 .. Len(toHub) BY <1>1, <2>1
      <4> QED BY <2>1, <2>2, <4>1
    <3>2. ~ready /\ \A m \in n + 1 .. Len(toHub) : toHub[m].kind = "status"
      BY <3>1 DEF StatusesEnd
    <3>3. ASSUME NEW m \in n .. Len(toHub') PROVE toHub'[m].kind = "status"
      <4>1. m + 1 \in n + 1 .. Len(toHub) /\ m \in 1 .. Len(toHub) - 1
        BY <1>1, <2>1
      <4> QED BY <2>1, <3>2, <4>1
    <3> QED BY <1>6, <3>2, <3>3
  <2> QED BY <1>6, <2>2 DEF StatusesEnd
<1>7. /\ StatusSignal \in Signals /\ StatusSignal.kind = "status"
      /\ \A i \in Nat \ {0} : RecordedSignal(i) \in Signals
                              /\ RecordedSignal(i).kind = "recorded"
  BY DEF StatusSignal, RecordedSignal, Signals
<1>8. CASE ready /\ up'
           /\ \E i \in Nat \ {0} : toHub' = Append(toHub, RecordedSignal(i))
  BY <1>5, <1>7, <1>8
<1>9. CASE ~ready' /\ up' /\ toHub' = Append(toHub, StatusSignal)
  BY <1>5, <1>7, <1>9
<1> QED BY <1>2, <1>3, <1>4, <1>6, <1>8, <1>9 DEF SignalsMove

\* When a status is heard, there is no row the Agent will still hear of.
LEMMA StatusIsCurrent ==
    ASSUME Assumptions, IInv, StatusesEnd, HighIsCurrent, HearStatus,
           session.state = "on"
    PROVE  \A i \in Rows : i <= highSeen
<1>1. toHub \in Seq(Signals) /\ toHub # <<>> /\ Head(toHub).kind = "status" /\ up
  BY DEF IInv, SpoolTypeOK, HearStatus, HubRuns
<1>2. Head(toHub) = toHub[1] /\ 1 \in 1 .. Len(toHub) /\ Len(toHub) \in Nat
  BY <1>1
<1>3. \A m \in 1 .. Len(toHub) : toHub[m].kind = "status"
  BY <1>1, <1>2 DEF StatusesEnd
<1>4. \A i : RecordedSignal(i).kind # "status" BY DEF RecordedSignal
<1>5. \A i : ~Announced(i) BY <1>3, <1>4 DEF Announced
<1> QED BY <1>1, <1>5 DEF HighIsCurrent

\* The bound the Agent has cached for a session stays current.
LEMMA HighStaysCurrent ==
    ASSUME Assumptions, TypeOK, IInv, Links, HighIsCurrent, [Next]_vars, ~misled'
    PROVE  HighIsCurrent'
<1>1. SessionOK BY DeliveryTypeParts
<1>2. CASE session.state = "on" /\ UNCHANGED highSeen /\ RowsAreAnnounced
  <2>1. \A i \in Rows : i <= highSeen \/ Announced(i) BY <1>2 DEF HighIsCurrent
  <2> QED BY <1>2, <2>1 DEF RowsAreAnnounced, HighIsCurrent
<1>3. CASE highSeen' = High /\ UNCHANGED <<log, pruned>>
  <2>1. Rows' = Rows BY <1>3 DEF Rows
  <2> QED BY <1>3, <2>1, BoundsOfTable DEF HighIsCurrent
<1>4. CASE session'.state # "on" BY <1>4 DEF HighIsCurrent
<1>5. CASE Start BY <1>3, <1>5 DEF Start, StartWriter, stored
<1>6. CASE Crash \/ AgentEnds
  BY <1>4, <1>6 DEF Crash, AgentEnds, AgentDrops, GreetUnreadable, Cut, NoSession
<1>7. CASE Greet \/ ReadBounds
  BY <1>3, <1>7 DEF Greet, ReadBounds, spoolVars, stored
<1>8. CASE UNCHANGED <<spoolVars, highSeen>> /\ session'.state = session.state
  <2>1. RowsAreAnnounced BY <1>8, WriterAnnounces
  <2> QED BY <1>2, <1>4, <1>8, <2>1
<1>9. CASE Write \/ (\E e \in Events : Emit(e))
  <2>1. RowsAreAnnounced
    BY <1>9, WriterAnnounces DEF Write, Emit, EmitEvent
  <2>2. UNCHANGED <<highSeen, session>> BY <1>9 DEF Write, Emit, deliveryVars, hub
  <2> QED BY <1>2, <1>4, <2>1, <2>2
<1>10. CASE Overflow
  BY <1>2, <1>4, <1>10, RefusedEmission DEF Overflow, hub
<1>11. CASE HearStatus
  <2>1. /\ UNCHANGED <<log, pruned, highSeen, session>>
        /\ toHub \in Seq(Signals) /\ toHub # <<>> /\ toHub' = Tail(toHub)
        /\ Head(toHub).kind = "status"
    BY <1>11 DEF HearStatus, hub, stored, IInv, SpoolTypeOK
  <2>2. /\ Len(toHub') = Len(toHub) - 1 /\ Len(toHub) \in Nat
        /\ \A n \in 1 .. Len(toHub) - 1 : toHub'[n] = toHub[n + 1]
        /\ Head(toHub) = toHub[1]
    BY <2>1, TailElements
  <2>3. ASSUME NEW i, Announced(i) PROVE Announced(i)'
    <3>1. PICK n \in 1 .. Len(toHub) : toHub[n] = RecordedSignal(i)
      BY <2>3 DEF Announced
    <3>2. n # 1 BY <2>1, <2>2, <3>1 DEF RecordedSignal
    <3>3. n \in Nat /\ n - 1 \in 1 .. Len(toHub) - 1 /\ (n - 1) + 1 = n
      BY <2>2, <3>2
    <3>4. n - 1 \in 1 .. Len(toHub') /\ toHub'[n - 1] = RecordedSignal(i)
      BY <2>2, <3>1, <3>3
    <3> QED BY <3>4 DEF Announced, RecordedSignal
  <2>4. Rows' = Rows BY <2>1 DEF Rows
  <2> QED BY <1>2, <1>4, <2>1, <2>3, <2>4 DEF RowsAreAnnounced
<1>12. CASE HearRecorded /\ session.state = "on"
  <2>1. /\ UNCHANGED <<log, pruned>>
        /\ highSeen' = Max({highSeen, Head(toHub).id})
    BY <1>12 DEF HearRecorded, stored
  <2>2. PICK h \in Nat : h = Head(toHub).id BY <1>12, SignalsInOrder
  <2>3. highSeen' = (IF highSeen <= h THEN h ELSE highSeen) /\ highSeen \in Nat
    BY <1>1, <2>1, <2>2, MaxOfTwo DEF SessionOK
  <2>4. Rows' = Rows /\ \A i \in Rows : i \in Nat
    BY <2>1, RowsAreNumbers DEF Rows
  <2>5. \A i \in Rows : Announced(i) => i = h \/ Announced(i)'
    BY <1>12, <2>2, <2>4, SignalsInOrder
  <2>6. h <= highSeen' /\ \A i \in Nat : i <= highSeen => i <= highSeen' BY <2>3
  <2>7. \A i \in Rows : i <= highSeen \/ Announced(i) BY <1>12 DEF HighIsCurrent
  <2>8. \A i \in Rows' : i <= highSeen' \/ Announced(i)' BY <2>4, <2>5, <2>6, <2>7
  <2> QED BY <2>8 DEF HighIsCurrent
<1>13. CASE HearRecorded /\ session.state # "on"
  <2>1. UNCHANGED session BY <1>13 DEF HearRecorded, IsBroadcast
  <2> QED BY <1>4, <1>13, <2>1
<1>14. CASE ReplaceDatabase
  <2>1. session'.state # "on" BY <1>14 DEF ReplaceDatabase, Links, hub
  <2> QED BY <1>4, <2>1
<1>15. CASE ReadPage \/ TakeAck
  <2>1. session'.state = session.state
    BY <1>1, <1>15 DEF ReadPage, TakeAck, SessionOK
  <2> QED BY <1>8, <1>15, <2>1 DEF ReadPage, TakeAck
<1>16. CASE Misreads \/ UNCHANGED vars
  <2>1. UNCHANGED <<spoolVars, highSeen, session>>
    BY <1>16, MisreadsAlone DEF vars, deliveryVars, hub
  <2> QED BY <1>8, <2>1
<1>17. CASE ConnectionStep /\ ~AgentEnds
  <2>1. session'.state # "on"
    BY <1>17
    DEF ConnectionStep, AgentEnds, ClientDrops, UIQuits, ClientNotices, Connect, Cut,
        NoSession, hub
  <2> QED BY <1>4, <2>1
<1>18. CASE ClientStep
  BY <1>8, <1>18
  DEF ClientStep, ClientTakesHello, ClientTakesEvent, Flush, Render, Acknowledge, hub
<1> QED
  BY <1>5, <1>6, <1>7, <1>9, <1>10, <1>11, <1>12, <1>13, <1>14, <1>15, <1>16, <1>17,
     <1>18
  DEF Next, AgentStep, Misreads

\* What the client takes or drops, it does not lose.
LEMMA ClientKeepsAll ==
    ASSUME DInv, HellosAreCurrent, SentIsUnderway, NEW d \in {0, 1}, ClientMoves(d)
    PROVE  HellosAreCurrent' /\ SentIsUnderway'
<1>1. UNCHANGED <<log, pruned, epoch, session>>
  BY DEF ClientMoves, spoolVars, stored, hub
<1>2. Rows' = Rows BY <1>1 DEF Rows
<1>3. \A i \in Unshown' : i \in Unshown
  BY <1>1, <1>2 DEF ClientMoves, Unshown, Shown
<1>4. /\ Len(toClient) \in Nat /\ Len(toClient') \in Nat
      /\ Len(toClient) = Len(toClient') + d
      /\ \A k \in 1 .. Len(toClient') :
            toClient'[k] = toClient[k + d] /\ k + d \in 1 .. Len(toClient)
      /\ Streams' => Streams
      /\ \A k \in 0 .. Len(toClient') : \A i : Underway(i, k)' => Underway(i, k + d)
  BY DEF ClientMoves
<1>5. ASSUME Streams, NEW i \in Unshown PROVE ~Outdated(i)
  <2>1. SUFFICES ASSUME toClient # <<>>, toClient[1].kind = "hello", Underway(i, 1)
                 PROVE  i <= toClient[1].high
    BY DEF Outdated
  <2>2. 1 \in 1 .. Len(toClient) BY <2>1, QueueHeads DEF DInv, Base
  <2> QED BY <1>5, <2>1, <2>2 DEF HellosAreCurrent
<1>6. HellosAreCurrent'
  <2>1. SUFFICES ASSUME Streams', NEW k \in 1 .. Len(toClient'),
                        toClient'[k].kind = "hello",
                        NEW i \in Unshown', Underway(i, k)'
                 PROVE  i <= toClient'[k].high
    BY DEF HellosAreCurrent
  <2>2. Underway(i, k + d) /\ i \in Unshown
    <3>1. k \in 0 .. Len(toClient') BY <1>4
    <3> QED BY <1>3, <1>4, <2>1, <3>1
  <2> QED BY <1>4, <2>1, <2>2 DEF HellosAreCurrent
<1>7. SentIsUnderway'
  <2>1. SUFFICES ASSUME session.state = "on", NEW i \in Unshown', i <= session.through
                 PROVE  Underway(i, Len(toClient))'
    BY <1>1 DEF SentIsUnderway
  <2>2. i \in Unshown /\ Streams BY <1>3, <2>1 DEF DInv, Base, Links
  <2>3. PICK k \in Nat : k = Len(toClient') BY <1>4
  <2>4. k + d = Len(toClient) /\ k \in 0 .. Len(toClient') BY <1>4, <2>3
  <2>5. Underway(i, k + d) BY <2>1, <2>2, <2>4 DEF SentIsUnderway
  <2>6. Underway(i, k)' BY <1>5, <2>2, <2>4, <2>5 DEF ClientMoves
  <2> QED BY <2>3, <2>6 DEF Underway, Waiting, InGui, InInbox, InSent
<1> QED BY <1>6, <1>7

\* The hellos are current when every new one is.
LEMMA HellosStayCurrent ==
    ASSUME DInv, AgentSends, Moves, HellosAreCurrent,
           \A k \in Len(toClient) + 1 .. Len(toClient') :
               toClient'[k].kind = "hello" => \A i \in Unshown' : i <= toClient'[k].high
    PROVE  HellosAreCurrent'
<1>1. SUFFICES ASSUME Streams', NEW k \in 1 .. Len(toClient'),
                      toClient'[k].kind = "hello", NEW i \in Unshown', Underway(i, k)'
               PROVE  i <= toClient'[k].high
  BY DEF HellosAreCurrent
<1>2. k \in 1 .. Len(toClient) \/ k \in Len(toClient) + 1 .. Len(toClient')
  BY DEF AgentSends
<1>3. CASE k \in 1 .. Len(toClient)
  <2>1. Streams /\ toClient'[k] = toClient[k] BY <1>1, <1>3, OldMessages
  <2>2. i \in Unshown BY <1>1, <1>3, <2>1, OldMessages
  <2>3. k \in 0 .. Len(toClient) BY <1>3
  <2>4. Underway(i, k) BY <1>1, <2>3, AgentKeepsUnderway
  <2> QED BY <1>1, <1>3, <2>1, <2>2, <2>4 DEF HellosAreCurrent
<1> QED BY <1>1, <1>2, <1>3

\* The new hello of a step of the Agent, if there is one.
LEMMA AgentHellos ==
    ASSUME Assumptions, DInv, StatusesEnd, HighIsCurrent, AgentSide, ~Overflow,
           AgentSends, NEW k \in Len(toClient) + 1 .. Len(toClient'),
           toClient'[k].kind = "hello"
    PROVE  \A i \in Unshown' : i <= toClient'[k].high
<1>1. TypeOK /\ IInv BY DEF DInv, Base
<1>2. ~(UNCHANGED toClient) BY DEF AgentSends
<1>3. ASSUME NEW m, toClient' = Append(toClient, m) PROVE toClient'[k] = m
  <2>1. /\ Len(toClient') = Len(toClient) + 1 /\ Len(toClient) \in Nat
        /\ toClient'[Len(toClient) + 1] = m
    BY <1>1, <1>3, SentElements
  <2> QED BY <2>1
<1>4. CASE HearStatus
  <2>1. session.state = "on" /\ toClient' = Append(toClient, CachedHello)
    BY <1>2, <1>4 DEF HearStatus, SendHello
  <2>2. \A i \in Rows : i <= highSeen BY <1>1, <1>4, <2>1, StatusIsCurrent
  <2>3. toClient'[k].high = highSeen
    BY <1>3, <2>1 DEF CachedHello, HelloFromAgent
  <2>4. Rows' = Rows BY <1>4 DEF HearStatus, stored, Rows
  <2> QED BY <2>2, <2>3, <2>4 DEF Unshown
<1>5. CASE Greet
  <2>1. toClient' = Append(toClient, HelloFromAgent(Floor, High)) BY <1>5 DEF Greet
  <2>2. toClient'[k].high = High BY <1>3, <2>1 DEF HelloFromAgent
  <2>3. Rows' = Rows BY <1>5 DEF Greet, spoolVars, stored, Rows
  <2> QED BY <1>1, <2>2, <2>3, BoundsOfTable DEF Unshown
<1>6. CASE HearRecorded
  <2>1. toClient' = Append(toClient, EventFrame(Head(toHub).id))
    BY <1>2, <1>6 DEF HearRecorded
  <2>2. toClient'[k].kind = "event" BY <1>3, <2>1 DEF EventFrame
  <2> QED BY <2>2
<1>7. CASE ReadPage
  <2>1. {i \in Rows : i > session.through} # {} BY <1>2, <1>7 DEF ReadPage
  <2>2. PICK n \in Nat :
            /\ Len(toClient') = Len(toClient) + n /\ Len(toClient) \in Nat
            /\ \A l \in 1 .. n : \E i : toClient'[Len(toClient) + l] = EventFrame(i)
    BY <1>1, <1>7, <2>1, PageElements
  <2>3. k - Len(toClient) \in 1 .. n /\ Len(toClient) + (k - Len(toClient)) = k
    BY <2>2
  <2>4. \E i : toClient'[k] = EventFrame(i) BY <2>2, <2>3
  <2> QED BY <2>4 DEF EventFrame
<1> QED
  BY <1>2, <1>4, <1>5, <1>6, <1>7, MisreadsAlone
  DEF AgentSide, AgentEnds, AgentDrops, GreetUnreadable, Start, Crash, Write,
      AgentStep, Misreads, Emit, ReadBounds, TakeAck,
      vars, deliveryVars, wire

\* What a session is marked with goes back to a safe cursor, stays, or is the
\* last event that is sent.
LEMMA AgentMarks ==
    ASSUME Assumptions, DInv, AgentSide, session'.state = "on"
    PROVE  \/ reading' # "no"
           \/ session.state = "on" /\ session'.through = session.through
           \/ \E k \in 1 .. Len(toClient') :
                 toClient'[k].kind = "event" /\ toClient'[k].id = session'.through
<1>1. TypeOK /\ IInv /\ Links BY DEF DInv, Base
<1>2. session \in [state : {"off", "greeting", "on"}, ack : Nat, through : Nat,
                   replaying : BOOLEAN]
  BY <1>1 DEF TypeOK
<1>3. CASE UNCHANGED session BY <1>3
<1>4. CASE Start \/ Crash \/ AgentEnds
  BY <1>1, <1>4
  DEF Start, StartWriter, Links, Crash, AgentEnds, AgentDrops, GreetUnreadable, Cut,
      NoSession
<1>5. CASE Greet \/ ReadBounds BY <1>5 DEF Greet, ReadBounds
<1>6. CASE ReadPage
  <2>1. session.state = "on" BY <1>1, <1>6 DEF TypeOK, ReadPage
  <2>2. CASE {i \in Rows : i > session.through} = {}
    <3>1. session' = [session EXCEPT !.replaying = FALSE]
      BY <1>6, <2>2 DEF ReadPage
    <3> QED BY <1>2, <2>1, <3>1
  <2>3. CASE {i \in Rows : i > session.through} # {}
    <3>1. PICK n \in 1 .. PageSize :
          \E page \in [1 .. n -> {i \in Rows : i > session.through}] :
              /\ session' = [session EXCEPT !.replaying = TRUE, !.through = page[n]]
              /\ n \in Nat \ {0}
              /\ Len(toClient') = Len(toClient) + n /\ Len(toClient) \in Nat
              /\ \A k \in 1 .. n : toClient'[Len(toClient) + k] = EventFrame(page[k])
      BY <1>1, <1>6, <2>3, PageElements
    <3>2. n \in Nat \ {0} /\ n \in 1 .. n BY <3>1
    <3>3. PICK j : /\ session' = [session EXCEPT !.replaying = TRUE, !.through = j]
                   /\ Len(toClient') = Len(toClient) + n /\ Len(toClient) \in Nat
                   /\ toClient'[Len(toClient) + n] = EventFrame(j)
      BY <3>1, <3>2
    <3>4. session'.through = j BY <1>2, <3>3
    <3>5. Len(toClient) + n \in 1 .. Len(toClient') BY <3>2, <3>3
    <3> QED BY <3>3, <3>4, <3>5 DEF EventFrame
  <2> QED BY <2>2, <2>3
<1>7. CASE HearRecorded
  <2>1. PICK h \in Nat \ {0} : h = Head(toHub).id
    BY <1>1, <1>7, HeardSignal DEF HearRecorded
  <2>2. CASE ~IsBroadcast(h) BY <1>3, <1>7, <2>1, <2>2 DEF HearRecorded
  <2>3. CASE IsBroadcast(h)
    <3>1. /\ session' = [session EXCEPT !.through = h]
          /\ toClient' = Append(toClient, EventFrame(h))
      BY <1>7, <2>1, <2>3 DEF HearRecorded
    <3>2. session'.through = h BY <1>2, <3>1
    <3>3. /\ Len(toClient') = Len(toClient) + 1 /\ Len(toClient) \in Nat
          /\ toClient'[Len(toClient) + 1] = EventFrame(h)
      BY <1>1, <3>1, SentElements
    <3>4. Len(toClient) + 1 \in 1 .. Len(toClient') BY <3>3
    <3> QED BY <3>2, <3>3, <3>4 DEF EventFrame
  <2> QED BY <2>2, <2>3
<1>8. CASE TakeAck
  <2>1. \/ session' = session
        \/ session' = [session EXCEPT !.ack = Max({session.ack, Head(toAgent).id})]
    BY <1>8 DEF TakeAck
  <2>2. session.state = "on" BY <1>8 DEF TakeAck
  <2> QED BY <1>2, <2>1, <2>2
<1> QED
  BY <1>3, <1>4, <1>5, <1>6, <1>7, <1>8, MisreadsAlone
  DEF AgentSide, Write, AgentStep, Misreads, Emit, Overflow, HearStatus, vars,
      deliveryVars, hub

\* What the Agent marks as sent is under way.
LEMMA AgentSkipsNothing ==
    ASSUME Assumptions, DInv, DInv', SentIsUnderway, AgentSide, AgentSends, Moves
    PROVE  SentIsUnderway'
<1>1. SUFFICES ASSUME session'.state = "on", NEW i \in Unshown', i <= session'.through
               PROVE  Underway(i, Len(toClient))'
  BY DEF SentIsUnderway
<1>2. /\ \A j \in Unshown' : j \in Nat /\ (j \in Unshown \/ j > Len(log))
      /\ Len(log) \in Nat
  BY MovesKeep DEF DInv, Base
<1>3. session'.through \in Nat /\ Streams' BY <1>1 DEF DInv, Base, TypeOK, Links
<1>4. CASE reading' # "no"
  <2>1. \A j \in Unshown' : session'.through < j
    BY <1>1, <1>4 DEF DInv, Base, SessionIsSafe, Safe
  <2> QED BY <1>1, <1>2, <1>3, <2>1
<1>5. CASE session.state = "on" /\ session'.through = session.through
  <2>1. session.through \in 0 .. Len(log) BY <1>5 DEF DInv, Base, SessionIsSafe
  <2>2. i \in Unshown BY <1>1, <1>2, <1>5, <2>1
  <2>3. Underway(i, Len(toClient)) BY <1>1, <1>5, <2>2 DEF SentIsUnderway
  <2>4. PICK n \in Nat : n = Len(toClient) /\ n \in 0 .. Len(toClient)
        /\ n <= Len(toClient')
    BY DEF AgentSends
  <2>5. Underway(i, n)' BY <2>3, <2>4, AgentKeepsUnderway
  <2>6. \A l \in 1 .. n : l \in 1 .. Len(toClient') BY <2>4 DEF AgentSends
  <2> QED BY <2>5, <2>6 DEF Underway, Waiting, InGui, InInbox, InSent
<1>6. ASSUME NEW k \in 1 .. Len(toClient'), toClient'[k].kind = "event",
             toClient'[k].id = session'.through
      PROVE  Underway(i, Len(toClient))'
  <2>1. Underway(i, k)' BY <1>1, <1>3, <1>6 DEF DInv, Base, SentIsCovered
  <2>2. \A l \in 1 .. k : l \in 1 .. Len(toClient') BY <1>6 DEF AgentSends
  <2> QED BY <2>1, <2>2 DEF Underway, Waiting, InGui, InInbox, InSent
<1> QED BY <1>1, <1>4, <1>5, <1>6, AgentMarks

\* Every step that does not find the queue full leaves nothing out.
LEMMA StepLeavesNothingOut ==
    ASSUME Assumptions, DInv, DInv', Complete, [Next /\ ~Overflow]_vars, ~misled'
    PROVE  Complete'
<1>1. TypeOK /\ IInv /\ Links BY DEF DInv, Base
<1>2. StatusesEnd /\ HighIsCurrent /\ HellosAreCurrent /\ SentIsUnderway
  BY DEF Complete
<1>3. [Next]_vars /\ (~Overflow \/ UNCHANGED vars) OBVIOUS
<1>4. StatusesEnd' /\ HighIsCurrent'
  BY <1>1, <1>2, <1>3, StatusesStayLast, HighStaysCurrent
<1>5. SUFFICES HellosAreCurrent' /\ SentIsUnderway' BY <1>4 DEF Complete
<1>6. CASE ReplaceDatabase
  <2>1. /\ log' = <<>> /\ pruned' = 0 /\ UNCHANGED session /\ session.state # "on"
    BY <1>1, <1>6 DEF ReplaceDatabase, hub, Links
  <2>2. Unshown' = {} BY <2>1 DEF Unshown, Rows
  <2> QED BY <2>1, <2>2 DEF HellosAreCurrent, SentIsUnderway
<1>7. CASE ~ReplaceDatabase /\ AgentSide /\ ~Overflow
  <2>1. AgentSends /\ Moves BY <1>1, <1>3, <1>7, AgentSideSends, StepMoves
  <2>2. HellosAreCurrent' BY <1>2, <1>7, <2>1, AgentHellos, HellosStayCurrent
  <2>3. SentIsUnderway' BY <1>2, <1>7, <2>1, AgentSkipsNothing
  <2> QED BY <2>2, <2>3
<1>8. CASE ConnectionStep /\ ~AgentEnds
  <2>1. toClient' = <<>> /\ session'.state # "on"
    BY <1>1, <1>8
    DEF ConnectionStep, AgentEnds, ClientDrops, UIQuits, ClientNotices, Connect, Cut,
        NoSession, hub
  <2>2. \A k \in 1 .. Len(toClient') : FALSE BY <2>1
  <2> QED BY <2>1, <2>2 DEF HellosAreCurrent, SentIsUnderway
<1>9. CASE ClientStep
  <2>1. ClientMoves(0) \/ ClientMoves(1)
    BY <1>9, TakesEventMoves, FlushMoves, RenderMoves, AcknowledgeMoves, TakesHelloMoves
    DEF ClientStep
  <2> QED BY <1>2, <2>1, ClientKeepsAll
<1>10. UNCHANGED vars => ~ReplaceDatabase /\ ~Overflow
  <2>1. UNCHANGED vars => UNCHANGED <<epoch, emits>>
    BY DEF vars, deliveryVars, spoolVars, limits
  <2>2. epoch \in Nat /\ emits \in Nat
    BY <1>1 DEF TypeOK, SpoolTypeOK, LimitsOK
  <2> QED BY <2>1, <2>2 DEF ReplaceDatabase, Overflow, Emits
<1> QED BY <1>3, <1>6, <1>7, <1>8, <1>9, <1>10 DEF Next, AgentSide

\* As long as the writer's queue has room for what is emitted, and no session went
\* on without what it had to read, whatever the Agent has marked as sent to a
\* client was rendered or is on its way: a hello that is sent in the middle of a
\* session makes the client drop nothing, onEvent, onCriticalRecorded,
\* onAuditReadyChanged and HubClient::onReadyRead.
THEOREM NothingSkippedWithRoom == HasRoom => []NothingSkipped
<1>1. Assumptions BY SpoolAssumption, DeliveryAssumption DEF Assumptions
<1> DEFINE Completed == Delivered /\ (~misled => Complete)
<1>2. Init => Completed
  <2>1. SUFFICES ASSUME Init PROVE Completed OBVIOUS
  <2>2. /\ toHub = <<>> /\ log = <<>> /\ pruned = 0 /\ toClient = <<>>
        /\ session.state = "off"
    BY <2>1 DEF Init, SpoolInit, NoSession
  <2>3. Complete
    BY <2>2
    DEF Complete, StatusesEnd, HighIsCurrent, HellosAreCurrent, SentIsUnderway, Rows
  <2> QED BY <1>1, <2>1, <2>3, InitHolds DEF Delivered, DInv
<1>3. Completed /\ [Next /\ ~Overflow]_vars => Completed'
  <2>1. SUFFICES ASSUME Completed, [Next /\ ~Overflow]_vars PROVE Completed' OBVIOUS
  <2>2. [Next]_vars BY <2>1
  <2>3. misled => misled' BY <1>1, <2>1, <2>2, StepReads DEF Delivered, Base
  <2>4. Base' BY <1>1, <2>1, <2>2, BaseHolds DEF Delivered
  <2>5. ~misled' => DInv' BY <1>1, <2>1, <2>2, <2>3, StepHolds DEF Delivered
  <2>6. ~misled' => Complete'
    BY <1>1, <2>1, <2>3, <2>5, StepLeavesNothingOut DEF Delivered
  <2> QED BY <2>4, <2>5, <2>6 DEF Delivered
<1>4. Completed => NothingSkipped
  <2>1. SUFFICES ASSUME DInv, Complete, session.state = "on",
                        NEW i \in Rows, i <= session.through, ~Shown(i)
                 PROVE  i \in InFlight
    BY DEF NothingSkipped, Shown, Delivered
  <2>2. Underway(i, Len(toClient))
    BY <2>1 DEF Complete, SentIsUnderway, Unshown
  <2>3. TypeOK BY <2>1 DEF DInv, Base
  <2> QED BY <2>2, <2>3, IdsByPlace DEF Underway, Waiting, InGui, InInbox, InSent, InFlight
<1> HIDE DEF Completed
<1> QED BY <1>2, <1>3, <1>4, PTL DEF HasRoom
=============================================================================
