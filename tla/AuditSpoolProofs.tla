--------------------------- MODULE AuditSpoolProofs ---------------------------
(***************************************************************************)
(* Machine-checked proofs about AuditSpool, for every set of events and    *)
(* every bound.                                                            *)
(***************************************************************************)
EXTENDS AuditSpool, TLAPS

(***************************************************************************)
(* The inductive invariant.                                                *)
(***************************************************************************)

\* The writer has not read beyond the file, and forgets its place with it.
OffsetIsInFile == offset < Len(spool) \/ (spool = <<>> /\ offset = 0)

\* What the writer has read of the file is in the table.
DrainedAreRecorded ==
    \A k \in 1 .. offset :
        spool[k] \in Events /\ \E i \in DOMAIN log : log[i] = spool[k]

\* The Agent is told only of rows that exist, and that are events.
SignalsAreRows ==
    \A n \in DOMAIN toHub : toHub[n].kind = "recorded" =>
        toHub[n].id <= Len(log) /\ log[toHub[n].id] \in Events

\* As long as no append was cut short, every line is an event, and none that
\* was accepted is lost.
WholeLines ==
    tears = 0 => /\ \A k \in DOMAIN spool : spool[k] \in Events
                 /\ AcceptedSurvives

IInv ==
    /\ SpoolTypeOK
    /\ OffsetIsInFile
    /\ DrainedAreRecorded
    /\ SignalsAreRows
    /\ SignalsAscend
    /\ OneRowEach
    /\ WholeLines

-----------------------------------------------------------------------------
(* Sequences, as the file, the table and the queues use them.              *)

\* Append puts its element behind the others.
LEMMA AppendElements ==
    ASSUME NEW S, NEW s \in Seq(S), NEW e \in S
    PROVE  /\ Append(s, e) \in Seq(S)
           /\ Len(Append(s, e)) = Len(s) + 1
           /\ \A i \in 1 .. Len(s) : Append(s, e)[i] = s[i]
           /\ Append(s, e)[Len(s) + 1] = e
OBVIOUS

\* Tail moves every element but the first one forward.
LEMMA TailElements ==
    ASSUME NEW S, NEW s \in Seq(S), s # <<>>
    PROVE  /\ Len(s) \in Nat \ {0}
           /\ Head(s) \in S
           /\ Tail(s) \in Seq(S)
           /\ Len(Tail(s)) = Len(s) - 1
           /\ \A i \in 1 .. Len(s) - 1 : Tail(s)[i] = s[i + 1]
OBVIOUS

-----------------------------------------------------------------------------
(* What an append does to the file.                                        *)

\* The file keeps its readable lines where they are.
SpoolGrows ==
    /\ spool' \in Seq(Lines)
    /\ Len(spool) <= Len(spool')
    /\ \A k \in 1 .. Len(spool) : spool[k] \in Events => spool'[k] = spool[k]

\* ... and there is a line the writer has not read.
SpoolHasMore == SpoolGrows /\ offset < Len(spool')

\* A line that was written, also behind an unfinished one.
LEMMA AppendedGrows ==
    ASSUME SpoolAssumption, IInv, NEW e \in Events, spool' = Appended(e)
    PROVE  /\ SpoolHasMore /\ spool' # <<>>
           /\ (\A k \in DOMAIN spool : spool[k] \in Events) =>
                 /\ \A k \in DOMAIN spool' : spool'[k] \in Events
                 /\ \E k \in DOMAIN spool' : spool'[k] = e
<1> USE DEF Lines
<1>1. spool \in Seq(Lines) /\ offset \in Nat BY DEF IInv, SpoolTypeOK
<1>2. CASE spool # <<>> /\ Last(spool) = Torn
  <2>1. spool' = [spool EXCEPT ![Len(spool)] = Garbage] BY <1>2 DEF Appended
  <2>2. Last(spool) = spool[Len(spool)] /\ Len(spool) \in Nat \ {0}
    BY <1>1, <1>2 DEF Last
  <2>3. Garbage \in Lines OBVIOUS
  <2>4. /\ spool' \in Seq(Lines)
        /\ Len(spool') = Len(spool)
        /\ \A i \in 1 .. Len(spool) - 1 : spool'[i] = spool[i]
    BY <1>1, <2>1, <2>2, <2>3
  <2>5. spool[Len(spool)] \notin Events BY <1>2, <2>2 DEF SpoolAssumption
  <2>6. SpoolGrows BY <1>1, <2>2, <2>4, <2>5 DEF SpoolGrows
  <2>7. offset < Len(spool) BY <1>2 DEF IInv, OffsetIsInFile
  <2> QED BY <1>1, <2>2, <2>4, <2>5, <2>6, <2>7 DEF SpoolHasMore
<1>3. CASE ~(spool # <<>> /\ Last(spool) = Torn)
  <2>1. spool' = Append(spool, e) BY <1>3 DEF Appended
  <2>2. e \in Lines OBVIOUS
  <2>3. /\ spool' \in Seq(Lines)
        /\ Len(spool') = Len(spool) + 1
        /\ \A i \in 1 .. Len(spool) : spool'[i] = spool[i]
        /\ spool'[Len(spool) + 1] = e
    BY <1>1, <2>1, <2>2, AppendElements
  <2>4. offset <= Len(spool) BY DEF IInv, SpoolTypeOK
  <2>5. DOMAIN spool' = 1 .. Len(spool) + 1 /\ DOMAIN spool = 1 .. Len(spool)
        /\ Len(spool) \in Nat
    BY <1>1, <2>3
  <2> QED BY <1>1, <2>3, <2>4, <2>5 DEF SpoolHasMore, SpoolGrows
<1> QED BY <1>2, <1>3

\* What an append that is cut short leaves.
LEMMA CutShortGrows ==
    ASSUME SpoolAssumption, IInv, CutShort
    PROVE  SpoolGrows /\ tears' # 0 /\ tears' \in 0 .. MaxTears
<1>1. spool \in Seq(Lines) /\ Len(spool) \in Nat BY DEF IInv, SpoolTypeOK
<1>2. ASSUME spool' = spool PROVE SpoolGrows BY <1>1, <1>2 DEF SpoolGrows
<1>3. ASSUME spool' = Append(spool, Torn) PROVE SpoolGrows
  <2>1. Torn \in Lines BY DEF Lines
  <2>2. /\ spool' \in Seq(Lines) /\ Len(spool') = Len(spool) + 1
        /\ \A i \in 1 .. Len(spool) : spool'[i] = spool[i]
    BY <1>1, <1>3, <2>1, AppendElements
  <2> QED BY <1>1, <2>2 DEF SpoolGrows
<1>4. tears' # 0 /\ tears' \in 0 .. MaxTears
  BY DEF CutShort, IInv, SpoolTypeOK, SpoolAssumption
<1> QED BY <1>2, <1>3, <1>4 DEF CutShort

-----------------------------------------------------------------------------
(* What a row does to the table.                                           *)

\* Rows are only added behind the others, or deleted from the front.
LogGrows ==
    /\ log' \in Seq(Events \union {Other})
    /\ Len(log) <= Len(log')
    /\ \A i \in 1 .. Len(log) : log'[i] = log[i]
    /\ pruned <= pruned' /\ pruned' \in 0 .. Len(log')

\* A row was added to the table.
LEMMA AddedGrows ==
    ASSUME IInv, NEW x \in Events \union {Other}, log' = Append(log, x), Prune
    PROVE  LogGrows /\ Len(log') = Len(log) + 1 /\ log'[Len(log) + 1] = x
<1>1. log \in Seq(Events \union {Other}) /\ pruned \in 0 .. Len(log)
  BY DEF IInv, SpoolTypeOK
<1>2. /\ log' \in Seq(Events \union {Other}) /\ Len(log') = Len(log) + 1
      /\ \A i \in 1 .. Len(log) : log'[i] = log[i]
      /\ log'[Len(log) + 1] = x
  BY <1>1, AppendElements
<1>3. Len(log) \in Nat /\ Len(log') \in Nat BY <1>1, <1>2
<1>4. pruned <= pruned' /\ pruned' \in 0 .. Len(log')
  BY <1>1, <1>2, <1>3 DEF Prune
<1> QED BY <1>1, <1>2, <1>3, <1>4 DEF LogGrows

\* persist records the event and makes no second row.
LEMMA InsertRecords ==
    ASSUME SpoolAssumption, IInv, NEW e \in Events, Insert(e), Prune
    PROVE  LogGrows /\ OneRowEach' /\ \E i \in DOMAIN log' : log'[i] = e
<1>1. log \in Seq(Events \union {Other}) /\ pruned \in 0 .. Len(log)
      /\ Len(log) \in Nat /\ OneRowEach
  BY DEF IInv, SpoolTypeOK
<1>2. CASE Recorded(e)
  <2>1. log' = log BY <1>2 DEF Insert
  <2>2. LogGrows BY <1>1, <2>1 DEF LogGrows, Prune
  <2>3. OneRowEach'
    <3>1. ASSUME NEW i \in Rows' PROVE i \in Rows
      <4>1. i \in pruned' + 1 .. Len(log) /\ log[i] \in Events BY <2>1 DEF Rows
      <4>2. pruned <= pruned' /\ pruned' \in 0 .. Len(log) BY <2>1, <2>2 DEF LogGrows
      <4>3. i \in pruned + 1 .. Len(log)
        <5>1. PICK p \in Nat : p = pruned' BY <1>1, <4>2
        <5>2. i \in p + 1 .. Len(log) BY <4>1, <5>1
        <5>3. pruned \in Nat /\ pruned <= p BY <1>1, <4>2, <5>1
        <5> QED BY <1>1, <5>2, <5>3
      <4> QED BY <4>1, <4>3 DEF Rows
    <3> QED BY <1>1, <2>1, <3>1 DEF OneRowEach
  <2>4. \E i \in DOMAIN log : log[i] = e BY <1>1, <1>2 DEF Recorded, Rows
  <2> QED BY <2>1, <2>2, <2>3, <2>4
<1>3. CASE ~Recorded(e)
  <2>1. log' = Append(log, e) BY <1>3 DEF Insert
  <2>2. LogGrows /\ Len(log') = Len(log) + 1 /\ log'[Len(log) + 1] = e
    BY <2>1, AddedGrows
  <2>3. \A i \in Rows : log[i] # e BY <1>3 DEF Recorded
  <2>4. ASSUME NEW i \in Rows', i # Len(log) + 1
        PROVE  i \in Rows /\ log'[i] = log[i]
    <3>1. i \in pruned' + 1 .. Len(log') /\ log'[i] \in Events BY DEF Rows
    <3>2. i \in pruned + 1 .. Len(log) /\ i \in 1 .. Len(log)
      BY <1>1, <2>2, <2>4, <3>1 DEF LogGrows
    <3> QED BY <2>2, <3>1, <3>2 DEF Rows, LogGrows
  <2>5. OneRowEach' BY <1>1, <2>2, <2>3, <2>4 DEF OneRowEach
  <2>6. Len(log) + 1 \in DOMAIN log' BY <1>1, <2>2 DEF LogGrows
  <2> QED BY <2>2, <2>5, <2>6
<1> QED BY <1>2, <1>3

\* Another row is no event.
LEMMA OtherKeepsOne ==
    ASSUME SpoolAssumption, IInv, log' = Append(log, Other), Prune
    PROVE  LogGrows /\ OneRowEach'
<1>1. log \in Seq(Events \union {Other}) /\ pruned \in 0 .. Len(log)
      /\ Len(log) \in Nat /\ OneRowEach
  BY DEF IInv, SpoolTypeOK
<1>2. LogGrows /\ Len(log') = Len(log) + 1 /\ log'[Len(log) + 1] = Other
  BY AddedGrows
<1>3. ASSUME NEW i \in Rows' PROVE i \in Rows /\ log'[i] = log[i]
  <2>1. i \in pruned' + 1 .. Len(log') /\ log'[i] \in Events BY DEF Rows
  <2>2. i # Len(log) + 1 BY <1>2, <2>1 DEF SpoolAssumption
  <2>3. i \in pruned + 1 .. Len(log) /\ i \in 1 .. Len(log)
    BY <1>1, <1>2, <2>1, <2>2 DEF LogGrows
  <2> QED BY <1>2, <2>1, <2>3 DEF Rows, LogGrows
<1> QED BY <1>1, <1>2, <1>3 DEF OneRowEach

-----------------------------------------------------------------------------
(* What is kept when the file and the table grow.                          *)

\* What was readable or recorded stays so.
LEMMA GrowthHolds ==
    ASSUME IInv, SpoolGrows, LogGrows, NEW e \in Events, Held(e)
    PROVE  Held(e)'
<1>1. /\ DOMAIN spool = 1 .. Len(spool) /\ Len(spool) \in Nat
      /\ DOMAIN log = 1 .. Len(log) /\ Len(log) \in Nat
  BY DEF IInv, SpoolTypeOK
<1>2. /\ DOMAIN spool' = 1 .. Len(spool') /\ Len(spool') \in Nat
      /\ DOMAIN log' = 1 .. Len(log') /\ Len(log') \in Nat
  BY DEF SpoolGrows, LogGrows
<1>3. CASE \E k \in DOMAIN spool : spool[k] = e
  <2>1. PICK k \in 1 .. Len(spool) : spool[k] = e BY <1>1, <1>3
  <2>2. spool'[k] = e /\ k \in DOMAIN spool' BY <1>1, <1>2, <2>1 DEF SpoolGrows
  <2> QED BY <2>2 DEF Held
<1>4. CASE \E i \in DOMAIN log : log[i] = e
  <2>1. PICK i \in 1 .. Len(log) : log[i] = e BY <1>1, <1>4
  <2>2. log'[i] = e /\ i \in DOMAIN log' BY <1>1, <1>2, <2>1 DEF LogGrows
  <2> QED BY <2>2 DEF Held
<1> QED BY <1>3, <1>4 DEF Held

\* What was drained stays in the table.
LEMMA GrowthKeepsDrained ==
    ASSUME IInv, SpoolGrows, LogGrows, offset' = offset \/ offset' = 0
    PROVE  DrainedAreRecorded'
<1>1. /\ offset \in 0 .. Len(spool) /\ Len(spool) \in Nat
      /\ DOMAIN log = 1 .. Len(log) /\ Len(log) \in Nat
  BY DEF IInv, SpoolTypeOK
<1>2. DOMAIN log' = 1 .. Len(log') /\ Len(log') \in Nat BY DEF LogGrows
<1>3. SUFFICES ASSUME NEW k \in 1 .. offset
               PROVE  spool'[k] \in Events
                      /\ \E i \in DOMAIN log' : log'[i] = spool'[k]
  BY <1>1 DEF DrainedAreRecorded
<1>4. PICK i \in DOMAIN log : log[i] = spool[k] /\ spool[k] \in Events
  BY DEF IInv, DrainedAreRecorded
<1>5. spool'[k] = spool[k] BY <1>1, <1>4 DEF SpoolGrows
<1>6. log'[i] = log[i] /\ i \in DOMAIN log' BY <1>1, <1>2, <1>4 DEF LogGrows
<1> QED BY <1>4, <1>5, <1>6

\* A queue that lost its first signals still ascends and names rows.
SignalsShrink ==
    \/ toHub' = toHub
    \/ toHub' = <<>>
    \/ toHub # <<>> /\ toHub' = Tail(toHub)
    \/ toHub' = Append(toHub, StatusSignal)

\* A table that grows keeps the rows that were signalled.
LEMMA SignalsStay ==
    ASSUME IInv, LogGrows, NEW n \in DOMAIN toHub, toHub[n].kind = "recorded"
    PROVE  toHub[n].id <= Len(log') /\ log'[toHub[n].id] \in Events
<1>1. toHub[n].id \in Nat \ {0}
  <2>1. toHub[n] \in Signals BY DEF IInv, SpoolTypeOK
  <2> QED BY <2>1 DEF Signals
<1>2. toHub[n].id <= Len(log) /\ log[toHub[n].id] \in Events
  BY DEF IInv, SignalsAreRows
<1>3. Len(log) \in Nat /\ Len(log') \in Nat /\ Len(log) <= Len(log')
      /\ \A i \in 1 .. Len(log) : log'[i] = log[i]
  BY DEF IInv, SpoolTypeOK, LogGrows
<1>4. toHub[n].id \in 1 .. Len(log) BY <1>1, <1>2, <1>3
<1> QED BY <1>1, <1>2, <1>3, <1>4

LEMMA ShrinkKeepsSignals ==
    ASSUME IInv, SignalsShrink, LogGrows
    PROVE  /\ toHub' \in Seq(Signals)
           /\ SignalsAreRows' /\ SignalsAscend'
<1>1. toHub \in Seq(Signals) /\ Len(toHub) \in Nat /\ Len(log) \in Nat
      /\ SignalsAreRows /\ SignalsAscend
  BY DEF IInv, SpoolTypeOK
<1>2. \A n \in DOMAIN toHub : toHub[n] \in Signals /\ toHub[n].id \in Nat
  <2>1. \A n \in DOMAIN toHub : toHub[n] \in Signals BY <1>1
  <2>2. \A s \in Signals : s.id \in Nat BY DEF Signals
  <2> QED BY <2>1, <2>2
<1>3. \A n \in DOMAIN toHub : toHub[n].kind = "recorded" =>
         toHub[n].id <= Len(log') /\ log'[toHub[n].id] \in Events
  BY SignalsStay
<1>4. CASE toHub' = toHub
  BY <1>1, <1>3, <1>4 DEF SignalsAreRows, SignalsAscend
<1>5. CASE toHub' = <<>>
  BY <1>5 DEF SignalsAreRows, SignalsAscend
<1>6. CASE toHub # <<>> /\ toHub' = Tail(toHub)
  <2>1. /\ toHub' \in Seq(Signals) /\ Len(toHub') = Len(toHub) - 1
        /\ \A i \in 1 .. Len(toHub) - 1 : toHub'[i] = toHub[i + 1]
        /\ Len(toHub) \in Nat \ {0}
    BY <1>1, <1>6, TailElements
  <2>2. \A i \in DOMAIN toHub' : i \in Int /\ toHub'[i] = toHub[i + 1]
                                /\ i + 1 \in DOMAIN toHub
    BY <1>1, <2>1
  <2>3. SignalsAreRows' BY <1>3, <2>2 DEF SignalsAreRows
  <2>4. SignalsAscend'
    <3>1. SUFFICES ASSUME NEW m \in DOMAIN toHub', NEW n \in DOMAIN toHub',
                          m < n, toHub'[m].kind = "recorded",
                          toHub'[n].kind = "recorded"
                   PROVE  toHub'[m].id < toHub'[n].id
      BY DEF SignalsAscend
    <3>2. m + 1 < n + 1 BY <2>2, <3>1
    <3> QED BY <1>1, <2>2, <3>1, <3>2 DEF SignalsAscend
  <2> QED BY <2>1, <2>3, <2>4
<1>7. CASE toHub' = Append(toHub, StatusSignal)
  <2>1. StatusSignal \in Signals /\ StatusSignal.kind = "status"
    BY DEF StatusSignal, Signals
  <2>2. /\ toHub' \in Seq(Signals) /\ Len(toHub') = Len(toHub) + 1
        /\ \A i \in 1 .. Len(toHub) : toHub'[i] = toHub[i]
        /\ toHub'[Len(toHub) + 1] = StatusSignal
    BY <1>1, <1>7, <2>1, AppendElements
  <2>3. \A i \in DOMAIN toHub' : toHub'[i].kind = "recorded" =>
           i \in DOMAIN toHub /\ toHub'[i] = toHub[i]
    BY <1>1, <2>1, <2>2
  <2> QED BY <1>1, <1>3, <2>2, <2>3 DEF SignalsAreRows, SignalsAscend
<1> QED BY <1>4, <1>5, <1>6, <1>7 DEF SignalsShrink

-----------------------------------------------------------------------------
(* Every step but DrainLine only adds to the file and the table.           *)

\* As long as no append was cut short, whole lines stay whole, and what is
\* accepted is held.
WholeLinesKept ==
    tears' = 0 =>
        /\ tears = 0
        /\ (\A k \in DOMAIN spool : spool[k] \in Events) =>
              /\ \A k \in DOMAIN spool' : spool'[k] \in Events
              /\ \A e \in kept' \ kept : Held(e)'

Grows ==
    /\ SpoolGrows /\ LogGrows /\ SignalsShrink /\ OneRowEach' /\ WholeLinesKept
    /\ offset' = offset \/ offset' = 0

\* Files that are left alone.
LEMMA SpoolUnchanged ==
    ASSUME IInv, UNCHANGED spool
    PROVE  SpoolGrows
BY DEF SpoolGrows, IInv, SpoolTypeOK

LEMMA LogUnchanged ==
    ASSUME IInv, UNCHANGED <<log, pruned>>
    PROVE  LogGrows /\ OneRowEach'
<1>1. LogGrows BY DEF LogGrows, IInv, SpoolTypeOK
<1>2. OneRowEach' BY DEF OneRowEach, Rows, IInv
<1> QED BY <1>1, <1>2

LEMMA GrowingStep ==
    ASSUME SpoolAssumption, IInv, SpoolNext, ~DrainLine
    PROVE  Grows
<1>1. CASE StartWriter
  BY <1>1, SpoolUnchanged, LogUnchanged
  DEF StartWriter, stored, limits, Grows, SignalsShrink, WholeLinesKept
<1>2. CASE CrashWriter
  BY <1>2, SpoolUnchanged, LogUnchanged
  DEF CrashWriter, LoseWriter, stored, Grows, SignalsShrink, WholeLinesKept
<1>3. CASE EmitEvent
  BY <1>3, SpoolUnchanged, LogUnchanged
  DEF EmitEvent, Enqueue, Emits, stored, Grows, SignalsShrink, WholeLinesKept
<1>4. CASE HearSignal
  BY <1>4, SpoolUnchanged, LogUnchanged
  DEF HearSignal, stored, limits, Grows, SignalsShrink, WholeLinesKept
<1>5. ASSUME TakesEvent PROVE NextEvent \in Events
  <2>1. toWriter \in Seq(Events) BY DEF IInv, SpoolTypeOK
  <2> QED BY <1>5, <2>1, TailElements DEF NextEvent, TakesEvent
<1>6. CASE AppendLine
  <2>1. PICK e \in Events : e = NextEvent BY <1>5, <1>6 DEF AppendLine
  <2>2. spool' = Appended(e) /\ kept' = kept \union {e} /\ tears' = tears
        /\ UNCHANGED <<log, pruned, offset, toHub>>
    BY <1>6, <2>1 DEF AppendLine, TakesEvent
  <2>3. SpoolGrows BY <2>2, AppendedGrows DEF SpoolHasMore
  <2>4. LogGrows /\ OneRowEach' BY <2>2, LogUnchanged
  <2>5. ASSUME \A k \in DOMAIN spool : spool[k] \in Events
        PROVE  (\A k \in DOMAIN spool' : spool'[k] \in Events) /\ Held(e)'
    BY <2>2, <2>5, AppendedGrows DEF Held
  <2>6. WholeLinesKept BY <2>2, <2>5 DEF WholeLinesKept
  <2> QED BY <2>2, <2>3, <2>4, <2>6 DEF Grows, SignalsShrink
<1>7. CASE AppendFails
  <2>1. PICK e \in Events : e = NextEvent BY <1>5, <1>7 DEF AppendFails
  <2>2. (spool' = spool \/ spool' = Appended(e)) /\ kept' = kept /\ tears' = tears
        /\ UNCHANGED <<log, pruned, offset, toHub>>
    BY <1>7, <2>1 DEF AppendFails, TakesEvent
  <2>3. SpoolGrows BY <2>2, AppendedGrows, SpoolUnchanged DEF SpoolHasMore
  <2>4. LogGrows /\ OneRowEach' BY <2>2, LogUnchanged
  <2>5. WholeLinesKept BY <2>2, AppendedGrows DEF WholeLinesKept
  <2> QED BY <2>2, <2>3, <2>4, <2>5 DEF Grows, SignalsShrink
<1>8. CASE AppendTears
  <2>1. CutShort /\ UNCHANGED <<log, pruned, offset, toHub>>
    BY <1>8 DEF AppendTears, TakesEvent
  <2>2. SpoolGrows /\ tears' # 0 BY <2>1, CutShortGrows
  <2>3. LogGrows /\ OneRowEach' BY <2>1, LogUnchanged
  <2> QED BY <2>1, <2>2, <2>3 DEF Grows, SignalsShrink, WholeLinesKept
<1>9. CASE CrashInAppend
  <2>1. toHub' = <<>> /\ offset' = 0 /\ kept' = kept /\ UNCHANGED <<log, pruned>>
    BY <1>9 DEF CrashInAppend, LoseWriter
  <2>2. LogGrows /\ OneRowEach' BY <2>1, LogUnchanged
  <2>3. CASE CutShort
    BY <2>1, <2>2, <2>3, CutShortGrows DEF Grows, SignalsShrink, WholeLinesKept
  <2>4. CASE spool' = Appended(NextEvent) /\ tears' = tears
    <3>1. NextEvent \in Events
      <4>1. toWriter \in Seq(Events) /\ toWriter # <<>>
        BY <1>9 DEF IInv, SpoolTypeOK, CrashInAppend
      <4> QED BY <4>1, TailElements DEF NextEvent
    <3>2. PICK e \in Events : spool' = Appended(e) BY <2>4, <3>1
    <3>3. SpoolGrows BY <3>2, AppendedGrows DEF SpoolHasMore
    <3>4. WholeLinesKept BY <2>1, <2>4, <3>2, AppendedGrows DEF WholeLinesKept
    <3> QED BY <2>1, <2>2, <3>3, <3>4 DEF Grows, SignalsShrink
  <2> QED BY <1>9, <2>3, <2>4 DEF CrashInAppend
<1>10. CASE CrashInDrain
  <2>1. PICK e \in Events : Insert(e) BY <1>10 DEF CrashInDrain
  <2>2. /\ Prune /\ toHub' = <<>> /\ offset' = 0
        /\ UNCHANGED <<spool, kept, tears>>
    BY <1>10 DEF CrashInDrain, LoseWriter
  <2>3. LogGrows /\ OneRowEach' BY <2>1, <2>2, InsertRecords
  <2> QED BY <2>2, <2>3, SpoolUnchanged DEF Grows, SignalsShrink, WholeLinesKept
<1>11. CASE DrainUnreadable \/ DrainFails
  BY <1>11, SpoolUnchanged, LogUnchanged
  DEF DrainUnreadable, DrainFails, StopWriter, stored, Grows, SignalsShrink,
      WholeLinesKept
<1>12. CASE DrainRefused
  BY <1>12, SpoolUnchanged, LogUnchanged
  DEF DrainRefused, stored, limits, Grows, SignalsShrink, WholeLinesKept
<1>13. CASE RecordOther
  <2>1. UNCHANGED <<spool, offset, kept, tears>> BY <1>13 DEF RecordOther
  <2>2. CASE ready
    <3>1. log' = Append(log, Other) /\ Prune /\ UNCHANGED toHub
      BY <1>13, <2>2 DEF RecordOther
    <3> QED BY <2>1, <3>1, OtherKeepsOne, SpoolUnchanged
            DEF Grows, SignalsShrink, WholeLinesKept
  <2>3. CASE ~ready
    <3>1. toHub' = Append(toHub, StatusSignal) /\ UNCHANGED <<log, pruned>>
      BY <1>13, <2>3 DEF RecordOther
    <3> QED BY <2>1, <3>1, LogUnchanged, SpoolUnchanged
            DEF Grows, SignalsShrink, WholeLinesKept
  <2> QED BY <2>2, <2>3
<1>14. CASE RecordFails
  BY <1>14, SpoolUnchanged, LogUnchanged
  DEF RecordFails, stored, Grows, SignalsShrink, WholeLinesKept
<1> QED
  BY <1>1, <1>2, <1>3, <1>4, <1>6, <1>7, <1>8, <1>9, <1>10, <1>11, <1>12, <1>13,
     <1>14
  DEF SpoolNext, WriterDies, WriterStep

-----------------------------------------------------------------------------
(* DrainLine moves a line from the file to the table.                      *)

\* The Agent is told of a row that is behind all it was told of.
LEMMA AnnounceAscends ==
    ASSUME IInv, NEW e \in Events, Insert(e), Announce(e), LogGrows
    PROVE  toHub' \in Seq(Signals) /\ SignalsAreRows' /\ SignalsAscend'
<1>1. toHub \in Seq(Signals) /\ Len(toHub) \in Nat /\ Len(log) \in Nat
      /\ SignalsAreRows /\ SignalsAscend
  BY DEF IInv, SpoolTypeOK
<1>2. CASE Recorded(e)
  BY <1>2, ShrinkKeepsSignals DEF Announce, SignalsShrink
<1>3. CASE ~Recorded(e)
  <2> DEFINE sig == RecordedSignal(Len(log) + 1)
  <2>1. sig \in Signals /\ sig.id = Len(log) + 1
    BY <1>1 DEF RecordedSignal, Signals
  <2>2. toHub' = Append(toHub, sig) BY <1>3 DEF Announce
  <2> HIDE DEF sig
  <2>3. /\ toHub' \in Seq(Signals) /\ Len(toHub') = Len(toHub) + 1
        /\ \A i \in 1 .. Len(toHub) : toHub'[i] = toHub[i]
        /\ toHub'[Len(toHub) + 1] = sig
    BY <1>1, <2>1, <2>2, AppendElements
  <2>4. log \in Seq(Events \union {Other}) BY DEF IInv, SpoolTypeOK
  <2>5. Len(log') = Len(log) + 1 /\ log'[Len(log) + 1] = e
    BY <1>3, <2>4, AppendElements DEF Insert
  <2>6. \A i \in DOMAIN toHub' : i \in Int /\
           (\/ i \in DOMAIN toHub /\ toHub'[i] = toHub[i] /\ i < Len(toHub) + 1
            \/ i = Len(toHub) + 1 /\ toHub'[i] = sig)
    BY <1>1, <2>3
  <2>7. \A i \in DOMAIN toHub : toHub[i].kind = "recorded" =>
           toHub[i].id \in Nat /\ toHub[i].id <= Len(log)
    <3>1. \A s \in Signals : s.id \in Nat BY DEF Signals
    <3> QED BY <1>1, <3>1 DEF SignalsAreRows
  <2>8. SignalsAreRows'
    <3>1. SUFFICES ASSUME NEW i \in DOMAIN toHub', toHub'[i].kind = "recorded"
                   PROVE  toHub'[i].id <= Len(log') /\ log'[toHub'[i].id] \in Events
      BY DEF SignalsAreRows
    <3>2. CASE i \in DOMAIN toHub /\ toHub'[i] = toHub[i]
      BY <3>1, <3>2, SignalsStay
    <3>3. CASE toHub'[i] = sig
      BY <1>1, <2>1, <2>5, <3>3
    <3> QED BY <2>6, <3>2, <3>3
  <2>9. SignalsAscend'
    <3>1. SUFFICES ASSUME NEW m \in DOMAIN toHub', NEW n \in DOMAIN toHub',
                          m < n, toHub'[m].kind = "recorded",
                          toHub'[n].kind = "recorded"
                   PROVE  toHub'[m].id < toHub'[n].id
      BY DEF SignalsAscend
    <3>2. m \in DOMAIN toHub /\ toHub'[m] = toHub[m] BY <1>1, <2>6, <3>1
    <3>3. CASE n \in DOMAIN toHub /\ toHub'[n] = toHub[n]
      BY <1>1, <3>1, <3>2, <3>3 DEF SignalsAscend
    <3>4. CASE toHub'[n] = sig
      BY <1>1, <2>1, <2>7, <3>1, <3>2, <3>4
    <3> QED BY <2>6, <3>3, <3>4
  <2> QED BY <2>3, <2>8, <2>9
<1> QED BY <1>2, <1>3

\* The line that is read moves to the table, and the place in the file with it.
LEMMA DrainStep ==
    ASSUME SpoolAssumption, IInv, DrainLine
    PROVE  /\ LogGrows /\ OneRowEach' /\ DrainedAreRecorded' /\ OffsetIsInFile'
           /\ spool' = spool \/ spool' = <<>>
           /\ \A e \in Events : Held(e) => Held(e)'
           /\ toHub' \in Seq(Signals) /\ SignalsAreRows' /\ SignalsAscend'
<1> DEFINE n == offset + 1
<1>1. /\ spool \in Seq(Lines) /\ Len(spool) \in Nat /\ offset \in Nat
      /\ n \in 1 .. Len(spool) /\ DOMAIN spool = 1 .. Len(spool)
  BY DEF DrainLine, Drains, IInv, SpoolTypeOK
<1>2. PICK e \in Events : e = spool[n] /\ Insert(e) /\ Announce(e)
  BY DEF DrainLine, NextLine
<1>3. Prune /\ CommitEmergency BY DEF DrainLine
<1>4. LogGrows /\ OneRowEach' /\ \E i \in DOMAIN log' : log'[i] = e
  BY <1>2, <1>3, InsertRecords
<1>5. toHub' \in Seq(Signals) /\ SignalsAreRows' /\ SignalsAscend'
  BY <1>2, <1>4, AnnounceAscends
<1>6. \A k \in 1 .. n : spool[k] \in Events
                       /\ \E i \in DOMAIN log' : log'[i] = spool[k]
  <2>1. SUFFICES ASSUME NEW k \in 1 .. offset
                 PROVE  spool[k] \in Events
                        /\ \E i \in DOMAIN log' : log'[i] = spool[k]
    BY <1>1, <1>2, <1>4
  <2>2. PICK i \in DOMAIN log : log[i] = spool[k] /\ spool[k] \in Events
    BY DEF IInv, DrainedAreRecorded
  <2>3. i \in 1 .. Len(log) /\ Len(log) \in Nat BY <2>2 DEF IInv, SpoolTypeOK
  <2>4. i \in DOMAIN log' /\ log'[i] = log[i]
    BY <1>4, <2>3 DEF LogGrows
  <2> QED BY <2>2, <2>4
<1>7. CASE n < Len(spool)
  <2>1. offset' = n /\ spool' = spool BY <1>3, <1>7 DEF CommitEmergency
  <2>2. DrainedAreRecorded' BY <1>6, <2>1 DEF DrainedAreRecorded
  <2>3. OffsetIsInFile' BY <1>7, <2>1 DEF OffsetIsInFile
  <2>4. SpoolGrows BY <2>1, SpoolUnchanged
  <2> QED BY <1>4, <1>5, <2>1, <2>2, <2>3, <2>4, GrowthHolds
<1>8. CASE ~(n < Len(spool))
  <2>1. offset' = 0 /\ spool' = <<>> BY <1>3, <1>8 DEF CommitEmergency
  <2>2. DrainedAreRecorded' BY <2>1 DEF DrainedAreRecorded
  <2>3. OffsetIsInFile' BY <2>1 DEF OffsetIsInFile
  <2>4. n \in Nat /\ n <= Len(spool) /\ ~(n < Len(spool)) BY <1>1, <1>8
  <2>5. ASSUME NEW d \in Events, Held(d) PROVE Held(d)'
    <3>3. \A k \in DOMAIN spool : k \in 1 .. n BY <1>1, <2>4
    <3>1. CASE \E k \in DOMAIN spool : spool[k] = d
      BY <1>1, <1>6, <3>1, <3>3 DEF Held
    <3>2. CASE \E i \in DOMAIN log : log[i] = d
      <4>1. PICK i \in DOMAIN log : log[i] = d BY <3>2
      <4>2. i \in 1 .. Len(log) /\ Len(log) \in Nat BY <4>1 DEF IInv, SpoolTypeOK
      <4>3. i \in DOMAIN log' /\ log'[i] = log[i] BY <1>4, <4>2 DEF LogGrows
      <4> QED BY <4>1, <4>3 DEF Held
    <3> QED BY <2>5, <3>1, <3>2 DEF Held
  <2> QED BY <1>4, <1>5, <2>1, <2>2, <2>3, <2>5
<1> QED BY <1>7, <1>8

-----------------------------------------------------------------------------
(* Type correctness.                                                       *)

\* What no step but those of the file and the table concerns.
FlagsOK ==
    /\ file \in BOOLEAN /\ up \in BOOLEAN /\ ready \in BOOLEAN /\ draining \in BOOLEAN
    /\ kept \subseteq Events
    /\ ~up => ~ready /\ toWriter = <<>> /\ toHub = <<>> /\ ~draining
    /\ draining => offset < Len(spool)
    /\ spool # <<>> => file

QueueOK == toWriter \in Seq(Events) /\ Len(toWriter) <= QueueLimit

LimitsOK ==
    /\ emits \in 0 .. MaxEmits /\ crashes \in 0 .. MaxCrashes
    /\ faults \in 0 .. MaxFaults /\ tears \in 0 .. MaxTears
    /\ others \in 0 .. MaxOthers

FilesOK ==
    /\ spool \in Seq(Lines) /\ log \in Seq(Events \union {Other})
    /\ pruned \in 0 .. Len(log) /\ offset \in 0 .. Len(spool)
    /\ toHub \in Seq(Signals)

LEMMA TypeParts == SpoolTypeOK <=> FlagsOK /\ QueueOK /\ LimitsOK /\ FilesOK
BY DEF SpoolTypeOK, FlagsOK, QueueOK, LimitsOK, FilesOK

\* The counters stay within their bounds.
LEMMA StepLimits ==
    ASSUME SpoolAssumption, IInv, SpoolNext
    PROVE  LimitsOK'
<1>1. LimitsOK BY TypeParts DEF IInv
<1>2. CASE StartWriter \/ HearSignal \/ AppendLine \/ DrainLine
           \/ DrainUnreadable \/ DrainRefused
  BY <1>1, <1>2
  DEF StartWriter, HearSignal, AppendLine, TakesEvent, DrainLine, DrainUnreadable,
      DrainRefused, StopWriter, limits, LimitsOK
<1>3. CASE CutShort /\ UNCHANGED <<emits, faults, others>>
           /\ (UNCHANGED crashes \/ LoseWriter)
  BY <1>1, <1>3, CutShortGrows DEF LoseWriter, LimitsOK, SpoolAssumption
<1>4. CASE LoseWriter /\ UNCHANGED tears
  BY <1>1, <1>4 DEF LoseWriter, LimitsOK, SpoolAssumption
<1>5. CASE Fails /\ UNCHANGED <<emits, crashes, tears, others>>
  BY <1>1, <1>5 DEF Fails, LimitsOK, SpoolAssumption
<1>6. CASE EmitEvent
  BY <1>1, <1>6 DEF EmitEvent, Enqueue, Emits, LimitsOK, SpoolAssumption
<1>7. CASE RecordOther
  BY <1>1, <1>7 DEF RecordOther, LimitsOK, SpoolAssumption
<1>8. CASE WriterDies
  BY <1>3, <1>4, <1>8
  DEF WriterDies, CrashWriter, CrashInAppend, CrashInDrain, LoseWriter
<1>9. CASE AppendTears
  BY <1>3, <1>9 DEF AppendTears, TakesEvent
<1>10. CASE AppendFails
  BY <1>5, <1>10 DEF AppendFails, TakesEvent
<1>11. CASE DrainFails
  BY <1>5, <1>11 DEF DrainFails, StopWriter
<1>12. CASE RecordFails
  BY <1>5, <1>12 DEF RecordFails
<1> QED
  BY <1>2, <1>6, <1>7, <1>8, <1>9, <1>10, <1>11, <1>12 DEF SpoolNext, WriterStep

\* The queue to the writer is bounded.
LEMMA StepQueue ==
    ASSUME SpoolAssumption, IInv, SpoolNext
    PROVE  QueueOK'
<1>1. QueueOK /\ QueueLimit \in Nat BY TypeParts DEF IInv, SpoolAssumption
<1>2. CASE UNCHANGED toWriter BY <1>1, <1>2 DEF QueueOK
<1>3. CASE toWriter' = <<>> BY <1>1, <1>3 DEF QueueOK
<1>4. CASE TakesEvent
  <2>1. toWriter' = Tail(toWriter) /\ toWriter # <<>> BY <1>4 DEF TakesEvent
  <2>2. toWriter' \in Seq(Events) /\ Len(toWriter') = Len(toWriter) - 1
        /\ Len(toWriter) \in Nat
    BY <1>1, <2>1, TailElements DEF QueueOK
  <2> QED BY <1>1, <2>2 DEF QueueOK
<1>5. CASE EmitEvent
  <2>1. PICK e \in Events : toWriter' = Append(toWriter, e) /\ RoomForEvent
    BY <1>5 DEF EmitEvent, Enqueue
  <2>2. toWriter' \in Seq(Events) /\ Len(toWriter') = Len(toWriter) + 1
        /\ Len(toWriter) \in Nat
    BY <1>1, <2>1, AppendElements DEF QueueOK
  <2> QED BY <1>1, <2>1, <2>2 DEF QueueOK, RoomForEvent
<1> QED
  BY <1>2, <1>3, <1>4, <1>5
  DEF SpoolNext, WriterDies, WriterStep, StartWriter, CrashWriter, CrashInAppend,
      CrashInDrain, LoseWriter, HearSignal, AppendLine, AppendFails, AppendTears,
      DrainLine, DrainUnreadable, DrainFails, DrainRefused, StopWriter, RecordOther,
      RecordFails

\* Nothing the process held is left when it is down, and the writer drains
\* only what there is.
LEMMA StepFlags ==
    ASSUME SpoolAssumption, IInv, SpoolNext
    PROVE  FlagsOK'
<1>1. FlagsOK /\ spool \in Seq(Lines) /\ Len(spool) \in Nat /\ toWriter \in Seq(Events)
      /\ OffsetIsInFile
  BY TypeParts DEF IInv, QueueOK, FilesOK
<1>2. CASE StartWriter
  <2>1. file => 0 < Len(spool) BY <1>1, <1>2 DEF StartWriter
  <2> QED BY <1>1, <1>2, <2>1 DEF StartWriter, stored, limits, FlagsOK
<1>3. CASE CrashWriter
  BY <1>1, <1>3 DEF CrashWriter, LoseWriter, stored, FlagsOK
<1>4. CASE CrashInAppend
  BY <1>1, <1>4 DEF CrashInAppend, LoseWriter, CutShort, FlagsOK
<1>5. CASE CrashInDrain
  BY <1>1, <1>5 DEF CrashInDrain, LoseWriter, FlagsOK
<1>6. CASE EmitEvent
  BY <1>1, <1>6 DEF EmitEvent, Enqueue, Emits, stored, FlagsOK
<1>7. CASE HearSignal
  BY <1>1, <1>7 DEF HearSignal, stored, limits, FlagsOK
<1>8. CASE AppendLine
  <2>1. PICK e \in Events : e = NextEvent
    BY <1>1, <1>8, TailElements DEF AppendLine, TakesEvent, NextEvent
  <2>2. SpoolHasMore /\ kept' = kept \union {e}
    BY <1>8, <2>1, AppendedGrows DEF AppendLine
  <2>3. offset' < Len(spool') BY <1>8, <2>2 DEF SpoolHasMore, AppendLine, TakesEvent
  <2> QED BY <1>1, <1>8, <2>2, <2>3 DEF AppendLine, TakesEvent, FlagsOK
<1>9. CASE AppendFails
  <2>1. PICK e \in Events : e = NextEvent
    BY <1>1, <1>9, TailElements DEF AppendFails, TakesEvent, NextEvent
  <2>2. spool' = Appended(e) => offset' < Len(spool')
    BY <1>9, <2>1, AppendedGrows DEF AppendFails, TakesEvent, SpoolHasMore
  <2>3. /\ UNCHANGED <<up, ready, kept, draining, offset, toHub>> /\ up
        /\ \/ UNCHANGED <<file, spool>>
           \/ file' = TRUE /\ spool' = Appended(e)
    BY <1>9, <2>1 DEF AppendFails, TakesEvent
  <2>4. CASE UNCHANGED <<file, spool>> BY <1>1, <2>3, <2>4 DEF FlagsOK
  <2>5. CASE file' = TRUE /\ spool' = Appended(e)
    BY <1>1, <2>1, <2>2, <2>3, <2>5 DEF FlagsOK
  <2> QED BY <2>3, <2>4, <2>5
<1>10. CASE AppendTears
  <2>1. spool' = spool \/ Len(spool') = Len(spool) + 1
    BY <1>1, <1>10, AppendElements DEF AppendTears, CutShort, Lines
  <2>2. draining' => offset' < Len(spool')
    BY <1>1, <1>10, <2>1 DEF AppendTears, TakesEvent, FlagsOK, IInv, SpoolTypeOK
  <2> QED BY <1>1, <1>10, <2>2 DEF AppendTears, TakesEvent, CutShort, FlagsOK
<1>11. CASE DrainLine
  <2>1. spool' # <<>> => spool' = spool /\ file' = file
    BY <1>11 DEF DrainLine, CommitEmergency
  <2>2. draining' => offset' < Len(spool')
    BY <1>11 DEF DrainLine, CommitEmergency
  <2>3. file' \in BOOLEAN /\ draining' \in BOOLEAN
    BY <1>1, <1>11 DEF DrainLine, CommitEmergency, FlagsOK
  <2> QED BY <1>1, <1>11, <2>1, <2>2, <2>3 DEF DrainLine, Drains, FlagsOK
<1>12. CASE DrainUnreadable \/ DrainFails
  BY <1>1, <1>12
  DEF DrainUnreadable, DrainFails, StopWriter, Drains, stored, FlagsOK
<1>13. CASE DrainRefused
  BY <1>1, <1>13 DEF DrainRefused, Drains, stored, limits, FlagsOK
<1>14. CASE RecordOther
  BY <1>1, <1>14 DEF RecordOther, FlagsOK
<1>15. CASE RecordFails
  BY <1>1, <1>15 DEF RecordFails, stored, FlagsOK
<1> QED
  BY <1>2, <1>3, <1>4, <1>5, <1>6, <1>7, <1>8, <1>9, <1>10, <1>11, <1>12, <1>13,
     <1>14, <1>15
  DEF SpoolNext, WriterDies, WriterStep

-----------------------------------------------------------------------------
(* The invariant.                                                          *)

LEMMA InitInvariant ==
    ASSUME SpoolAssumption, SpoolInit
    PROVE  IInv
<1> USE DEF SpoolInit
<1>1. SpoolTypeOK
  <2>1. /\ <<>> \in Seq(Lines) /\ <<>> \in Seq(Events \union {Other})
        /\ <<>> \in Seq(Events) /\ <<>> \in Seq(Signals)
    OBVIOUS
  <2>2. FlagsOK BY DEF FlagsOK
  <2>3. QueueOK /\ FilesOK BY <2>1 DEF QueueOK, FilesOK, SpoolAssumption
  <2>4. LimitsOK BY DEF LimitsOK, SpoolAssumption
  <2> QED BY <2>2, <2>3, <2>4, TypeParts
<1>2. OffsetIsInFile BY DEF OffsetIsInFile
<1>3. DrainedAreRecorded BY DEF DrainedAreRecorded
<1>4. SignalsAreRows /\ SignalsAscend BY DEF SignalsAreRows, SignalsAscend
<1>5. OneRowEach
  <2>1. Rows = {} BY DEF Rows
  <2> QED BY <2>1 DEF OneRowEach
<1>6. WholeLines BY DEF WholeLines, AcceptedSurvives
<1> QED BY <1>1, <1>2, <1>3, <1>4, <1>5, <1>6 DEF IInv

\* A step that only adds keeps the invariant, and whatever is held.
LEMMA GrowingInvariant ==
    ASSUME SpoolAssumption, IInv, SpoolNext, Grows
    PROVE  IInv' /\ \A e \in Events : Held(e) => Held(e)'
<1> USE DEF Grows
<1>1. toHub' \in Seq(Signals) /\ SignalsAreRows' /\ SignalsAscend'
  BY ShrinkKeepsSignals
<1>2. \A e \in Events : Held(e) => Held(e)' BY GrowthHolds
<1>3. DrainedAreRecorded' BY GrowthKeepsDrained
<1>4. offset \in 0 .. Len(spool) /\ Len(spool) \in Nat /\ spool \in Seq(Lines)
      /\ kept \subseteq Events
  BY DEF IInv, SpoolTypeOK
<1>5. spool' \in Seq(Lines) /\ Len(spool') \in Nat /\ Len(spool) <= Len(spool')
  BY DEF SpoolGrows
<1>6. offset' \in 0 .. Len(spool')
  BY <1>4, <1>5
<1>7. OffsetIsInFile'
  <2>1. OffsetIsInFile BY DEF IInv
  <2>2. CASE Len(spool') = 0
    BY <1>4, <1>5, <1>6, <2>2 DEF OffsetIsInFile
  <2>3. CASE Len(spool') # 0
    BY <1>4, <1>5, <2>1, <2>3 DEF OffsetIsInFile
  <2> QED BY <2>2, <2>3
<1>8. FilesOK' BY <1>1, <1>5, <1>6 DEF FilesOK, LogGrows
<1>9. SpoolTypeOK'
  <2>1. FlagsOK' /\ QueueOK' /\ LimitsOK' BY StepFlags, StepQueue, StepLimits
  <2> QED BY <1>8, <2>1 DEF SpoolTypeOK, FlagsOK, QueueOK, LimitsOK, FilesOK
<1>10. WholeLines'
  BY <1>2, <1>4 DEF IInv, WholeLines, WholeLinesKept, AcceptedSurvives
<1> QED BY <1>1, <1>2, <1>3, <1>7, <1>9, <1>10 DEF IInv

\* So does the step that drains a line.
LEMMA DrainInvariant ==
    ASSUME SpoolAssumption, IInv, SpoolNext, DrainLine
    PROVE  IInv' /\ \A e \in Events : Held(e) => Held(e)'
<1>1. /\ LogGrows /\ OneRowEach' /\ DrainedAreRecorded' /\ OffsetIsInFile'
      /\ spool' = spool \/ spool' = <<>>
      /\ \A e \in Events : Held(e) => Held(e)'
      /\ toHub' \in Seq(Signals) /\ SignalsAreRows' /\ SignalsAscend'
  BY DrainStep
<1>2. spool \in Seq(Lines) /\ kept \subseteq Events /\ offset \in 0 .. Len(spool)
  BY DEF IInv, SpoolTypeOK
<1>3. spool' \in Seq(Lines) /\ Len(spool') \in Nat
  <2>1. <<>> \in Seq(Lines) OBVIOUS
  <2>2. spool' \in Seq(Lines) BY <1>1, <1>2, <2>1
  <2> QED BY <2>2
<1>4. offset' \in 0 .. Len(spool')
  BY <1>2, <1>3 DEF DrainLine, CommitEmergency
<1>5. FilesOK' BY <1>1, <1>3, <1>4 DEF FilesOK, LogGrows
<1>6. SpoolTypeOK'
  <2>1. FlagsOK' /\ QueueOK' /\ LimitsOK' BY StepFlags, StepQueue, StepLimits
  <2> QED BY <1>5, <2>1 DEF SpoolTypeOK, FlagsOK, QueueOK, LimitsOK, FilesOK
<1>7. WholeLines'
  <2>1. kept' = kept /\ tears' = tears BY DEF DrainLine, limits
  <2> QED BY <1>1, <1>2, <2>1 DEF IInv, WholeLines, AcceptedSurvives
<1> QED BY <1>1, <1>6, <1>7 DEF IInv

\* Every step keeps the invariant, and whatever is held.
LEMMA StepInvariant ==
    ASSUME SpoolAssumption, IInv, [SpoolNext]_spoolVars
    PROVE  IInv' /\ \A e \in Events : Held(e) => Held(e)'
<1>1. CASE UNCHANGED spoolVars
  <2> USE <1>1 DEF spoolVars, stored, writer, limits
  <2>1. SpoolTypeOK' BY DEF IInv, SpoolTypeOK
  <2>2. OffsetIsInFile' /\ DrainedAreRecorded' /\ SignalsAreRows' /\ SignalsAscend'
    BY DEF IInv, OffsetIsInFile, DrainedAreRecorded, SignalsAreRows, SignalsAscend
  <2>3. OneRowEach' BY DEF IInv, OneRowEach, Rows
  <2>4. \A e \in Events : Held(e) => Held(e)' BY DEF Held
  <2>5. kept \subseteq Events BY DEF IInv, SpoolTypeOK
  <2>6. WholeLines' BY <2>4, <2>5 DEF IInv, WholeLines, AcceptedSurvives
  <2> QED BY <2>1, <2>2, <2>3, <2>4, <2>6 DEF IInv
<1>2. CASE SpoolNext /\ ~DrainLine BY <1>2, GrowingStep, GrowingInvariant
<1>3. CASE SpoolNext /\ DrainLine BY <1>3, DrainInvariant
<1> QED BY <1>1, <1>2, <1>3

\* The inductive invariant holds of every behaviour of the writer.
THEOREM Invariance == SpoolSpec => []IInv
<1>1. SpoolInit => IInv BY SpoolAssumption, InitInvariant
<1>2. IInv /\ [SpoolNext]_spoolVars => IInv' BY SpoolAssumption, StepInvariant
<1> QED BY <1>1, <1>2, PTL DEF SpoolSpec

\* Every variable keeps its type, and nothing the process held outlives it.
THEOREM SpoolTypeCorrect == SpoolSpec => []SpoolTypeOK
<1>1. IInv => SpoolTypeOK BY DEF IInv
<1> QED BY <1>1, Invariance, PTL

\* An event has at most one row: AuditWriter::persist with a file that is read
\* again after a crash.
THEOREM OneRow == SpoolSpec => []OneRowEach
<1>1. IInv => OneRowEach BY DEF IInv
<1> QED BY <1>1, Invariance, PTL

\* The Agent hears of rows in the order of their identifiers:
\* AuditWriter::criticalRecorded.
THEOREM InOrder == SpoolSpec => []SignalsAscend
<1>1. IInv => SignalsAscend BY DEF IInv
<1> QED BY <1>1, Invariance, PTL

\* What is a readable line of the emergency file, or has had a row, stays so
\* through appends, torn appends, drains and crashes.
THEOREM NothingHeldIsLost == SpoolSpec => HeldStaysHeld
<1>1. IInv /\ [SpoolNext]_spoolVars =>
        [\A e \in Events : Held(e) => Held(e)']_spoolVars
  BY SpoolAssumption, StepInvariant
<1> QED BY <1>1, Invariance, PTL DEF SpoolSpec, HeldStaysHeld

\* Until an append is cut short, no accepted event is lost: what
\* tst_audit_writer.cpp says of an accepted event holds on that condition.
THEOREM AcceptedIsDurable == SpoolSpec => [](tears = 0 => AcceptedSurvives)
<1>1. IInv => (tears = 0 => AcceptedSurvives) BY DEF IInv, WholeLines
<1> QED BY <1>1, Invariance, PTL
=============================================================================
