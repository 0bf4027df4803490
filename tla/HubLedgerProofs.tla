--------------------------- MODULE HubLedgerProofs ---------------------------
(***************************************************************************)
(* Machine-checked proofs that the copies of one fact agree: the unknown   *)
(* outcomes of the workers, the interlocks and the revisions of the Agent, *)
(* and the ledger, with the results that are under way between them.       *)
(***************************************************************************)
EXTENDS HubControlProofs

(***************************************************************************)
(* What is added to the inductive invariant of HubControlProofs.           *)
(***************************************************************************)

\* A row that says unknown is a change's, and an absent one says nothing.
RowsMakeSense ==
    \A c \in Commands :
        /\ row[c].state = "absent" => row[c] = NoRow
        /\ row[c].unresolved => Mutation(c) /\ row[c].state = "timed_out"
        /\ row[c].resolved => row[c].state \notin Open

\* What is unknown has begun.
UnknownHaveBegun == \A c \in unknown : Changes(c) /\ world[c] # "idle"

\* Snapshots are about no command, a running command has had no other result,
\* an acknowledgement is never unknown, and after a certain result the worker
\* knows of no more work.
Sensible(msg) ==
    /\ msg.state = "snapshot" => msg.cmd = None
    /\ msg.state # "accepted"
    /\ msg.state = "running" => RowIsNew(msg.cmd)
    /\ msg.state # "snapshot" /\ IsAck(msg.cmd) =>
          msg.state \in Certain /\ ~row[msg.cmd].unresolved
    /\ msg.state \in Certain => msg.cmd \notin pending \union unknown

ResultsMakeSense == \A m \in Modules : \A msg \in Sent(m) : Sensible(msg)

\* That a command runs is the first the Agent hears of it.
RunningComesFirst ==
    \A m \in Modules : \A i, j \in 1 .. Len(toAgent[m]) :
        i < j /\ toAgent[m][j].state = "running" =>
            toAgent[m][i].cmd # toAgent[m][j].cmd

\* A running command is still at work, or has a later result under way.
RunningIsFollowed ==
    journalHealthy => \A m \in Modules : \A i \in 1 .. Len(toAgent[m]) :
        toAgent[m][i].state = "running" =>
            \/ toAgent[m][i].cmd \in executing \union pending
            \/ \E j \in 1 .. Len(toAgent[m]) :
                  i < j /\ toAgent[m][j].cmd = toAgent[m][i].cmd

TimedOut(msg, c) == msg.cmd = c /\ msg.state = "timed_out"

\* What the worker does not know the ledger does not know, or will not.
UnknownIsNoted ==
    journalHealthy => \A c \in unknown :
        \/ row[c].unresolved /\ ~row[c].resolved
        \/ \E msg \in Sent(ModuleOf[c]) : TimedOut(msg, c)

\* What became unknown after an acknowledgement is reported after it.
GrantsPrecedeUnknown ==
    \A m \in Modules : \A i \in 1 .. Len(toAgent[m]) :
        toAgent[m][i].state # "snapshot" /\ Granted(toAgent[m][i]) =>
            \A c \in UnknownIn(m) : \E j \in 1 .. Len(toAgent[m]) :
                i < j /\ TimedOut(toAgent[m][j], c)

\* A command that is open in the ledger is queued, at work or reported on.
OpenRowsAreSomewhere ==
    up /\ journalHealthy => \A c \in Commands : row[c].state \in Open =>
        \/ c \in Asked(ModuleOf[c])
        \/ c \in executing \union pending
        \/ c \in Reported(ModuleOf[c])

Reports ==
    /\ RowsMakeSense
    /\ UnknownHaveBegun
    /\ ResultsMakeSense
    /\ RunningComesFirst
    /\ RunningIsFollowed
    /\ UnknownIsNoted
    /\ GrantsPrecedeUnknown
    /\ OpenRowsAreSomewhere

\* Revisions go up, from the Agent's over the queue's to the worker's, and the
\* first snapshot carries what the Agent read from the ledger.
RevisionsAscend ==
    \A m \in Modules :
        /\ moduleRevision[m] <= controlRevision[m]
        /\ \A i \in 1 .. Len(toAgent[m]) :
              /\ moduleRevision[m] <= toAgent[m][i].revision
              /\ toAgent[m][i].revision <= controlRevision[m]
              /\ toAgent[m][i].state = "snapshot" =>
                    /\ i = 1
                    /\ \/ toAgent[m][i].revision = moduleRevision[m]
                       \/ moduleRevision[m] < 0 /\ toAgent[m][i].revision = 0
        /\ \A i, j \in 1 .. Len(toAgent[m]) :
              i < j => toAgent[m][i].revision <= toAgent[m][j].revision

Revised == RevisionsAscend /\ RevisionIsDurable

LInv == IInv /\ Reports /\ InterlockMatchesLedger /\ Revised

-----------------------------------------------------------------------------
(* A worker reports on a command.                                          *)

\* What every step that publishes a result of c has in common.
ReportsOn(c, state) ==
    /\ state # "accepted"
    /\ IsAck(c) => state \in Certain /\ ~row[c].unresolved
    /\ state = "running" =>
          /\ RowIsNew(c)
          /\ c \notin Reported(ModuleOf[c])
          /\ c \in executing' \union pending'
    /\ state \in Certain => c \notin pending' \union unknown'
    /\ state = "succeeded" /\ IsAck(c) => UnknownIn(ModuleOf[c])' = {}
    /\ pending' \subseteq pending \union {c}
    /\ unknown' \subseteq unknown \union {c}
    /\ c \in pending' \ pending => c \notin Reported(ModuleOf[c])
    /\ c \in unknown' \ unknown =>
          /\ state = "timed_out" /\ Changes(c) /\ world'[c] # "idle"
          /\ c \in pending \/ c \notin Reported(ModuleOf[c])
    /\ executing \subseteq executing' \union {c}
    /\ pending \subseteq pending' \union unknown \union {c}
    /\ \A m \in Modules : Asked(m) \subseteq Asked(m)' \union {c}
    /\ \A d \in Commands : world[d] # "idle" => world'[d] # "idle"

\* A published result is the last one of its queue.
LEMMA Appended ==
    ASSUME HubAssumption, TypeOK,
           NEW c \in Commands, NEW state \in Open \union Terminal,
           NEW gate, Publish(c, state, gate)
    PROVE  \E msg \in Message :
              /\ msg.cmd = c /\ msg.state = state
              /\ ModuleOf[c] \in Modules
              /\ Sent(ModuleOf[c])' = Sent(ModuleOf[c]) \union {msg}
              /\ Reported(ModuleOf[c])' = Reported(ModuleOf[c]) \union {c}
              /\ \A m \in Modules \ {ModuleOf[c]} :
                    toAgent'[m] = toAgent[m] /\ Sent(m)' = Sent(m)
                    /\ Reported(m)' = Reported(m)
              /\ Len(toAgent[ModuleOf[c]]) \in Nat
              /\ Len(toAgent'[ModuleOf[c]]) = Len(toAgent[ModuleOf[c]]) + 1
              /\ toAgent'[ModuleOf[c]][Len(toAgent[ModuleOf[c]]) + 1] = msg
              /\ \A i \in 1 .. Len(toAgent[ModuleOf[c]]) :
                    toAgent'[ModuleOf[c]][i] = toAgent[ModuleOf[c]][i]
<1>1. PICK msg \in Message :
         /\ msg.cmd = c /\ msg.state = state
         /\ toAgent' = [toAgent EXCEPT ![ModuleOf[c]] = Append(@, msg)]
         /\ Sent(ModuleOf[c])' = Sent(ModuleOf[c]) \union {msg}
  BY PublishSends
<1>2. ModuleOf[c] \in Modules /\ toAgent[ModuleOf[c]] \in Seq(Message)
  BY DEF HubAssumption, TypeOK
<1>3. toAgent'[ModuleOf[c]] = Append(toAgent[ModuleOf[c]], msg)
  BY <1>1, <1>2 DEF TypeOK
<1>4. \A m \in Modules \ {ModuleOf[c]} : toAgent'[m] = toAgent[m]
  BY <1>1, <1>2 DEF TypeOK
<1>5. \A m \in Modules \ {ModuleOf[c]} : Sent(m)' = Sent(m) /\ Reported(m)' = Reported(m)
  BY PublishSends
<1>6. Reported(ModuleOf[c])' = Reported(ModuleOf[c]) \union {c} BY PublishSends
<1>7. Len(toAgent[ModuleOf[c]]) \in Nat BY <1>2
<1>8. /\ Len(toAgent'[ModuleOf[c]]) = Len(toAgent[ModuleOf[c]]) + 1
      /\ toAgent'[ModuleOf[c]][Len(toAgent[ModuleOf[c]]) + 1] = msg
      /\ \A i \in 1 .. Len(toAgent[ModuleOf[c]]) :
            toAgent'[ModuleOf[c]][i] = toAgent[ModuleOf[c]][i]
  BY <1>2, <1>3, AppendElements
<1> QED BY <1>1, <1>2, <1>4, <1>5, <1>6, <1>7, <1>8

\* A worker's report leaves the rows, and what they say, alone.
LEMMA ReportKeepsSense ==
    ASSUME HubAssumption, IInv, Reports, UNCHANGED row,
           NEW c \in Commands, NEW state \in Open \union Terminal,
           NEW gate, Publish(c, state, gate), ReportsOn(c, state)
    PROVE  RowsMakeSense' /\ UnknownHaveBegun' /\ ResultsMakeSense'
<1> USE DEF Reports
<1>1. RowsMakeSense' BY DEF RowsMakeSense, NoRow, Mutation, ReadOnly
<1>2. UnknownHaveBegun'
  BY DEF UnknownHaveBegun, ReportsOn, IInv, TypeOK, Changes, Mutation, ReadOnly, IsAck
<1>3. TypeOK BY DEF IInv
<1>4. PICK msg \in Message :
         /\ msg.cmd = c /\ msg.state = state
         /\ Sent(ModuleOf[c])' = Sent(ModuleOf[c]) \union {msg}
         /\ \A m \in Modules \ {ModuleOf[c]} : Sent(m)' = Sent(m)
  BY <1>3, PublishSends
<1>5. state # "snapshot" BY DEF Open, Terminal, Certain
<1>6. Sensible(msg)'
  BY <1>4, <1>5 DEF Sensible, ReportsOn, RowIsNew, IsAck
<1>7. ASSUME NEW m \in Modules, NEW other \in Sent(m) PROVE Sensible(other)'
  <2>1. Sensible(other) BY <1>7 DEF ResultsMakeSense
  <2>2. ASSUME other.state \in Certain PROVE other.cmd \notin pending' \union unknown'
    <3>1. other.cmd \notin pending \union unknown BY <2>1, <2>2 DEF Sensible
    <3>2. other.cmd \in Commands /\ ModuleOf[other.cmd] = m
      BY <2>2 DEF IInv, ResultsAreTrue, Certain
    <3>3. other.cmd \in Reported(ModuleOf[other.cmd]) BY <3>2 DEF Reported
    <3> QED BY <3>1, <3>3 DEF ReportsOn
  <2> QED BY <2>1, <2>2 DEF Sensible, RowIsNew, IsAck
<1>8. ResultsMakeSense' BY <1>4, <1>6, <1>7 DEF ResultsMakeSense
<1> QED BY <1>1, <1>2, <1>8

\* A worker's report is the last result of its command.
LEMMA ReportKeepsOrder ==
    ASSUME HubAssumption, IInv, Reports, UNCHANGED <<row, agentVars>>,
           NEW c \in Commands, NEW state \in Open \union Terminal,
           NEW gate, Publish(c, state, gate), ReportsOn(c, state)
    PROVE  RunningComesFirst' /\ RunningIsFollowed'
<1> USE DEF Reports
<1> DEFINE n == ModuleOf[c]
           last == Len(toAgent[n]) + 1
<1>1. TypeOK BY DEF IInv
<1>2. PICK msg \in Message :
         /\ msg.cmd = c /\ msg.state = state
         /\ n \in Modules
         /\ \A m \in Modules \ {n} : toAgent'[m] = toAgent[m]
         /\ Len(toAgent[n]) \in Nat
         /\ Len(toAgent'[n]) = last
         /\ toAgent'[n][last] = msg
         /\ \A i \in 1 .. Len(toAgent[n]) : toAgent'[n][i] = toAgent[n][i]
  BY <1>1, Appended
<1> HIDE DEF n
<1>3. RunningComesFirst'
  <2>1. ASSUME NEW m \in Modules,
               NEW i \in 1 .. Len(toAgent'[m]), NEW j \in 1 .. Len(toAgent'[m]),
               i < j, toAgent'[m][j].state = "running"
        PROVE  toAgent'[m][i].cmd # toAgent'[m][j].cmd
    <3>1. CASE m = n /\ j = last
      <4>1. i \in 1 .. Len(toAgent[n]) BY <1>2, <2>1, <3>1
      <4>2. toAgent'[m][i] \in Sent(n) BY <1>2, <3>1, <4>1 DEF Sent
      <4>3. toAgent'[m][i].cmd \in Reported(n) BY <4>2 DEF Reported
      <4> QED BY <1>2, <2>1, <3>1, <4>3 DEF ReportsOn, n
    <3>2. CASE ~(m = n /\ j = last)
      <4>1. /\ i \in 1 .. Len(toAgent[m]) /\ j \in 1 .. Len(toAgent[m])
            /\ toAgent'[m][i] = toAgent[m][i] /\ toAgent'[m][j] = toAgent[m][j]
        BY <1>2, <2>1, <3>2
      <4> QED BY <2>1, <4>1 DEF RunningComesFirst
    <3> QED BY <3>1, <3>2
  <2> QED BY <2>1 DEF RunningComesFirst
<1>4. ASSUME journalHealthy', NEW m \in Modules, NEW i \in 1 .. Len(toAgent'[m]),
             toAgent'[m][i].state = "running"
      PROVE  \/ toAgent'[m][i].cmd \in executing' \union pending'
             \/ \E j \in 1 .. Len(toAgent'[m]) :
                   i < j /\ toAgent'[m][j].cmd = toAgent'[m][i].cmd
  <2> DEFINE d == toAgent'[m][i].cmd
  <2>1. CASE m = n /\ i = last
    BY <1>2, <1>4, <2>1 DEF ReportsOn
  <2>2. CASE ~(m = n /\ i = last)
    <3>1. i \in 1 .. Len(toAgent[m]) /\ toAgent'[m][i] = toAgent[m][i]
      BY <1>2, <2>2, <1>4
    <3>2. \A j \in 1 .. Len(toAgent[m]) :
             j \in 1 .. Len(toAgent'[m]) /\ toAgent'[m][j] = toAgent[m][j]
      BY <1>2
    <3>3. journalHealthy BY <1>4 DEF agentVars
    <3>4. toAgent[m][i] \in Sent(m) BY <3>1 DEF Sent
    <3>5. d \in Commands /\ ModuleOf[d] = m
      BY <1>4, <3>1, <3>4 DEF IInv, ResultsAreTrue
    <3>6. CASE \E j \in 1 .. Len(toAgent[m]) : i < j /\ toAgent[m][j].cmd = d
      BY <3>1, <3>2, <3>6
    <3>7. CASE d = c
      <4>1. m = n BY <3>5, <3>7 DEF n
      <4>2. last \in 1 .. Len(toAgent'[m]) /\ i < last /\ toAgent'[m][last].cmd = d
        BY <1>2, <3>1, <3>7, <4>1
      <4> QED BY <4>2
    <3>8. CASE d # c /\ d \in executing \union pending
      <4>1. d \in executing' \union pending' \/ d \in unknown
        BY <3>8 DEF ReportsOn
      <4>2. ASSUME d \in unknown
            PROVE  \E j \in 1 .. Len(toAgent[m]) : i < j /\ toAgent[m][j].cmd = d
        <5>1. RowIsNew(d)
          BY <1>4, <3>1, <3>4 DEF ResultsMakeSense, Sensible
        <5>2. PICK other \in Sent(m) : TimedOut(other, d)
          BY <3>3, <3>5, <4>2, <5>1 DEF UnknownIsNoted, RowIsNew
        <5>3. PICK j \in 1 .. Len(toAgent[m]) : TimedOut(toAgent[m][j], d)
          BY <5>2 DEF Sent
        <5>4. j # i BY <1>4, <3>1, <5>3 DEF TimedOut
        <5>5. ~(j < i) BY <1>4, <3>1, <5>3 DEF RunningComesFirst, TimedOut
        <5> QED BY <3>1, <5>3, <5>4, <5>5 DEF TimedOut
      <4> QED BY <4>1, <4>2, <3>6
    <3>9. \/ d \in executing \union pending
          \/ \E j \in 1 .. Len(toAgent[m]) : i < j /\ toAgent[m][j].cmd = d
      BY <1>4, <3>1, <3>3 DEF RunningIsFollowed
    <3> QED BY <3>6, <3>7, <3>8, <3>9
  <2> QED BY <2>1, <2>2
<1> QED BY <1>3, <1>4 DEF RunningIsFollowed

\* A worker's report says what it does not know, behind every acknowledgement.
LEMMA ReportKeepsNotes ==
    ASSUME HubAssumption, IInv, Reports, UNCHANGED <<row, agentVars>>,
           NEW c \in Commands, NEW state \in Open \union Terminal,
           NEW gate, Publish(c, state, gate), ReportsOn(c, state)
    PROVE  UnknownIsNoted' /\ GrantsPrecedeUnknown'
<1> USE DEF Reports
<1> DEFINE n == ModuleOf[c]
           last == Len(toAgent[n]) + 1
<1>1. TypeOK BY DEF IInv
<1>2. PICK msg \in Message :
         /\ msg.cmd = c /\ msg.state = state
         /\ n \in Modules
         /\ Sent(n)' = Sent(n) \union {msg}
         /\ \A m \in Modules \ {n} : toAgent'[m] = toAgent[m] /\ Sent(m)' = Sent(m)
         /\ Len(toAgent[n]) \in Nat
         /\ Len(toAgent'[n]) = last
         /\ toAgent'[n][last] = msg
         /\ \A i \in 1 .. Len(toAgent[n]) : toAgent'[n][i] = toAgent[n][i]
  BY <1>1, Appended
<1>3. c \in unknown' \ unknown => TimedOut(msg, c)
  BY <1>2 DEF ReportsOn, TimedOut
<1>4. unknown' \subseteq unknown \union {c} BY DEF ReportsOn
<1>5. unknown \subseteq Commands /\ \A d \in Commands : ModuleOf[d] \in Modules
  BY DEF IInv, TypeOK, HubAssumption
<1> HIDE DEF n
<1>6. UnknownIsNoted'
  <2>1. ASSUME journalHealthy', NEW d \in unknown'
        PROVE  \/ row'[d].unresolved /\ ~row'[d].resolved
               \/ \E other \in Sent(ModuleOf[d])' : TimedOut(other, d)
    <3>1. CASE d \in unknown
      <4>1. Sent(ModuleOf[d]) \subseteq Sent(ModuleOf[d])' BY <1>2, <1>5, <3>1
      <4> QED BY <2>1, <3>1, <4>1 DEF UnknownIsNoted, agentVars
    <3>2. CASE d \notin unknown
      BY <1>2, <1>3, <1>4, <2>1, <3>2 DEF n
    <3> QED BY <3>1, <3>2
  <2> QED BY <2>1 DEF UnknownIsNoted, TimedOut
<1>7. GrantsPrecedeUnknown'
  <2>1. ASSUME NEW m \in Modules, NEW i \in 1 .. Len(toAgent'[m]),
               toAgent'[m][i].state # "snapshot", Granted(toAgent'[m][i]),
               NEW d \in UnknownIn(m)'
        PROVE  \E j \in 1 .. Len(toAgent'[m]) : i < j /\ TimedOut(toAgent'[m][j], d)
    <3>1. d \in unknown' /\ ModuleOf[d] = m BY <2>1 DEF UnknownIn
    <3>2. ~(m = n /\ i = last)
      <4>1. SUFFICES ASSUME m = n, i = last PROVE FALSE OBVIOUS
      <4>2. state = "succeeded" /\ IsAck(c)
        BY <1>2, <2>1, <4>1 DEF Granted
      <4> QED BY <2>1, <4>1, <4>2 DEF ReportsOn, n
    <3>3. i \in 1 .. Len(toAgent[m]) /\ toAgent'[m][i] = toAgent[m][i]
      BY <1>2, <2>1, <3>2
    <3>4. \A j \in 1 .. Len(toAgent[m]) :
             j \in 1 .. Len(toAgent'[m]) /\ toAgent'[m][j] = toAgent[m][j]
      BY <1>2
    <3>5. CASE d \in unknown
      <4>1. d \in UnknownIn(m) BY <3>1, <3>5 DEF UnknownIn
      <4>2. PICK j \in 1 .. Len(toAgent[m]) : i < j /\ TimedOut(toAgent[m][j], d)
        BY <2>1, <3>3, <4>1 DEF GrantsPrecedeUnknown
      <4> QED BY <3>4, <4>2
    <3>6. CASE d \notin unknown
      <4>1. d = c /\ m = n /\ TimedOut(msg, d)
        BY <1>3, <1>4, <3>1, <3>6 DEF n
      <4>2. last \in 1 .. Len(toAgent'[m]) /\ i < last /\ toAgent'[m][last] = msg
        BY <1>2, <3>3, <4>1
      <4> QED BY <4>1, <4>2
    <3> QED BY <3>5, <3>6
  <2> QED BY <2>1 DEF GrantsPrecedeUnknown, Granted, TimedOut, IsAck
<1> QED BY <1>6, <1>7

\* A command that is given up without a result has one under way, or is known
\* to the ledger as unknown.
LEMMA ReportKeepsOpen ==
    ASSUME HubAssumption, IInv, Reports, UNCHANGED <<row, agentVars>>,
           NEW c \in Commands, NEW state \in Open \union Terminal,
           NEW gate, Publish(c, state, gate), ReportsOn(c, state)
    PROVE  OpenRowsAreSomewhere'
<1> SUFFICES ASSUME up, journalHealthy, NEW d \in Commands, row[d].state \in Open
             PROVE  \/ d \in Asked(ModuleOf[d])'
                    \/ d \in executing' \union pending'
                    \/ d \in Reported(ModuleOf[d])'
  BY DEF OpenRowsAreSomewhere, agentVars
<1>1. TypeOK BY DEF IInv
<1>2. ModuleOf[d] \in Modules BY DEF HubAssumption
<1>3. Reported(ModuleOf[d]) \subseteq Reported(ModuleOf[d])'
  BY <1>1, <1>2, PublishSends
<1>4. CASE d = c BY <1>1, <1>4, PublishSends
<1>5. CASE d # c /\ d \in Asked(ModuleOf[d])
  BY <1>2, <1>5 DEF ReportsOn
<1>6. CASE d \in Reported(ModuleOf[d]) BY <1>3, <1>6
<1>7. CASE d # c /\ d \in unknown
  <2>1. ~row[d].unresolved
    BY DEF Reports, RowsMakeSense, Open
  <2>2. PICK msg \in Sent(ModuleOf[d]) : TimedOut(msg, d)
    BY <1>7, <2>1 DEF Reports, UnknownIsNoted
  <2> QED BY <1>3, <2>2 DEF Reported, TimedOut
<1>8. CASE d # c /\ d \in executing \union pending
  BY <1>7, <1>8 DEF ReportsOn
<1> QED BY <1>4, <1>5, <1>6, <1>8 DEF Reports, OpenRowsAreSomewhere

\* Every report of a worker keeps all of this.
LEMMA ReportKeeps ==
    ASSUME HubAssumption, IInv, Reports, UNCHANGED <<row, agentVars>>,
           NEW c \in Commands, NEW state \in Open \union Terminal,
           NEW gate, Publish(c, state, gate), ReportsOn(c, state)
    PROVE  Reports'
<1>1. RowsMakeSense' /\ UnknownHaveBegun' /\ ResultsMakeSense'
  BY ReportKeepsSense
<1>2. RunningComesFirst' /\ RunningIsFollowed' BY ReportKeepsOrder
<1>3. UnknownIsNoted' /\ GrantsPrecedeUnknown' BY ReportKeepsNotes
<1>4. OpenRowsAreSomewhere' BY ReportKeepsOpen
<1> QED BY <1>1, <1>2, <1>3, <1>4 DEF Reports

\* So does a step that publishes nothing and takes nothing up but an effect.
LEMMA SilentKeeps ==
    ASSUME HubAssumption, IInv, Reports,
           UNCHANGED <<row, agentVars, toAgent, pending, unknown>>,
           executing \subseteq executing',
           \A m \in Modules : Asked(m) \subseteq Asked(m)' \union executing',
           \A d \in Commands : world[d] # "idle" => world'[d] # "idle"
    PROVE  Reports'
<1> USE DEF Reports
<1>0. /\ up' = up /\ journalHealthy' = journalHealthy
      /\ \A m : Sent(m)' = Sent(m) /\ Reported(m)' = Reported(m)
      /\ \A m : UnknownIn(m)' = UnknownIn(m)
  BY DEF agentVars, Sent, Reported, UnknownIn
<1>1. RowsMakeSense' BY DEF RowsMakeSense, NoRow, Mutation, ReadOnly
<1>2. UnknownHaveBegun'
  BY DEF UnknownHaveBegun, Changes, Mutation, ReadOnly, IsAck, IInv, TypeOK
<1>3. ResultsMakeSense'
  BY <1>0 DEF ResultsMakeSense, Sensible, RowIsNew, IsAck
<1>4. RunningComesFirst' BY DEF RunningComesFirst
<1>5. RunningIsFollowed' BY <1>0 DEF RunningIsFollowed
<1>6. UnknownIsNoted' BY <1>0 DEF UnknownIsNoted, TimedOut
<1>7. GrantsPrecedeUnknown'
  BY <1>0 DEF GrantsPrecedeUnknown, Granted, TimedOut, IsAck
<1>8. OpenRowsAreSomewhere'
  BY <1>0 DEF OpenRowsAreSomewhere, HubAssumption
<1> QED BY <1>1, <1>2, <1>3, <1>4, <1>5, <1>6, <1>7, <1>8

-----------------------------------------------------------------------------
(* The worker takes commands.                                              *)

\* What a worker takes up is new to it.
LEMMA TakenIsNew ==
    ASSUME HubAssumption, IInv, Reports, NEW m \in Modules, NEW c, Take(m, c)
    PROVE  /\ c \in Commands /\ ModuleOf[c] = m
           /\ UNCHANGED <<row, agentVars>>
           /\ world[c] = "idle" /\ RowIsNew(c)
           /\ c \notin executing \union pending \union unknown
           /\ c \notin Reported(m)
           /\ \A n \in Modules : Asked(n) \subseteq Asked(n)' \union {c}
<1>1. UnknownHaveBegun BY DEF Reports
<1>2. TypeOK /\ RequestsAreNew /\ RequestsAreDistinct BY DEF IInv
<1>3. Asked(m)' = Asked(m) \ {c} /\ \A n \in Modules \ {m} : Asked(n)' = Asked(n)
  BY <1>2, TakeAsks
<1>4. UNCHANGED <<row, agentVars>> BY DEF Take
<1> QED BY <1>1, <1>3, <1>4, Taken DEF UnknownHaveBegun

\* Answering at once keeps the agreement.
LEMMA AnswerReports ==
    ASSUME HubAssumption, IInv, Reports, NEW m \in Modules, NEW c,
           NEW state \in Certain, NEW gate, AnswersWith(m, c, state, gate)
    PROVE  Reports'
<1>1. /\ Take(m, c) /\ Publish(c, state, gate) /\ UNCHANGED work
      /\ ~(state = "succeeded" /\ IsAck(c))
      /\ world' = world \/ world' = [world EXCEPT ![c] = "done"]
  BY DEF AnswersWith
<1>2. state \in Open \union Terminal /\ state \notin {"accepted", "running", "timed_out"}
  BY DEF Terminal, Certain
<1>3. UNCHANGED <<executing, pending, unknown>> BY <1>1 DEF work
<1>4. \A d \in Commands : world[d] # "idle" => world'[d] # "idle"
  BY <1>1 DEF IInv, TypeOK
<1>5. ReportsOn(c, state)
  BY <1>1, <1>2, <1>3, <1>4, TakenIsNew DEF ReportsOn, RowIsNew
<1> QED BY <1>1, <1>2, <1>5, TakenIsNew, ReportKeeps

\* Taking up a command that answers later keeps the agreement.
LEMMA BeginReports ==
    ASSUME HubAssumption, IInv, Reports, NEW m \in Modules, NEW c, Begin(m, c)
    PROVE  Reports'
<1>1. /\ Take(m, c) /\ Publish(c, "running", Gate(m, c)) /\ ~IsAck(c)
      /\ pending' = pending \union {c} /\ UNCHANGED <<executing, unknown>>
  BY DEF Begin, IsAck
<1>2. "running" \in Open \union Terminal /\ "running" \notin Certain
  BY DEF Open, Certain
<1>3. \A d \in Commands : world[d] # "idle" => world'[d] # "idle"
  BY DEF Begin, IInv, TypeOK
<1>4. ReportsOn(c, "running")
  BY <1>1, <1>2, <1>3, TakenIsNew DEF ReportsOn
<1> QED BY <1>1, <1>2, <1>4, TakenIsNew, ReportKeeps

\* So does handing a command to LifecycleController, which reports nothing.
LEMMA BeginLaunchdReports ==
    ASSUME HubAssumption, IInv, Reports,
           NEW m \in Modules, NEW c, BeginLaunchd(m, c)
    PROVE  Reports'
<1>1. /\ Take(m, c) /\ executing' = executing \union {c}
      /\ UNCHANGED <<world, toAgent, pending, unknown>>
  BY DEF BeginLaunchd
<1> QED BY <1>1, TakenIsNew, SilentKeeps

\* A granted acknowledgement leaves no outcome unknown, and gives up only
\* changes that are known as unknown.
LEMMA GrantReports ==
    ASSUME HubAssumption, IInv, Reports,
           NEW m \in Modules, NEW c, GrantAck(m, c)
    PROVE  Reports'
<1>1. /\ Take(m, c) /\ IsAck(c) /\ Publish(c, "succeeded", Gate(m, c))
      /\ pending' = pending \ UnknownIn(m)
      /\ unknown' = unknown \ UnknownIn(m)
      /\ UNCHANGED <<world, executing>>
  BY DEF GrantAck
<1>2. "succeeded" \in Open \union Terminal /\ "succeeded" \in Certain
  BY DEF Terminal, Certain
<1>3. UnknownIn(m)' = {} BY <1>1 DEF UnknownIn
<1>4. UnknownIn(m) \subseteq unknown BY DEF UnknownIn
<1>5. ReportsOn(c, "succeeded")
  BY <1>1, <1>2, <1>3, <1>4, TakenIsNew DEF ReportsOn, RowIsNew
<1> QED BY <1>1, <1>2, <1>5, TakenIsNew, ReportKeeps

\* Every step of ModuleWorker::submitCommand keeps the agreement.
LEMMA WorkerReports ==
    ASSUME HubAssumption, IInv, Reports, NEW m \in Modules, WorkerStep(m)
    PROVE  Reports'
<1>1. PICK c \in Commands :
         \/ RefuseAtGate(m, c) \/ RefuseCommand(m, c) \/ AnswerAtOnce(m, c)
         \/ RunNative(m, c) \/ Begin(m, c) \/ BeginLaunchd(m, c)
         \/ RefuseAck(m, c) \/ GrantAck(m, c)
  BY DEF WorkerStep
<1>2. "failed" \in Certain /\ "succeeded" \in Certain BY DEF Certain
<1>3. Admitted(m, c) => Gate(m, c) = active \/ active[m] = None
  BY DEF Admitted, PassesGate, Busy, Gate
<1>4. CASE RefuseAtGate(m, c)
  <2>1. AnswersWith(m, c, "failed", active)
    BY <1>4 DEF RefuseAtGate, AnswersWith
  <2> QED BY <1>2, <2>1, AnswerReports
<1>5. CASE RefuseCommand(m, c)
  <2>1. AnswersWith(m, c, "failed", Gate(m, c))
    BY <1>3, <1>5 DEF RefuseCommand, AnswersWith
  <2> QED BY <1>2, <2>1, AnswerReports
<1>6. CASE AnswerAtOnce(m, c)
  <2>1. AnswersWith(m, c, "succeeded", Gate(m, c))
    BY <1>3, <1>6 DEF AnswerAtOnce, AnswersWith, IsAck
  <2> QED BY <1>2, <2>1, AnswerReports
<1>7. CASE RunNative(m, c)
  <2>1. Changes(c) /\ ~IsAck(c)
    BY <1>7 DEF RunNative, Changes, Mutation, ReadOnly, IsAck
  <2>2. \E state \in Certain : AnswersWith(m, c, state, Gate(m, c))
    BY <1>3, <1>7, <2>1 DEF RunNative, AnswersWith
  <2> QED BY <2>2, AnswerReports
<1>8. CASE RefuseAck(m, c)
  <2>1. AnswersWith(m, c, "failed", Gate(m, c))
    BY <1>3, <1>8 DEF RefuseAck, AnswersWith
  <2> QED BY <1>2, <2>1, AnswerReports
<1> QED BY <1>1, <1>4, <1>5, <1>6, <1>7, <1>8,
           BeginReports, BeginLaunchdReports, GrantReports

-----------------------------------------------------------------------------
(* Later events of a command.                                              *)

\* What is pending and may still change something has begun.
LEMMA PendingHasBegun ==
    ASSUME IInv, NEW c \in pending, Mutation(c)
    PROVE  c \in Commands /\ Changes(c) /\ world[c] # "idle" /\ ~IsAck(c)
BY DEF IInv, TypeOK, PendingIsSerial, EffectsAreWork, Changes

\* What LifecycleController executes has no result and is not unknown.
LEMMA ExecutingIsUnheard ==
    ASSUME HubAssumption, IInv, NEW c \in executing
    PROVE  /\ c \in Commands /\ Changes(c) /\ ~IsAck(c)
           /\ c \notin pending \union unknown
           /\ RowIsNew(c) /\ c \notin Reported(ModuleOf[c])
<1>1. /\ c \in Commands /\ KindOf[c] = "launchd" /\ c \notin pending
      /\ UnknownIn(ModuleOf[c]) = {}
  BY DEF IInv, TypeOK, ExecutingIsSerial
<1>2. c \notin unknown BY <1>1 DEF UnknownIn
<1>3. Changes(c) /\ ~IsAck(c) BY <1>1 DEF Changes, Mutation, ReadOnly, IsAck
<1>4. RowIsNew(c) /\ c \notin Reported(ModuleOf[c]) BY DEF IInv, ExecutingIsNew
<1> QED BY <1>1, <1>2, <1>3, <1>4

\* Events on the worker thread leave the queues of requests alone.
LEMMA QuietAsks ==
    ASSUME UNCHANGED Quiet
    PROVE  /\ UNCHANGED <<row, agentVars>>
           /\ \A m \in Modules : Asked(m)' = Asked(m)
BY DEF Quiet, Asked

\* A deadline makes a change unknown and says so.
LEMMA DeadlineReports ==
    ASSUME HubAssumption, IInv, Reports, NEW c \in Commands, Deadline(c)
    PROVE  Reports'
<1>1. /\ c \in pending /\ Publish(c, "timed_out", active) /\ UNCHANGED Quiet
      /\ pending' = IF Mutation(c) THEN pending ELSE pending \ {c}
      /\ unknown' = IF Mutation(c) THEN unknown \union {c} ELSE unknown
      /\ UNCHANGED <<world, executing>>
  BY DEF Deadline, IInv, PendingIsSerial
<1>2. "timed_out" \in Open \union Terminal /\ "timed_out" \notin Certain
  BY DEF Terminal, Certain
<1>3. ~IsAck(c) BY <1>1, PendingHasBegun DEF Mutation, ReadOnly, IsAck
<1>4. ReportsOn(c, "timed_out")
  BY <1>1, <1>2, <1>3, PendingHasBegun, QuietAsks DEF ReportsOn
<1> QED BY <1>1, <1>2, <1>4, QuietAsks, ReportKeeps

\* A certain answer ends the worker's knowledge of a command.
LEMMA FinishReports ==
    ASSUME HubAssumption, IInv, Reports,
           NEW c \in Commands, NEW state \in Certain, Finish(c, state)
    PROVE  Reports'
<1>1. /\ c \in pending /\ Publish(c, state, active) /\ UNCHANGED Quiet
      /\ pending' = pending \ {c} /\ unknown' = unknown \ {c}
      /\ UNCHANGED executing
      /\ world' = IF Mutation(c) THEN [world EXCEPT ![c] = "done"] ELSE world
  BY DEF Finish
<1>2. state \in Open \union Terminal /\ state \notin {"accepted", "running", "timed_out"}
  BY DEF Terminal, Certain
<1>3. ~IsAck(c) BY <1>1, PendingHasBegun DEF Mutation, ReadOnly, IsAck
<1>4. \A d \in Commands : world[d] # "idle" => world'[d] # "idle"
  BY <1>1 DEF IInv, TypeOK
<1>5. ReportsOn(c, state)
  BY <1>1, <1>2, <1>3, <1>4, QuietAsks DEF ReportsOn
<1> QED BY <1>1, <1>2, <1>5, QuietAsks, ReportKeeps

\* An uncertain answer says what it leaves unknown.
LEMMA FinishUncertainReports ==
    ASSUME HubAssumption, IInv, Reports, NEW c \in Commands, FinishUncertain(c)
    PROVE  Reports'
<1>1. /\ c \in pending /\ Mutation(c) /\ Publish(c, "timed_out", active)
      /\ UNCHANGED Quiet /\ unknown' = unknown \union {c}
      /\ UNCHANGED <<world, executing, pending>>
  BY DEF FinishUncertain
<1>2. "timed_out" \in Open \union Terminal /\ "timed_out" \notin Certain
  BY DEF Terminal, Certain
<1>3. ReportsOn(c, "timed_out")
  BY <1>1, <1>2, PendingHasBegun, QuietAsks DEF ReportsOn
<1> QED BY <1>1, <1>2, <1>3, QuietAsks, ReportKeeps

\* LifecycleController's ends report on what it executed.
LEMMA LifecycleReports ==
    ASSUME HubAssumption, IInv, Reports, NEW c \in Commands, LifecycleFinishes(c)
    PROVE  Reports'
<1>1. /\ c \in executing /\ executing' = executing \ {c} /\ UNCHANGED Quiet
      /\ \A d \in Commands : world[d] # "idle" => world'[d] # "idle"
  BY DEF LifecycleFinishes, LifecycleCertain, LifecycleUncertain, AwaitReadiness,
         LifecycleEnds, IInv, TypeOK
<1>2. /\ "running" \in Open /\ "running" \notin Certain
      /\ "timed_out" \in Terminal /\ "timed_out" \notin Certain
  BY DEF Open, Terminal, Certain
<1>3. ASSUME NEW state \in Certain, LifecycleCertain(c, state) PROVE Reports'
  <2>1. Publish(c, state, active) /\ UNCHANGED <<pending, unknown>>
    BY <1>3 DEF LifecycleCertain
  <2>2. state \in Open \union Terminal /\ state \notin {"accepted", "running", "timed_out"}
    BY DEF Terminal, Certain
  <2>3. ReportsOn(c, state)
    BY <1>1, <2>1, <2>2, ExecutingIsUnheard, QuietAsks DEF ReportsOn
  <2> QED BY <1>1, <2>1, <2>2, <2>3, QuietAsks, ReportKeeps
<1>4. CASE LifecycleUncertain(c)
  <2>1. /\ Publish(c, "timed_out", active) /\ unknown' = unknown \union {c}
        /\ UNCHANGED <<world, pending>> /\ world[c] # "idle"
    BY <1>4 DEF LifecycleUncertain
  <2>2. ReportsOn(c, "timed_out")
    BY <1>1, <1>2, <2>1, ExecutingIsUnheard, QuietAsks DEF ReportsOn
  <2> QED BY <1>1, <1>2, <2>1, <2>2, QuietAsks, ReportKeeps
<1>5. CASE AwaitReadiness(c)
  <2>1. /\ Publish(c, "running", active) /\ pending' = pending \union {c}
        /\ UNCHANGED unknown
    BY <1>5 DEF AwaitReadiness
  <2>2. ReportsOn(c, "running")
    BY <1>1, <1>2, <2>1, ExecutingIsUnheard, QuietAsks DEF ReportsOn
  <2> QED BY <1>1, <1>2, <2>1, <2>2, QuietAsks, ReportKeeps
<1> QED BY <1>3, <1>4, <1>5 DEF LifecycleFinishes

\* Every event of a command keeps the agreement.
LEMMA EventReports ==
    ASSUME HubAssumption, IInv, Reports, NEW c \in Commands, CommandEvent(c)
    PROVE  Reports'
<1>1. CASE LifecycleMutate(c) \/ WindowExpires(c) \/ EffectEnds(c)
  <2>1. UNCHANGED <<Quiet, toAgent, executing, pending, unknown>>
    BY <1>1 DEF LifecycleMutate, WindowExpires, EffectEnds, work
  <2>2. \A d \in Commands : world[d] # "idle" => world'[d] # "idle"
    BY <1>1 DEF LifecycleMutate, WindowExpires, EffectEnds, IInv, TypeOK
  <2> QED BY <2>1, <2>2, QuietAsks, SilentKeeps
<1> QED BY <1>1, DeadlineReports, FinishReports, FinishUncertainReports,
           LifecycleReports DEF CommandEvent

-----------------------------------------------------------------------------
(* The Agent and the process.                                              *)

\* Who a result is about.
LEMMA ResultIsAbout ==
    ASSUME IInv, NEW m \in Modules, NEW msg \in Sent(m), msg.state # "snapshot"
    PROVE  msg.cmd \in Commands /\ ModuleOf[msg.cmd] = m /\ msg.cmd \in Reported(m)
BY DEF IInv, ResultsAreTrue, Reported

\* With everything as it was, only the health of the ledger can matter.
LEMMA HealthReports ==
    ASSUME HubAssumption, IInv, Reports,
           UNCHANGED <<durable, up, toWorker, toAgent, executing, pending, unknown>>,
           journalHealthy' => journalHealthy
    PROVE  Reports'
<1> USE DEF Reports
<1>1. /\ UNCHANGED <<row, world, up>>
      /\ \A m : /\ Sent(m)' = Sent(m) /\ Reported(m)' = Reported(m)
                /\ UnknownIn(m)' = UnknownIn(m) /\ Asked(m)' = Asked(m)
  BY DEF durable, Sent, Reported, UnknownIn, Asked
<1>2. RowsMakeSense' BY <1>1 DEF RowsMakeSense, NoRow, Mutation, ReadOnly
<1>3. UnknownHaveBegun'
  BY <1>1 DEF UnknownHaveBegun, Changes, Mutation, ReadOnly, IsAck
<1>4. ResultsMakeSense'
  BY <1>1 DEF ResultsMakeSense, Sensible, RowIsNew, IsAck
<1>5. RunningComesFirst' BY DEF RunningComesFirst
<1>6. RunningIsFollowed' BY DEF RunningIsFollowed
<1>7. UnknownIsNoted' BY <1>1 DEF UnknownIsNoted, TimedOut
<1>8. GrantsPrecedeUnknown'
  BY <1>1 DEF GrantsPrecedeUnknown, Granted, TimedOut, IsAck
<1>9. OpenRowsAreSomewhere' BY <1>1 DEF OpenRowsAreSomewhere
<1> QED BY <1>2, <1>3, <1>4, <1>5, <1>6, <1>7, <1>8, <1>9

\* A new row is about a command nobody knows yet.
LEMMA NewRowReports ==
    ASSUME HubAssumption, IInv, Reports, NEW c \in Commands,
           row[c].state = "absent",
           NEW state \in {"accepted", "failed"}, NEW r,
           row' = [row EXCEPT ![c] = Reserved(state, r)],
           state = "accepted" => c \in Asked(ModuleOf[c])',
           \A m \in Modules : Asked(m) \subseteq Asked(m)',
           UNCHANGED <<world, agentVars, toAgent, work>>
    PROVE  Reports'
<1> USE DEF Reports
<1>1. /\ UNCHANGED <<up, journalHealthy, executing, pending, unknown>>
      /\ \A m : /\ Sent(m)' = Sent(m) /\ Reported(m)' = Reported(m)
                /\ UnknownIn(m)' = UnknownIn(m)
  BY DEF agentVars, work, Sent, Reported, UnknownIn
<1>2. /\ \A d \in Commands \ {c} : row'[d] = row[d]
      /\ row'[c].state = state /\ ~row'[c].unresolved /\ ~row'[c].resolved
  BY DEF IInv, TypeOK, Reserved
<1>3. c \notin Reported(ModuleOf[c]) /\ world[c] = "idle"
  BY DEF IInv, AbsentIsUntouched
<1>4. RowsMakeSense' BY <1>2 DEF RowsMakeSense, NoRow, Mutation, ReadOnly
<1>5. UnknownHaveBegun'
  BY <1>1 DEF UnknownHaveBegun, Changes, Mutation, ReadOnly, IsAck
<1>6. ResultsMakeSense'
  <2>1. ASSUME NEW m \in Modules, NEW msg \in Sent(m) PROVE Sensible(msg)'
    <3>1. Sensible(msg) BY <2>1 DEF ResultsMakeSense
    <3>2. CASE msg.state = "snapshot"
      BY <1>1, <3>1, <3>2 DEF Sensible, Certain
    <3>3. CASE msg.state # "snapshot"
      <4>1. row'[msg.cmd] = row[msg.cmd]
        BY <1>2, <1>3, <2>1, <3>3, ResultIsAbout
      <4> QED BY <1>1, <3>1, <4>1 DEF Sensible, RowIsNew, IsAck
    <3> QED BY <3>2, <3>3
  <2> QED BY <1>1, <2>1 DEF ResultsMakeSense
<1>7. RunningComesFirst' BY DEF RunningComesFirst
<1>8. RunningIsFollowed' BY <1>1 DEF RunningIsFollowed
<1>9. UnknownIsNoted'
  <2>1. c \notin unknown BY <1>3 DEF UnknownHaveBegun
  <2>2. unknown \subseteq Commands BY DEF IInv, TypeOK
  <2> QED BY <1>1, <1>2, <2>1, <2>2 DEF UnknownIsNoted, TimedOut
<1>10. GrantsPrecedeUnknown'
  BY <1>1 DEF GrantsPrecedeUnknown, Granted, TimedOut, IsAck
<1>11. OpenRowsAreSomewhere'
  <2>1. "failed" \notin Open BY DEF Open
  <2> QED BY <1>1, <1>2, <2>1 DEF OpenRowsAreSomewhere, HubAssumption
<1> QED BY <1>4, <1>5, <1>6, <1>7, <1>8, <1>9, <1>10, <1>11

\* HubAgent::processClientMessage queues what it accepts.
LEMMA SubmitReports ==
    ASSUME HubAssumption, IInv, Reports, NEW c \in Commands, Submit(c)
    PROVE  Reports'
<1>1. PICK expected \in Int : Accept(c, expected) \/ RefuseStale(c, expected)
  BY DEF Submit
<1> DEFINE m == ModuleOf[c]
           request == [cmd |-> c, expected |-> expected]
<1>2. m \in Modules BY DEF HubAssumption
<1>3. CASE Accept(c, expected)
  <2>1. /\ row[c].state = "absent"
        /\ row' = [row EXCEPT ![c] = Reserved("accepted", moduleRevision[m])]
        /\ toWorker' = [toWorker EXCEPT ![m] = Append(@, request)]
        /\ UNCHANGED <<world, agentVars, toAgent, work>>
    BY <1>3 DEF Accept, Admissible
  <2>2. toWorker[m] \in Seq(Request) /\ request \in Request
    BY <1>2 DEF IInv, TypeOK, Request
  <2>3. /\ toWorker'[m] = Append(toWorker[m], request)
        /\ \A n \in Modules \ {m} : toWorker'[n] = toWorker[n]
    BY <1>2, <2>1 DEF IInv, TypeOK
  <2>4. /\ Len(toWorker[m]) \in Nat
        /\ Len(toWorker'[m]) = Len(toWorker[m]) + 1
        /\ \A i \in 1 .. Len(toWorker[m]) : toWorker'[m][i] = toWorker[m][i]
        /\ toWorker'[m][Len(toWorker[m]) + 1] = request
    BY <2>2, <2>3, AppendElements
  <2>5. c \in Asked(m)'
    <3>1. Len(toWorker[m]) + 1 \in 1 .. Len(toWorker'[m]) BY <2>4
    <3> QED BY <2>4, <3>1 DEF Asked
  <2>6. Asked(m) \subseteq Asked(m)'
    <3>1. 1 .. Len(toWorker[m]) \subseteq 1 .. Len(toWorker'[m]) BY <2>4
    <3> QED BY <2>4, <3>1 DEF Asked
  <2>7. \A n \in Modules : Asked(n) \subseteq Asked(n)'
    BY <2>3, <2>6 DEF Asked
  <2> QED BY <2>1, <2>5, <2>7, NewRowReports
<1>4. CASE RefuseStale(c, expected)
  <2>1. /\ row[c].state = "absent"
        /\ row' = [row EXCEPT ![c] = Reserved("failed", moduleRevision[m])]
        /\ UNCHANGED <<world, agentVars, toWorker, toAgent, work>>
    BY <1>4 DEF RefuseStale, Admissible
  <2>2. \A n \in Modules : Asked(n) \subseteq Asked(n)' BY <2>1 DEF Asked
  <2> QED BY <2>1, <2>2, NewRowReports
<1> QED BY <1>1, <1>3, <1>4

\* When the process dies the ledger is left, and nothing to compare it with.
LEMMA LoseReports ==
    ASSUME HubAssumption, NEW ledger, Lose(ledger), RowsMakeSense'
    PROVE  Reports'
<1>1. /\ up' = FALSE /\ journalHealthy' = FALSE /\ unknown' = {}
      /\ toAgent' = [m \in Modules |-> <<>>]
  BY DEF Lose
<1>2. \A m \in Modules : Len(toAgent'[m]) = 0 /\ Sent(m)' = {}
  BY <1>1 DEF Sent
<1>3. UnknownHaveBegun' BY <1>1 DEF UnknownHaveBegun
<1>4. ResultsMakeSense' BY <1>2 DEF ResultsMakeSense
<1>5. RunningComesFirst' BY <1>2 DEF RunningComesFirst
<1>6. RunningIsFollowed' BY <1>1 DEF RunningIsFollowed
<1>7. UnknownIsNoted' BY <1>1 DEF UnknownIsNoted
<1>8. GrantsPrecedeUnknown' BY <1>2 DEF GrantsPrecedeUnknown
<1>9. OpenRowsAreSomewhere' BY <1>1 DEF OpenRowsAreSomewhere
<1> QED BY <1>3, <1>4, <1>5, <1>6, <1>7, <1>8, <1>9 DEF Reports

\* The process dies, between two steps or in an acknowledgement.
LEMMA CrashReports ==
    ASSUME HubAssumption, IInv, Reports,
           Crash \/ \E m \in Modules : CrashInAck(m)
    PROVE  Reports'
<1>1. CASE Crash
  <2>1. row' = row BY <1>1 DEF Crash, Lose
  <2>2. RowsMakeSense'
    BY <2>1 DEF Reports, RowsMakeSense, NoRow, Mutation, ReadOnly
  <2> QED BY <1>1, <2>2, LoseReports DEF Crash
<1>2. ASSUME NEW m \in Modules, CrashInAck(m) PROVE Reports'
  <2> DEFINE msg == Head(toAgent[m])
  <2>1. Lose(Written(msg, TRUE)) /\ msg.state = "succeeded"
    BY <1>2 DEF CrashInAck
  <2>2. row' = [row EXCEPT ![msg.cmd] = Updated(@, msg)]
    BY <2>1 DEF Lose, Written
  <2>3. ASSUME NEW c \in Commands
        PROVE  \/ row'[c] = row[c]
               \/ row'[c].state = "succeeded" /\ ~row'[c].unresolved
    BY <2>1, <2>2 DEF IInv, TypeOK, Updated, Uncertain
  <2>4. RowsMakeSense'
    BY <2>3 DEF Reports, RowsMakeSense, Open, NoRow, Mutation, ReadOnly
  <2> QED BY <2>1, <2>4, LoseReports
<1> QED BY <1>1, <1>2

\* A restart leaves no row open, and nothing is queued but the snapshots.
LEMMA StartReports ==
    ASSUME HubAssumption, IInv, Reports, Start
    PROVE  Reports'
<1>1. /\ ~up /\ row' = [c \in Commands |-> Recovered(c)]
      /\ UNCHANGED <<executing, pending, unknown>>
      /\ \A m \in Modules :
            toAgent'[m] = <<[cmd |-> None, state |-> "snapshot",
                             revision |-> controlRevision'[m]]>>
  BY DEF Start, work
<1>2. unknown' = {} BY <1>1 DEF IInv, NothingWhenDown
<1>3. ASSUME NEW c \in Commands
      PROVE  /\ row'[c].state \notin Open
             /\ \/ row'[c] = row[c]
                \/ /\ row'[c].state = IF Mutation(c) THEN "timed_out" ELSE "failed"
                   /\ row'[c].unresolved = Mutation(c)
                   /\ row'[c].resolved = ReadOnly(c)
  BY <1>1 DEF Recovered, Reports, RowsMakeSense, Open, Certain
<1>4. RowsMakeSense'
  <2>1. SUFFICES ASSUME NEW c \in Commands
                 PROVE  /\ row'[c].state = "absent" => row'[c] = NoRow
                        /\ row'[c].unresolved => Mutation(c) /\ row'[c].state = "timed_out"
                        /\ row'[c].resolved => row'[c].state \notin Open
    BY DEF RowsMakeSense, NoRow, Mutation, ReadOnly
  <2>2. CASE row'[c] = row[c] BY <1>3, <2>2 DEF Reports, RowsMakeSense
  <2>3. CASE row'[c] # row[c]
    <3>1. /\ row'[c].state = IF Mutation(c) THEN "timed_out" ELSE "failed"
          /\ row'[c].unresolved = Mutation(c)
      BY <1>3, <2>3
    <3> QED BY <1>3, <3>1
  <2> QED BY <2>2, <2>3
<1>5. ASSUME NEW m \in Modules
      PROVE  /\ Len(toAgent'[m]) = 1
             /\ toAgent'[m][1].state = "snapshot" /\ toAgent'[m][1].cmd = None
  <2> DEFINE first == [cmd |-> None, state |-> "snapshot",
                       revision |-> controlRevision'[m]]
  <2>1. /\ toAgent'[m] = <<first>>
        /\ first.state = "snapshot" /\ first.cmd = None
    BY <1>1
  <2> HIDE DEF first
  <2>2. Len(toAgent'[m]) = 1 /\ toAgent'[m][1] = first BY <2>1
  <2> QED BY <2>1, <2>2
<1>6. ASSUME NEW m \in Modules, NEW i \in 1 .. Len(toAgent'[m])
      PROVE  i = 1 /\ toAgent'[m][i].state = "snapshot" /\ toAgent'[m][i].cmd = None
  <2>1. Len(toAgent'[m]) = 1 BY <1>5
  <2>2. i \in 1 .. 1 BY <2>1
  <2>3. i = 1 BY <2>2
  <2> QED BY <1>5, <2>3
<1>7. UnknownHaveBegun' BY <1>2 DEF UnknownHaveBegun
<1>8. ResultsMakeSense'
  <2>1. \A m \in Modules : \A msg \in Sent(m)' :
           msg.state = "snapshot" /\ msg.cmd = None
    BY <1>6 DEF Sent
  <2>2. "snapshot" \notin Certain BY DEF Certain
  <2> QED BY <2>1, <2>2 DEF ResultsMakeSense, Sensible
<1>9. RunningComesFirst' BY <1>6 DEF RunningComesFirst
<1>10. RunningIsFollowed' BY <1>6 DEF RunningIsFollowed
<1>11. UnknownIsNoted' BY <1>2 DEF UnknownIsNoted
<1>12. GrantsPrecedeUnknown' BY <1>6 DEF GrantsPrecedeUnknown
<1>13. OpenRowsAreSomewhere' BY <1>3 DEF OpenRowsAreSomewhere
<1> QED BY <1>4, <1>7, <1>8, <1>9, <1>10, <1>11, <1>12, <1>13 DEF Reports

-----------------------------------------------------------------------------
(* The Agent takes results.                                                *)

\* What is left in a queue is what was behind its head.
LEMMA Remaining ==
    ASSUME TypeOK, NEW m \in Modules, toAgent[m] # <<>>, Dequeue(m)
    PROVE  /\ Sent(m) \subseteq Sent(m)' \union {Head(toAgent[m])}
           /\ \A n \in Modules \ {m} : Sent(n)' = Sent(n) /\ toAgent'[n] = toAgent[n]
           /\ Len(toAgent[m]) \in Nat \ {0} /\ Head(toAgent[m]) = toAgent[m][1]
           /\ \A i \in 1 .. Len(toAgent'[m]) :
                 /\ i + 1 \in 1 .. Len(toAgent[m])
                 /\ toAgent'[m][i] = toAgent[m][i + 1]
           /\ \A i \in 1 .. Len(toAgent[m]) : i # 1 =>
                 /\ i - 1 \in 1 .. Len(toAgent'[m])
                 /\ toAgent'[m][i - 1] = toAgent[m][i]
<1>1. /\ \A n \in Modules \ {m} : toAgent'[n] = toAgent[n]
      /\ Len(toAgent[m]) \in Nat \ {0}
      /\ Head(toAgent[m]) = toAgent[m][1]
      /\ Len(toAgent'[m]) = Len(toAgent[m]) - 1
      /\ \A i \in 1 .. Len(toAgent[m]) - 1 : toAgent'[m][i] = toAgent[m][i + 1]
  BY DequeueTakes
<1>2. \A i \in 1 .. Len(toAgent'[m]) :
         i + 1 \in 1 .. Len(toAgent[m]) /\ toAgent'[m][i] = toAgent[m][i + 1]
  BY <1>1
<1>3. ASSUME NEW i \in 1 .. Len(toAgent[m]), i # 1
      PROVE  i - 1 \in 1 .. Len(toAgent'[m]) /\ toAgent'[m][i - 1] = toAgent[m][i]
  <2>1. i - 1 \in 1 .. Len(toAgent[m]) - 1 /\ (i - 1) + 1 = i BY <1>1, <1>3
  <2> QED BY <1>1, <2>1
<1>4. Sent(m) \subseteq Sent(m)' \union {Head(toAgent[m])}
  <2>1. ASSUME NEW i \in 1 .. Len(toAgent[m])
        PROVE  toAgent[m][i] \in Sent(m)' \union {Head(toAgent[m])}
    <3>1. CASE i = 1 BY <1>1, <3>1
    <3>2. CASE i # 1 BY <1>3, <3>2 DEF Sent
    <3> QED BY <3>1, <3>2
  <2> QED BY <2>1 DEF Sent
<1>5. \A n \in Modules \ {m} : Sent(n)' = Sent(n) BY <1>1 DEF Sent
<1> QED BY <1>1, <1>2, <1>3, <1>4, <1>5

\* The order of the queues outlives the removal of a head.
LEMMA OrderDequeued ==
    ASSUME HubAssumption, IInv, Reports, NEW m \in Modules,
           toAgent[m] # <<>>, Dequeue(m), journalHealthy' => journalHealthy
    PROVE  /\ UNCHANGED <<world, up, toWorker, executing, pending, unknown>>
           /\ UnknownHaveBegun' /\ RunningComesFirst' /\ RunningIsFollowed'
           /\ GrantsPrecedeUnknown'
<1> USE DEF Reports
<1>1. TypeOK BY DEF IInv
<1>2. UNCHANGED <<world, up, toWorker, executing, pending, unknown>>
  BY DEF Dequeue, work
<1>3. /\ \A n \in Modules \ {m} : toAgent'[n] = toAgent[n]
      /\ Len(toAgent[m]) \in Nat \ {0}
      /\ \A i \in 1 .. Len(toAgent'[m]) :
            /\ i + 1 \in 1 .. Len(toAgent[m])
            /\ toAgent'[m][i] = toAgent[m][i + 1]
      /\ \A i \in 1 .. Len(toAgent[m]) : i # 1 =>
            /\ i - 1 \in 1 .. Len(toAgent'[m])
            /\ toAgent'[m][i - 1] = toAgent[m][i]
  BY <1>1, Remaining
<1>4. UnknownHaveBegun'
  BY <1>2 DEF UnknownHaveBegun, Changes, Mutation, ReadOnly, IsAck
<1>5. RunningComesFirst'
  <2>1. ASSUME NEW n \in Modules,
               NEW i \in 1 .. Len(toAgent'[n]), NEW j \in 1 .. Len(toAgent'[n]),
               i < j, toAgent'[n][j].state = "running"
        PROVE  toAgent'[n][i].cmd # toAgent'[n][j].cmd
    <3>1. CASE n = m
      <4>1. i + 1 < j + 1 BY <2>1
      <4>2. /\ i + 1 \in 1 .. Len(toAgent[m]) /\ j + 1 \in 1 .. Len(toAgent[m])
            /\ toAgent'[n][i] = toAgent[m][i + 1]
            /\ toAgent'[n][j] = toAgent[m][j + 1]
        BY <1>3, <3>1
      <4>3. toAgent[m][i + 1].cmd # toAgent[m][j + 1].cmd
        BY <2>1, <4>1, <4>2 DEF RunningComesFirst
      <4> QED BY <4>2, <4>3
    <3>2. CASE n # m BY <1>3, <2>1, <3>2 DEF RunningComesFirst
    <3> QED BY <3>1, <3>2
  <2> QED BY <2>1 DEF RunningComesFirst
<1>6. RunningIsFollowed'
  <2>1. ASSUME journalHealthy', NEW n \in Modules, NEW i \in 1 .. Len(toAgent'[n]),
               toAgent'[n][i].state = "running"
        PROVE  \/ toAgent'[n][i].cmd \in executing \union pending
               \/ \E j \in 1 .. Len(toAgent'[n]) :
                     i < j /\ toAgent'[n][j].cmd = toAgent'[n][i].cmd
    <3>1. CASE n = m
      <4>1. \/ toAgent'[m][i].cmd \in executing \union pending
            \/ \E k \in 1 .. Len(toAgent[m]) :
                  i + 1 < k /\ toAgent[m][k].cmd = toAgent'[m][i].cmd
        BY <1>3, <2>1, <3>1 DEF RunningIsFollowed
      <4>2. ASSUME NEW k \in 1 .. Len(toAgent[m]), i + 1 < k
            PROVE  /\ k - 1 \in 1 .. Len(toAgent'[m]) /\ i < k - 1
                   /\ toAgent'[m][k - 1] = toAgent[m][k]
        BY <1>3, <3>1, <4>2
      <4> QED BY <3>1, <4>1, <4>2
    <3>2. CASE n # m BY <1>3, <2>1, <3>2 DEF RunningIsFollowed
    <3> QED BY <3>1, <3>2
  <2> QED BY <1>2, <2>1 DEF RunningIsFollowed
<1>7. GrantsPrecedeUnknown'
  <2>1. ASSUME NEW n \in Modules, NEW i \in 1 .. Len(toAgent'[n]),
               toAgent'[n][i].state # "snapshot", Granted(toAgent'[n][i]),
               NEW c \in UnknownIn(n)
        PROVE  \E j \in 1 .. Len(toAgent'[n]) : i < j /\ TimedOut(toAgent'[n][j], c)
    <3>1. CASE n = m
      <4>1. PICK k \in 1 .. Len(toAgent[m]) :
               i + 1 < k /\ TimedOut(toAgent[m][k], c)
        BY <1>3, <2>1, <3>1 DEF GrantsPrecedeUnknown
      <4>2. /\ k - 1 \in 1 .. Len(toAgent'[m]) /\ i < k - 1
            /\ toAgent'[m][k - 1] = toAgent[m][k]
        BY <1>3, <3>1, <4>1
      <4> QED BY <3>1, <4>1, <4>2
    <3>2. CASE n # m BY <1>3, <2>1, <3>2 DEF GrantsPrecedeUnknown
    <3> QED BY <3>1, <3>2
  <2>2. \A n : UnknownIn(n)' = UnknownIn(n) BY <1>2 DEF UnknownIn
  <2> QED BY <2>1, <2>2 DEF GrantsPrecedeUnknown, Granted, TimedOut, IsAck
<1> QED BY <1>2, <1>4, <1>5, <1>6, <1>7

\* A snapshot tells nothing of a command.
LEMMA SnapshotReports ==
    ASSUME HubAssumption, IInv, Reports, NEW m \in Modules, TakeSnapshot(m)
    PROVE  Reports'
<1> USE DEF Reports
<1> DEFINE msg == Head(toAgent[m])
<1>1. /\ toAgent[m] # <<>> /\ msg.state = "snapshot" /\ Dequeue(m)
      /\ UNCHANGED <<row, journalHealthy>>
  BY DEF TakeSnapshot, Receive
<1>2. TypeOK BY DEF IInv
<1>3. /\ UNCHANGED <<world, up, toWorker, executing, pending, unknown>>
      /\ UnknownHaveBegun' /\ RunningComesFirst' /\ RunningIsFollowed'
      /\ GrantsPrecedeUnknown'
  BY <1>1, OrderDequeued
<1>4. msg \in Sent(m) /\ \A n \in Modules : Sent(n)' \subseteq Sent(n)
  BY <1>1, <1>2, DequeueTakes
<1>5. \A n \in Modules : Sent(n) \subseteq Sent(n)' \union {msg}
  BY <1>1, <1>2, Remaining
<1>6. msg.cmd = None BY <1>1, <1>4 DEF ResultsMakeSense, Sensible
<1>7. RowsMakeSense' BY <1>1 DEF RowsMakeSense, NoRow, Mutation, ReadOnly
<1>8. ResultsMakeSense'
  BY <1>1, <1>3, <1>4 DEF ResultsMakeSense, Sensible, RowIsNew, IsAck
<1>9. UnknownIsNoted'
  <2>1. \A c : ~TimedOut(msg, c) BY <1>1 DEF TimedOut
  <2>2. \A c \in unknown : ModuleOf[c] \in Modules
    BY <1>2 DEF TypeOK, HubAssumption
  <2> QED BY <1>1, <1>3, <1>5, <2>1, <2>2 DEF UnknownIsNoted, TimedOut
<1>10. OpenRowsAreSomewhere'
  <2>1. ASSUME NEW c \in Commands, c \in Reported(ModuleOf[c])
        PROVE  c \in Reported(ModuleOf[c])'
    <3>1. ModuleOf[c] \in Modules /\ c # None BY DEF HubAssumption
    <3>2. PICK other \in Sent(ModuleOf[c]) : other.cmd = c BY <2>1 DEF Reported
    <3>3. other \in Sent(ModuleOf[c])' BY <1>5, <1>6, <3>1, <3>2
    <3> QED BY <3>2, <3>3 DEF Reported
  <2>2. \A n : Asked(n)' = Asked(n) BY <1>3 DEF Asked
  <2> QED BY <1>1, <1>3, <2>1, <2>2 DEF OpenRowsAreSomewhere
<1> QED BY <1>3, <1>7, <1>8, <1>9, <1>10

\* The row of a result once it is written.
WritesRow(msg) ==
    /\ row'[msg.cmd].state = msg.state
    /\ row'[msg.cmd].revision = msg.revision
    /\ Uncertain(msg) => row'[msg.cmd].unresolved /\ ~row'[msg.cmd].resolved
    /\ ~Uncertain(msg) => ~row'[msg.cmd].unresolved
    /\ row'[msg.cmd].resolved => row[msg.cmd].resolved

\* Any other row of the ledger, or any at all when the write failed.
KeepsRow(m, msg, c) ==
    /\ row'[c].state = row[c].state
    /\ row'[c].unresolved = row[c].unresolved
    /\ row'[c].revision = row[c].revision
    /\ row[c].resolved => row'[c].resolved
    /\ ~Granted(msg) \/ ~row[c].unresolved \/ ModuleOf[c] # m => row'[c] = row[c]

Handles(m, msg, wrote, cleared) ==
    /\ msg.state # "snapshot" /\ msg.cmd \in Commands /\ ModuleOf[msg.cmd] = m
    /\ toAgent[m] # <<>> /\ Dequeue(m) /\ up /\ msg \in Message
    /\ journalHealthy' => journalHealthy /\ wrote /\ cleared
    /\ \A c \in Commands : c # msg.cmd \/ ~wrote => KeepsRow(m, msg, c)
    /\ wrote => WritesRow(msg)
    /\ Granted(msg) /\ cleared =>
          \A c \in Commands : ModuleOf[c] = m /\ row'[c].unresolved =>
              row'[c].resolved

\* What HubAgent::onCommandResult does to the rows.
LEMMA ResultRows ==
    ASSUME HubAssumption, IInv, NEW m \in Modules, NEW msg \in Sent(m),
           NEW wrote \in BOOLEAN, NEW cleared \in BOOLEAN,
           msg = Head(toAgent[m]), TakeResult(m, msg, wrote, cleared)
    PROVE  Handles(m, msg, wrote, cleared)
<1> DEFINE ledger == Written(msg, wrote)
<1>1. TypeOK BY DEF IInv
<1>2. /\ msg.state # "snapshot" /\ toAgent[m] # <<>> /\ Dequeue(m) /\ up
      /\ journalHealthy' => journalHealthy /\ wrote /\ cleared
      /\ row' = IF Granted(msg) /\ cleared THEN ResolveModule(ledger, m) ELSE ledger
  BY DEF TakeResult, Receive
<1>3. msg \in Message BY <1>1, <1>2, HeadType
<1>4. msg.cmd \in Commands /\ ModuleOf[msg.cmd] = m
  BY <1>2, ResultIsAbout
<1>5. ledger \in [Commands -> Row] BY <1>2, <1>3, <1>1, WrittenType
<1>6. /\ \A c \in Commands : c # msg.cmd \/ ~wrote => ledger[c] = row[c]
      /\ wrote => ledger[msg.cmd] = Updated(row[msg.cmd], msg)
  BY <1>1, <1>4 DEF Written, TypeOK
<1>7. Granted(msg) => ~Uncertain(msg) BY DEF Granted, Uncertain
<1> HIDE DEF ledger
<1>8. ASSUME NEW c \in Commands
      PROVE  /\ row'[c].state = ledger[c].state
             /\ row'[c].unresolved = ledger[c].unresolved
             /\ row'[c].revision = ledger[c].revision
             /\ ledger[c].resolved => row'[c].resolved
             /\ ~Granted(msg) \/ ~ledger[c].unresolved \/ ModuleOf[c] # m =>
                   row'[c] = ledger[c]
             /\ Granted(msg) /\ cleared /\ ModuleOf[c] = m /\ ledger[c].unresolved =>
                   row'[c].resolved
  <2>1. ledger[c] \in Row BY <1>5
  <2>2. CASE Granted(msg) /\ cleared
    BY <1>2, <2>1, <2>2 DEF ResolveModule, UnresolvedIn, Row
  <2>3. CASE ~(Granted(msg) /\ cleared)
    BY <1>2, <2>1, <2>3
  <2> QED BY <2>2, <2>3
<1>9. ASSUME wrote
      PROVE  /\ ledger[msg.cmd].state = msg.state
             /\ ledger[msg.cmd].revision = msg.revision
             /\ Uncertain(msg) =>
                   ledger[msg.cmd].unresolved /\ ~ledger[msg.cmd].resolved
             /\ ~Uncertain(msg) => ~ledger[msg.cmd].unresolved
             /\ ledger[msg.cmd].resolved => row[msg.cmd].resolved
  <2>1. CASE Uncertain(msg) BY <1>6, <1>9, <2>1 DEF Updated
  <2>2. CASE ~Uncertain(msg) BY <1>6, <1>9, <2>2 DEF Updated
  <2> QED BY <2>1, <2>2
<1>10. ASSUME wrote PROVE WritesRow(msg)
  <2>1. row'[msg.cmd] = ledger[msg.cmd]
    BY <1>4, <1>7, <1>8, <1>9, <1>10
  <2> QED BY <1>9, <1>10, <2>1 DEF WritesRow
<1>11. ASSUME NEW c \in Commands, c # msg.cmd \/ ~wrote
       PROVE  KeepsRow(m, msg, c)
  <2>1. ledger[c] = row[c] BY <1>6, <1>11
  <2> QED BY <1>8, <2>1 DEF KeepsRow
<1>12. ASSUME Granted(msg), cleared, NEW c \in Commands,
              ModuleOf[c] = m, row'[c].unresolved
       PROVE  row'[c].resolved
  BY <1>8, <1>12
<1> QED BY <1>2, <1>3, <1>4, <1>10, <1>11, <1>12 DEF Handles

\* A result, the ledger and what is still under way go on to agree.
LEMMA ResultReports ==
    ASSUME HubAssumption, IInv, Reports, NEW m \in Modules, NEW msg \in Sent(m),
           NEW wrote \in BOOLEAN, NEW cleared \in BOOLEAN,
           msg = Head(toAgent[m]), TakeResult(m, msg, wrote, cleared)
    PROVE  Reports'
<1> USE DEF Reports
<1>1. TypeOK BY DEF IInv
<1>2. Handles(m, msg, wrote, cleared) BY ResultRows
<1>3. /\ msg.state # "snapshot" /\ msg.cmd \in Commands /\ ModuleOf[msg.cmd] = m
      /\ toAgent[m] # <<>> /\ Dequeue(m)
      /\ msg \in Message
      /\ journalHealthy' => journalHealthy /\ wrote
  BY <1>2 DEF Handles
<1>4. /\ wrote => WritesRow(msg)
      /\ \A c \in Commands : c # msg.cmd \/ ~wrote =>
            /\ row'[c].state = row[c].state
            /\ row'[c].unresolved = row[c].unresolved
            /\ ~Granted(msg) \/ ~row[c].unresolved \/ ModuleOf[c] # m => row'[c] = row[c]
  BY <1>2 DEF Handles, KeepsRow
<1>5. /\ UNCHANGED <<world, up, toWorker, executing, pending, unknown>>
      /\ UnknownHaveBegun' /\ RunningComesFirst' /\ RunningIsFollowed'
      /\ GrantsPrecedeUnknown'
  BY <1>3, OrderDequeued
<1>6. /\ \A n \in Modules : Sent(n)' \subseteq Sent(n)
      /\ \A n \in Modules : Sent(n) \subseteq Sent(n)' \union {msg}
      /\ \A n \in Modules \ {m} : Sent(n)' = Sent(n)
      /\ Len(toAgent[m]) \in Nat \ {0} /\ msg = toAgent[m][1]
      /\ \A i \in 1 .. Len(toAgent'[m]) :
            /\ i + 1 \in 1 .. Len(toAgent[m])
            /\ toAgent'[m][i] = toAgent[m][i + 1]
      /\ \A i \in 1 .. Len(toAgent[m]) : i # 1 =>
            /\ i - 1 \in 1 .. Len(toAgent'[m])
            /\ toAgent'[m][i - 1] = toAgent[m][i]
  BY <1>1, <1>3, DequeueTakes, Remaining
<1>7. Sensible(msg) BY DEF ResultsMakeSense
<1>8. ASSUME NEW other \in Sent(m)', other.state = "running"
      PROVE  other.cmd # msg.cmd
  <2>1. PICK i \in 1 .. Len(toAgent'[m]) : other = toAgent'[m][i]
    BY DEF Sent
  <2>2. /\ i + 1 \in 1 .. Len(toAgent[m]) /\ 1 < i + 1
        /\ 1 \in 1 .. Len(toAgent[m])
        /\ toAgent[m][i + 1].state = "running"
    BY <1>6, <1>8, <2>1
  <2>3. toAgent[m][1].cmd # toAgent[m][i + 1].cmd
    BY <2>2 DEF RunningComesFirst
  <2> QED BY <1>6, <2>1, <2>3
<1>9. RowsMakeSense'
  <2>1. ASSUME NEW c \in Commands, c # msg.cmd \/ ~wrote
        PROVE  /\ row'[c].state = "absent" => row'[c] = NoRow
               /\ row'[c].unresolved => Mutation(c) /\ row'[c].state = "timed_out"
               /\ row'[c].resolved => row'[c].state \notin Open
    <3>1. CASE ~row[c].unresolved
      BY <1>4, <2>1, <3>1 DEF RowsMakeSense
    <3>2. CASE row[c].unresolved
      BY <1>4, <2>1, <3>2 DEF RowsMakeSense, Open
    <3> QED BY <3>1, <3>2
  <2>2. ASSUME wrote
        PROVE  /\ row'[msg.cmd].state # "absent"
               /\ row'[msg.cmd].unresolved =>
                     Mutation(msg.cmd) /\ row'[msg.cmd].state = "timed_out"
               /\ row'[msg.cmd].resolved => row'[msg.cmd].state \notin Open
    <3>1. msg.state # "absent"
      BY <1>3 DEF Message, Open, Terminal, Certain
    <3>2. msg.state \in Open => RowIsNew(msg.cmd)
      BY <1>7 DEF Sensible, Open
    <3> QED BY <1>4, <2>2, <3>1, <3>2 DEF WritesRow, Uncertain, Open, RowIsNew
  <2> QED BY <1>3, <2>1, <2>2 DEF RowsMakeSense, NoRow, Mutation, ReadOnly
<1>10. ResultsMakeSense'
  <2>1. ASSUME NEW n \in Modules, NEW other \in Sent(n)'
        PROVE  Sensible(other)'
    <3>1. other \in Sent(n) /\ Sensible(other)
      BY <1>6, <2>1 DEF ResultsMakeSense
    <3>2. CASE other.state = "snapshot"
      BY <1>5, <3>1, <3>2 DEF Sensible, Certain
    <3>3. CASE other.state # "snapshot"
      <4>1. other.cmd \in Commands /\ ModuleOf[other.cmd] = n
        BY <3>1, <3>3, ResultIsAbout
      <4>2. ASSUME other.state = "running" PROVE RowIsNew(other.cmd)'
        <5>1. other.cmd # msg.cmd BY <1>3, <1>8, <2>1, <4>1, <4>2
        <5>2. RowIsNew(other.cmd) BY <3>1, <4>2 DEF Sensible
        <5> QED BY <1>4, <4>1, <5>1, <5>2 DEF RowIsNew
      <4>3. ASSUME IsAck(other.cmd)
            PROVE  other.state \in Certain /\ ~row'[other.cmd].unresolved
        <5>1. other.state \in Certain /\ ~row[other.cmd].unresolved
          BY <3>1, <3>3, <4>3 DEF Sensible
        <5>2. CASE other.cmd # msg.cmd \/ ~wrote
          BY <1>4, <4>1, <5>1, <5>2
        <5>3. CASE other.cmd = msg.cmd /\ wrote
          <6>1. msg.state \in Certain BY <1>3, <1>7, <4>3, <5>3 DEF Sensible
          <6> QED BY <1>4, <5>1, <5>3, <6>1 DEF WritesRow, Uncertain, Certain
        <5> QED BY <5>2, <5>3
      <4> QED BY <1>5, <3>1, <3>3, <4>2, <4>3 DEF Sensible, IsAck
    <3> QED BY <3>2, <3>3
  <2> QED BY <2>1 DEF ResultsMakeSense
<1>11. UnknownIsNoted'
  <2>1. ASSUME journalHealthy', NEW c \in unknown
        PROVE  \/ row'[c].unresolved /\ ~row'[c].resolved
               \/ \E other \in Sent(ModuleOf[c])' : TimedOut(other, c)
    <3>1. /\ c \in Commands /\ ModuleOf[c] \in Modules /\ Mutation(c)
          /\ wrote /\ journalHealthy
      BY <1>1, <1>3, <2>1 DEF TypeOK, HubAssumption, UnknownHaveBegun, Changes
    <3>2. CASE c = msg.cmd
      <4>1. msg.state \notin Certain BY <1>7, <2>1, <3>2 DEF Sensible
      <4>2. CASE msg.state = "timed_out"
        BY <1>4, <3>1, <3>2, <4>2 DEF WritesRow, Uncertain
      <4>3. CASE msg.state = "running"
        <5>1. RowIsNew(c) BY <1>7, <3>2, <4>3 DEF Sensible
        <5>2. PICK other \in Sent(ModuleOf[c]) : TimedOut(other, c)
          BY <2>1, <3>1, <5>1 DEF UnknownIsNoted, RowIsNew
        <5>3. other # msg BY <4>3, <5>2 DEF TimedOut
        <5> QED BY <1>6, <3>1, <5>2, <5>3
      <4> QED BY <1>3, <1>7, <4>1, <4>2, <4>3 DEF Message, Open, Terminal, Sensible
    <3>3. CASE c # msg.cmd
      <4>1. ASSUME NEW other \in Sent(ModuleOf[c]), TimedOut(other, c)
            PROVE  other \in Sent(ModuleOf[c])'
        BY <1>6, <3>1, <3>3, <4>1 DEF TimedOut
      <4>2. CASE Granted(msg) /\ ModuleOf[c] = m
        <5>1. c \in UnknownIn(m) /\ 1 \in 1 .. Len(toAgent[m])
          BY <1>6, <2>1, <4>2 DEF UnknownIn
        <5>2. PICK j \in 1 .. Len(toAgent[m]) : 1 < j /\ TimedOut(toAgent[m][j], c)
          BY <1>3, <1>6, <4>2, <5>1 DEF GrantsPrecedeUnknown
        <5>3. toAgent[m][j] \in Sent(m) BY DEF Sent
        <5> QED BY <4>1, <4>2, <5>2, <5>3
      <4>3. CASE ~(Granted(msg) /\ ModuleOf[c] = m)
        <5>1. row'[c] = row[c] BY <1>4, <3>1, <3>3, <4>3
        <5> QED BY <2>1, <3>1, <4>1, <5>1 DEF UnknownIsNoted
      <4> QED BY <4>2, <4>3
    <3> QED BY <3>2, <3>3
  <2> QED BY <1>5, <2>1 DEF UnknownIsNoted, TimedOut
<1>12. OpenRowsAreSomewhere'
  <2>1. ASSUME up, journalHealthy', NEW c \in Commands, row'[c].state \in Open
        PROVE  \/ c \in Asked(ModuleOf[c])
               \/ c \in executing \union pending
               \/ c \in Reported(ModuleOf[c])'
    <3>1. wrote /\ journalHealthy /\ ModuleOf[c] \in Modules
      BY <1>3, <2>1 DEF HubAssumption
    <3>2. CASE c = msg.cmd
      <4>1. msg.state = "running"
        BY <1>4, <1>7, <2>1, <3>1, <3>2 DEF WritesRow, Sensible, Open
      <4>2. 1 \in 1 .. Len(toAgent[m]) BY <1>6
      <4>3. \/ c \in executing \union pending
            \/ \E j \in 1 .. Len(toAgent[m]) : 1 < j /\ toAgent[m][j].cmd = c
        BY <1>6, <3>1, <3>2, <4>1, <4>2 DEF RunningIsFollowed
      <4>4. ASSUME NEW j \in 1 .. Len(toAgent[m]), 1 < j, toAgent[m][j].cmd = c
            PROVE  c \in Reported(m)'
        <5>1. j # 1 BY <4>4
        <5>2. toAgent[m][j] \in Sent(m)' BY <1>6, <5>1 DEF Sent
        <5> QED BY <4>4, <5>2 DEF Reported
      <4> QED BY <1>3, <3>2, <4>3, <4>4
    <3>3. CASE c # msg.cmd
      <4>1. row[c].state \in Open BY <1>4, <2>1, <3>3
      <4>2. ASSUME c \in Reported(ModuleOf[c]) PROVE c \in Reported(ModuleOf[c])'
        BY <1>6, <3>1, <3>3, <4>2 DEF Reported
      <4> QED BY <2>1, <3>1, <4>1, <4>2 DEF OpenRowsAreSomewhere
    <3> QED BY <3>2, <3>3
  <2>2. \A n : Asked(n)' = Asked(n) BY <1>5 DEF Asked
  <2> QED BY <1>5, <2>1, <2>2 DEF OpenRowsAreSomewhere
<1> QED BY <1>5, <1>9, <1>10, <1>11, <1>12

-----------------------------------------------------------------------------
(* What the workers do to the Agent and to the revisions.                  *)

\* A worker reaches the Agent only through its queue, and its revision goes up.
Publishes ==
    \E m \in Modules, msg \in Message :
        /\ msg.state # "snapshot"
        /\ controlRevision[m] <= msg.revision
        /\ controlRevision' = [controlRevision EXCEPT ![m] = msg.revision]
        /\ toAgent' = [toAgent EXCEPT ![m] = Append(@, msg)]

\* The ledger and the Agent's own state are out of a worker's reach.
WorksApart ==
    /\ UNCHANGED <<row, agentVars>>
    /\ UNCHANGED <<toAgent, controlRevision>> \/ Publishes

\* Publishing a result is such a step.
LEMMA PublishPublishes ==
    ASSUME HubAssumption, TypeOK, NEW c \in Commands,
           NEW state \in Open \union Terminal, NEW gate, Publish(c, state, gate)
    PROVE  Publishes
<1> DEFINE m == ModuleOf[c]
           r == controlRevision[m]
                  + (IF state = "succeeded" /\ Mutation(c) THEN 1 ELSE 0)
           msg == [cmd |-> c, state |-> state, revision |-> r]
<1>1. m \in Modules BY DEF HubAssumption
<1>2. controlRevision[m] \in Int BY <1>1 DEF TypeOK
<1>3. r \in Int /\ controlRevision[m] <= r BY <1>2
<1>4. msg \in Message /\ state # "snapshot"
  BY <1>3 DEF Message, Open, Terminal, Certain
<1>5. /\ controlRevision' = [controlRevision EXCEPT ![m] = r]
      /\ toAgent' = [toAgent EXCEPT ![m] = Append(@, msg)]
  BY DEF Publish
<1>6. msg.state = state /\ msg.revision = r OBVIOUS
<1> HIDE DEF m, r, msg
<1> QED BY <1>1, <1>3, <1>4, <1>5, <1>6 DEF Publishes

\* submitCommand and the later events publish, or reach nobody.
LEMMA WorkersWorkApart ==
    ASSUME HubAssumption, TypeOK,
           \/ \E m \in Modules : WorkerStep(m)
           \/ \E c \in Commands : CommandEvent(c)
    PROVE  WorksApart
<1>1. ASSUME NEW m \in Modules, WorkerStep(m) PROVE WorksApart
  <2>1. PICK c \in Commands :
           \/ RefuseAtGate(m, c) \/ RefuseCommand(m, c) \/ AnswerAtOnce(m, c)
           \/ RunNative(m, c) \/ Begin(m, c) \/ BeginLaunchd(m, c)
           \/ RefuseAck(m, c) \/ GrantAck(m, c)
    BY <1>1 DEF WorkerStep
  <2>2. Take(m, c)
    BY <2>1 DEF RefuseAtGate, RefuseCommand, AnswerAtOnce, RunNative, Begin,
                BeginLaunchd, RefuseAck, GrantAck
  <2>3. UNCHANGED <<row, agentVars>> BY <2>2 DEF Take
  <2>4. CASE BeginLaunchd(m, c)
    BY <2>3, <2>4 DEF BeginLaunchd, WorksApart
  <2>5. CASE ~BeginLaunchd(m, c)
    <3>1. \E state \in Certain \union {"running"} :
             Publish(c, state, active) \/ Publish(c, state, Gate(m, c))
      BY <2>1, <2>5 DEF RefuseAtGate, RefuseCommand, AnswerAtOnce, RunNative, Begin,
                        RefuseAck, GrantAck, Certain
    <3>2. Certain \union {"running"} \subseteq Open \union Terminal
      BY DEF Open, Terminal
    <3> QED BY <2>3, <3>1, <3>2, PublishPublishes DEF WorksApart
  <2> QED BY <2>4, <2>5
<1>2. ASSUME NEW c \in Commands, CommandEvent(c) PROVE WorksApart
  <2>1. UNCHANGED <<row, agentVars>>
    BY <1>2 DEF CommandEvent, Deadline, Finish, FinishUncertain, LifecycleMutate,
                LifecycleFinishes, LifecycleCertain, LifecycleUncertain, AwaitReadiness,
                LifecycleEnds, WindowExpires, EffectEnds, Quiet
  <2>2. CASE LifecycleMutate(c) \/ WindowExpires(c) \/ EffectEnds(c)
    BY <2>1, <2>2 DEF LifecycleMutate, WindowExpires, EffectEnds, serial, WorksApart
  <2>3. CASE ~(LifecycleMutate(c) \/ WindowExpires(c) \/ EffectEnds(c))
    <3>1. \E state \in Open \union Terminal : Publish(c, state, active)
      BY <1>2, <2>3
      DEF CommandEvent, Deadline, Finish, FinishUncertain, LifecycleFinishes,
          LifecycleCertain, LifecycleUncertain, AwaitReadiness, Open, Terminal
    <3> QED BY <2>1, <3>1, PublishPublishes DEF WorksApart
  <2> QED BY <2>2, <2>3
<1> QED BY <1>1, <1>2

-----------------------------------------------------------------------------
(* The interlocks agree with the ledger.                                   *)

\* As long as nobody writes either of the two.
LEMMA InterlockKept ==
    ASSUME InterlockMatchesLedger, UNCHANGED <<row, up, locked>>,
           journalHealthy' => journalHealthy
    PROVE  InterlockMatchesLedger'
BY DEF InterlockMatchesLedger, UnresolvedIn

\* A row without a doubt changes nobody's interlock.
LEMMA SameUnresolved ==
    ASSUME \A c \in Commands :
              (row'[c].unresolved /\ ~row'[c].resolved)
                  <=> (row[c].unresolved /\ ~row[c].resolved)
    PROVE  \A m : UnresolvedIn(row, m)' = UnresolvedIn(row, m)
BY DEF UnresolvedIn

\* A new row is about nothing unknown.
LEMMA SubmitLocks ==
    ASSUME HubAssumption, IInv, Reports, InterlockMatchesLedger,
           NEW c \in Commands, Submit(c)
    PROVE  InterlockMatchesLedger'
<1>1. PICK expected \in Int : Accept(c, expected) \/ RefuseStale(c, expected)
  BY DEF Submit
<1>2. /\ row[c].state = "absent" /\ UNCHANGED agentVars
      /\ \/ row' = [row EXCEPT ![c] = Reserved("accepted", moduleRevision[ModuleOf[c]])]
         \/ row' = [row EXCEPT ![c] = Reserved("failed", moduleRevision[ModuleOf[c]])]
  BY <1>1 DEF Accept, RefuseStale, Admissible
<1>3. row[c] = NoRow BY <1>2 DEF Reports, RowsMakeSense
<1>4. ~row[c].unresolved /\ ~row'[c].unresolved /\ \A d \in Commands \ {c} : row'[d] = row[d]
  BY <1>2, <1>3 DEF IInv, TypeOK, Reserved, NoRow
<1>5. \A m : UnresolvedIn(row, m)' = UnresolvedIn(row, m)
  BY <1>4, SameUnresolved
<1> QED BY <1>2, <1>5 DEF InterlockMatchesLedger, agentVars

\* A result moves the interlock of its module with the ledger.
LEMMA ResultLocks ==
    ASSUME HubAssumption, IInv, Reports, InterlockMatchesLedger,
           NEW m \in Modules, NEW msg \in Sent(m),
           NEW wrote \in BOOLEAN, NEW cleared \in BOOLEAN,
           msg = Head(toAgent[m]), TakeResult(m, msg, wrote, cleared)
    PROVE  InterlockMatchesLedger'
<1> SUFFICES ASSUME up', journalHealthy'
             PROVE  locked' = {n \in Modules : UnresolvedIn(row', n) # {}}
  BY DEF InterlockMatchesLedger, UnresolvedIn
<1> DEFINE ledger == Written(msg, wrote)
<1>1. Handles(m, msg, wrote, cleared) BY ResultRows
<1>2. /\ msg.state # "snapshot" /\ msg.cmd \in Commands /\ ModuleOf[msg.cmd] = m
      /\ journalHealthy /\ wrote /\ cleared /\ up /\ WritesRow(msg)
      /\ \A c \in Commands \ {msg.cmd} : KeepsRow(m, msg, c)
  BY <1>1 DEF Handles
<1>3. /\ locked = {n \in Modules : UnresolvedIn(row, n) # {}}
  BY <1>2 DEF InterlockMatchesLedger
<1>4. locked' = LockedAfter(m, msg, ledger, Asks(m, msg, wrote), cleared)
  BY DEF TakeResult
<1>5. Sensible(msg) BY DEF Reports, ResultsMakeSense
<1>6. \A n \in Modules \ {m} : UnresolvedIn(row', n) = UnresolvedIn(row, n)
  BY <1>2 DEF UnresolvedIn, KeepsRow
<1>7. SUFFICES /\ \A n \in Modules \ {m} : n \in locked' <=> n \in locked
               /\ m \in locked' <=> UnresolvedIn(row', m) # {}
               /\ locked' \subseteq Modules
  BY <1>3, <1>6
<1>8. locked' \in {locked, locked \ {m}, locked \union {m}}
  BY <1>4 DEF LockedAfter
<1>9. m \in locked' <=> UnresolvedIn(row', m) # {}
  <2>1. CASE Granted(msg)
    <3>1. UnresolvedIn(row', m) = {}
      BY <1>1, <1>2, <2>1 DEF Handles, UnresolvedIn
    <3>2. ~Uncertain(msg) /\ ~Asks(m, msg, wrote)
      BY <2>1 DEF Granted, Uncertain, Asks
    <3>3. locked' = locked \ {m} BY <1>2, <1>4, <2>1, <3>2 DEF LockedAfter
    <3> QED BY <3>1, <3>3
  <2>2. CASE Uncertain(msg)
    <3>1. ~Granted(msg) /\ ~Asks(m, msg, wrote)
      BY <2>2 DEF Granted, Uncertain, Asks
    <3>2. msg.cmd \in UnresolvedIn(row', m)
      BY <1>2, <2>2 DEF WritesRow, UnresolvedIn
    <3>3. locked' = locked \union {m} BY <1>4, <2>2, <3>1 DEF LockedAfter
    <3> QED BY <3>2, <3>3
  <2>3. CASE ~Granted(msg) /\ ~Uncertain(msg)
    <3>1. row' = ledger BY <1>2, <2>3 DEF TakeResult
    <3>2. ~row'[msg.cmd].unresolved BY <1>2, <2>3 DEF WritesRow
    <3>3. UnresolvedIn(row', m) = UnresolvedIn(row, m) \ {msg.cmd}
      BY <1>2, <2>3, <3>2 DEF UnresolvedIn, KeepsRow
    <3>4. CASE IsAck(msg.cmd)
      <4>1. ~row[msg.cmd].unresolved BY <1>2, <1>5, <3>4 DEF Sensible
      <4>2. UnresolvedIn(row', m) = UnresolvedIn(row, m)
        BY <3>3, <4>1 DEF UnresolvedIn
      <4>3. ~Asks(m, msg, wrote) BY <3>4 DEF Asks
      <4>4. locked' = locked BY <1>4, <2>3, <4>3 DEF LockedAfter
      <4> QED BY <1>3, <4>2, <4>4
    <3>5. CASE ~IsAck(msg.cmd) /\ m \notin locked
      <4>1. UnresolvedIn(row, m) = {} BY <1>3, <3>5
      <4>2. ~Asks(m, msg, wrote) BY <3>5 DEF Asks
      <4>3. locked' = locked BY <1>4, <2>3, <4>2 DEF LockedAfter
      <4> QED BY <3>3, <3>5, <4>1, <4>3
    <3>6. CASE ~IsAck(msg.cmd) /\ m \in locked
      <4>1. Asks(m, msg, wrote) BY <1>2, <2>3, <3>6 DEF Asks
      <4>2. locked' = IF UnresolvedIn(ledger, m) = {} THEN locked \ {m} ELSE locked
        BY <1>2, <1>4, <2>3, <4>1 DEF LockedAfter
      <4> QED BY <3>1, <3>6, <4>2
    <3> QED BY <3>4, <3>5, <3>6
  <2> QED BY <2>1, <2>2, <2>3
<1> QED BY <1>3, <1>8, <1>9

\* The interlocks go on to agree with the ledger.
LEMMA StepLocks ==
    ASSUME HubAssumption, IInv, Reports, InterlockMatchesLedger, [Next]_vars
    PROVE  InterlockMatchesLedger'
<1>1. TypeOK BY DEF IInv
<1>2. CASE Start
  BY <1>2 DEF Start, InterlockMatchesLedger, Interlocks, UnresolvedIn
<1>3. ASSUME NEW ledger, Lose(ledger) PROVE InterlockMatchesLedger'
  BY <1>3 DEF Lose, InterlockMatchesLedger
<1>4. CASE Crash BY <1>3, <1>4 DEF Crash
<1>5. CASE JournalFails \/ AuditReadyChanged \/ UNCHANGED vars
  <2>1. UNCHANGED <<row, up, locked>> /\ (journalHealthy' => journalHealthy)
    BY <1>5 DEF JournalFails, AuditReadyChanged, vars, durable, agentVars
  <2> QED BY <2>1, InterlockKept
<1>6. ASSUME NEW c \in Commands, Submit(c) PROVE InterlockMatchesLedger'
  BY <1>6, SubmitLocks
<1>7. CASE \/ \E m \in Modules : WorkerStep(m)
           \/ \E c \in Commands : CommandEvent(c)
  <2>1. WorksApart BY <1>1, <1>7, WorkersWorkApart
  <2> QED BY <2>1, InterlockKept DEF WorksApart, agentVars
<1>8. ASSUME NEW m \in Modules, AgentStep(m) PROVE InterlockMatchesLedger'
  <2>1. CASE TakeSnapshot(m)
    <3>1. UNCHANGED <<row, up, locked, journalHealthy>>
      BY <2>1 DEF TakeSnapshot, Dequeue
    <3> QED BY <3>1, InterlockKept
  <2>2. ASSUME NEW wrote \in BOOLEAN, NEW cleared \in BOOLEAN, toAgent[m] # <<>>,
               TakeResult(m, Head(toAgent[m]), wrote, cleared)
        PROVE  InterlockMatchesLedger'
    <3>1. Head(toAgent[m]) \in Sent(m)
      BY <1>1, <2>2, DequeueTakes DEF TakeResult
    <3> QED BY <2>2, <3>1, ResultLocks
  <2> QED BY <1>8, <2>1, <2>2 DEF AgentStep
<1>9. ASSUME NEW m \in Modules, CrashInAck(m) PROVE InterlockMatchesLedger'
  BY <1>3, <1>9 DEF CrashInAck
<1> QED BY <1>2, <1>4, <1>5, <1>6, <1>7, <1>8, <1>9 DEF Next

\* Every step keeps the reports in agreement.
LEMMA StepReports ==
    ASSUME HubAssumption, IInv, Reports, [Next]_vars
    PROVE  Reports'
<1>1. TypeOK BY DEF IInv
<1>2. CASE JournalFails \/ AuditReadyChanged \/ UNCHANGED vars
  <2>1. /\ UNCHANGED <<durable, up, toWorker, toAgent, executing, pending, unknown>>
        /\ journalHealthy' => journalHealthy
    BY <1>2 DEF JournalFails, AuditReadyChanged, vars, agentVars, work
  <2> QED BY <2>1, HealthReports
<1>3. ASSUME NEW m \in Modules, AgentStep(m) PROVE Reports'
  <2>1. ASSUME NEW wrote \in BOOLEAN, NEW cleared \in BOOLEAN, toAgent[m] # <<>>,
               TakeResult(m, Head(toAgent[m]), wrote, cleared)
        PROVE  Reports'
    <3>1. Head(toAgent[m]) \in Sent(m)
      BY <1>1, <2>1, DequeueTakes DEF TakeResult
    <3> QED BY <2>1, <3>1, ResultReports
  <2> QED BY <1>3, <2>1, SnapshotReports DEF AgentStep
<1> QED BY <1>2, <1>3, StartReports, CrashReports, SubmitReports, EventReports,
           WorkerReports DEF Next

-----------------------------------------------------------------------------
(* The revisions go up.                                                    *)

\* A published result carries the newest revision there is.
LEMMA PublishAscends ==
    ASSUME TypeOK, RevisionsAscend, UNCHANGED moduleRevision, Publishes
    PROVE  RevisionsAscend'
<1>1. PICK m \in Modules, msg \in Message :
         /\ msg.state # "snapshot"
         /\ controlRevision[m] <= msg.revision
         /\ controlRevision' = [controlRevision EXCEPT ![m] = msg.revision]
         /\ toAgent' = [toAgent EXCEPT ![m] = Append(@, msg)]
  BY DEF Publishes
<1> DEFINE last == Len(toAgent[m]) + 1
<1>2. /\ controlRevision'[m] = msg.revision /\ msg.revision \in Int
      /\ controlRevision[m] \in Int
      /\ \A n \in Modules \ {m} :
            controlRevision'[n] = controlRevision[n] /\ toAgent'[n] = toAgent[n]
      /\ toAgent'[m] = Append(toAgent[m], msg)
  BY <1>1 DEF TypeOK, Message
<1>3. toAgent[m] \in Seq(Message) BY DEF TypeOK
<1>4. /\ Len(toAgent[m]) \in Nat
      /\ Len(toAgent'[m]) = last
      /\ \A i \in 1 .. Len(toAgent[m]) : toAgent'[m][i] = toAgent[m][i]
      /\ toAgent'[m][last] = msg
  BY <1>2, <1>3, AppendElements
<1>5. /\ moduleRevision[m] \in Int /\ moduleRevision[m] <= controlRevision[m]
      /\ \A i \in 1 .. Len(toAgent[m]) :
            /\ toAgent[m][i].revision \in Int
            /\ moduleRevision[m] <= toAgent[m][i].revision
            /\ toAgent[m][i].revision <= controlRevision[m]
            /\ toAgent[m][i].state = "snapshot" =>
                  /\ i = 1
                  /\ \/ toAgent[m][i].revision = moduleRevision[m]
                     \/ moduleRevision[m] < 0 /\ toAgent[m][i].revision = 0
      /\ \A i, j \in 1 .. Len(toAgent[m]) :
            i < j => toAgent[m][i].revision <= toAgent[m][j].revision
  <2>1. \A i \in 1 .. Len(toAgent[m]) : toAgent[m][i] \in Message
    BY <1>3
  <2>2. \A i \in 1 .. Len(toAgent[m]) : toAgent[m][i].revision \in Int
    BY <2>1 DEF Message
  <2> QED BY <2>2 DEF RevisionsAscend, TypeOK
<1> HIDE DEF last
<1>6. ASSUME NEW i \in 1 .. Len(toAgent'[m])
      PROVE  (i \in 1 .. Len(toAgent[m]) /\ i < last) \/ i = last
  BY <1>4 DEF last
<1>7. /\ moduleRevision[m] <= msg.revision
      /\ \A i \in 1 .. Len(toAgent[m]) : toAgent[m][i].revision <= msg.revision
  BY <1>1, <1>2, <1>5
<1>8. ASSUME NEW i \in 1 .. Len(toAgent'[m])
      PROVE  /\ moduleRevision[m] <= toAgent'[m][i].revision
             /\ toAgent'[m][i].revision <= controlRevision'[m]
             /\ toAgent'[m][i].state = "snapshot" =>
                   /\ i = 1
                   /\ \/ toAgent'[m][i].revision = moduleRevision[m]
                      \/ moduleRevision[m] < 0 /\ toAgent'[m][i].revision = 0
  <2>1. CASE i = last BY <1>1, <1>2, <1>4, <1>7, <2>1
  <2>2. CASE i # last
    <3>1. i \in 1 .. Len(toAgent[m]) /\ toAgent'[m][i] = toAgent[m][i]
      BY <1>4, <1>6, <2>2
    <3> QED BY <1>2, <1>5, <1>7, <3>1
  <2> QED BY <2>1, <2>2
<1>9. ASSUME NEW i \in 1 .. Len(toAgent'[m]), NEW j \in 1 .. Len(toAgent'[m]), i < j
      PROVE  toAgent'[m][i].revision <= toAgent'[m][j].revision
  <2>1. i \in 1 .. Len(toAgent[m]) /\ toAgent'[m][i] = toAgent[m][i]
    BY <1>4, <1>6, <1>9 DEF last
  <2>2. CASE j = last BY <1>4, <1>7, <2>1, <2>2
  <2>3. CASE j # last
    <3>1. j \in 1 .. Len(toAgent[m]) /\ toAgent'[m][j] = toAgent[m][j]
      BY <1>4, <1>6, <2>3
    <3> QED BY <1>5, <1>9, <2>1, <3>1
  <2> QED BY <2>2, <2>3
<1>10. moduleRevision[m] <= controlRevision'[m] BY <1>2, <1>7
<1>11. ASSUME NEW n \in Modules \ {m}
       PROVE  controlRevision'[n] = controlRevision[n] /\ toAgent'[n] = toAgent[n]
  BY <1>2
<1> QED BY <1>8, <1>9, <1>10, <1>11 DEF RevisionsAscend

\* A head that is taken carries the oldest revision under way.
LEMMA ReceiveAscends ==
    ASSUME TypeOK, RevisionsAscend, NEW m \in Modules, NEW msg,
           msg = Head(toAgent[m]), Receive(m, msg), Dequeue(m)
    PROVE  /\ RevisionsAscend'
           /\ moduleRevision'[m] = msg.revision
           /\ moduleRevision[m] <= msg.revision /\ msg.revision \in Int
           /\ \A n \in Modules \ {m} : moduleRevision'[n] = moduleRevision[n]
<1>1. /\ toAgent[m] # <<>>
      /\ moduleRevision' = [moduleRevision EXCEPT ![m] = msg.revision]
      /\ UNCHANGED controlRevision
  BY DEF Receive, Dequeue, serial
<1>2. /\ moduleRevision'[m] = msg.revision
      /\ \A n \in Modules \ {m} : moduleRevision'[n] = moduleRevision[n]
  BY <1>1 DEF TypeOK
<1>3. /\ \A n \in Modules \ {m} : toAgent'[n] = toAgent[n]
      /\ Len(toAgent[m]) \in Nat \ {0}
      /\ msg = toAgent[m][1]
      /\ \A i \in 1 .. Len(toAgent'[m]) :
            /\ i + 1 \in 1 .. Len(toAgent[m])
            /\ toAgent'[m][i] = toAgent[m][i + 1]
  BY <1>1, Remaining
<1>4. 1 \in 1 .. Len(toAgent[m]) BY <1>3
<1>5. msg.revision \in Int BY <1>1, HeadType DEF Message
<1>6. /\ moduleRevision[m] <= msg.revision /\ msg.revision <= controlRevision[m]
      /\ \A i, j \in 1 .. Len(toAgent[m]) :
            i < j => toAgent[m][i].revision <= toAgent[m][j].revision
      /\ \A i \in 1 .. Len(toAgent[m]) :
            /\ toAgent[m][i].revision <= controlRevision[m]
            /\ toAgent[m][i].state = "snapshot" => i = 1
  BY <1>3, <1>4 DEF RevisionsAscend
<1>7. ASSUME NEW i \in 1 .. Len(toAgent'[m])
      PROVE  /\ msg.revision <= toAgent'[m][i].revision
             /\ toAgent'[m][i].revision <= controlRevision[m]
             /\ toAgent'[m][i].state # "snapshot"
  <2>1. i \in Nat \ {0} /\ 1 < i + 1 /\ i + 1 # 1 OBVIOUS
  <2> QED BY <1>3, <1>4, <1>6, <2>1
<1>8. ASSUME NEW i \in 1 .. Len(toAgent'[m]), NEW j \in 1 .. Len(toAgent'[m]), i < j
      PROVE  toAgent'[m][i].revision <= toAgent'[m][j].revision
  <2>1. i + 1 < j + 1 BY <1>8
  <2>2. i + 1 \in 1 .. Len(toAgent[m]) /\ j + 1 \in 1 .. Len(toAgent[m]) BY <1>3
  <2>3. toAgent[m][i + 1].revision <= toAgent[m][j + 1].revision
    BY <1>6, <2>1, <2>2
  <2> QED BY <1>3, <2>3
<1>9. RevisionsAscend'
  <2>1. \A n \in Modules \ {m} :
           /\ moduleRevision'[n] = moduleRevision[n] /\ toAgent'[n] = toAgent[n]
           /\ controlRevision'[n] = controlRevision[n]
    BY <1>1, <1>2, <1>3
  <2> QED BY <1>1, <1>2, <1>6, <1>7, <1>8, <2>1 DEF RevisionsAscend
<1> QED BY <1>2, <1>5, <1>6, <1>9

\* A snapshot brings the revision that was read from the ledger.
LEMMA SnapshotRevises ==
    ASSUME HubAssumption, IInv, Revised, NEW m \in Modules, TakeSnapshot(m)
    PROVE  Revised'
<1> DEFINE msg == Head(toAgent[m])
<1>1. TypeOK /\ RevisionsAscend BY DEF IInv, Revised
<1>2. /\ Receive(m, msg) /\ Dequeue(m) /\ msg.state = "snapshot"
      /\ UNCHANGED <<row, journalHealthy>> /\ toAgent[m] # <<>>
  BY DEF TakeSnapshot, Receive
<1>3. /\ RevisionsAscend'
      /\ moduleRevision'[m] = msg.revision
      /\ moduleRevision[m] <= msg.revision /\ msg.revision \in Int
      /\ \A n \in Modules \ {m} : moduleRevision'[n] = moduleRevision[n]
  BY <1>1, <1>2, ReceiveAscends
<1>4. Len(toAgent[m]) \in Nat \ {0} /\ msg = toAgent[m][1]
  BY <1>1, <1>2, Remaining
<1>5. 1 \in 1 .. Len(toAgent[m]) BY <1>4
<1>6. msg.revision = moduleRevision[m] \/ msg.revision = 0
  BY <1>1, <1>2, <1>4, <1>5 DEF RevisionsAscend
<1>7. ASSUME NEW c \in Commands
      PROVE  row[c].revision \in Int /\ moduleRevision[ModuleOf[c]] \in Int
  BY <1>1 DEF TypeOK, Row, HubAssumption
<1>8. up' = up BY <1>2 DEF Dequeue
<1>9. RevisionIsDurable'
  <2>1. SUFFICES ASSUME up, journalHealthy, NEW n \in Modules
                 PROVE  /\ \A c \in Commands :
                              ModuleOf[c] = n => row[c].revision <= moduleRevision'[n]
                        /\ moduleRevision'[n] > 0 =>
                              \E c \in Commands :
                                 ModuleOf[c] = n /\ row[c].revision = moduleRevision'[n]
    BY <1>2, <1>8 DEF RevisionIsDurable
  <2>2. /\ \A c \in Commands : ModuleOf[c] = n => row[c].revision <= moduleRevision[n]
        /\ moduleRevision[n] > 0 =>
              \E c \in Commands : ModuleOf[c] = n /\ row[c].revision = moduleRevision[n]
    BY <2>1 DEF Revised, RevisionIsDurable
  <2>3. CASE n # m BY <1>3, <2>2, <2>3
  <2>4. CASE n = m
    <3>1. \A c \in Commands : ModuleOf[c] = m => row[c].revision <= msg.revision
      BY <1>3, <1>7, <2>2, <2>4
    <3> QED BY <1>3, <1>6, <2>2, <2>4, <3>1
  <2> QED BY <2>3, <2>4
<1> QED BY <1>3, <1>9 DEF Revised

\* A result is in the ledger before its revision is the Agent's.
LEMMA ResultRevises ==
    ASSUME HubAssumption, IInv, Revised, NEW m \in Modules, NEW msg \in Sent(m),
           NEW wrote \in BOOLEAN, NEW cleared \in BOOLEAN,
           msg = Head(toAgent[m]), TakeResult(m, msg, wrote, cleared)
    PROVE  Revised'
<1>1. TypeOK /\ RevisionsAscend BY DEF IInv, Revised
<1>2. Handles(m, msg, wrote, cleared) BY ResultRows
<1>3. Receive(m, msg) /\ Dequeue(m) BY <1>2 DEF TakeResult, Handles
<1>4. /\ RevisionsAscend'
      /\ moduleRevision'[m] = msg.revision
      /\ moduleRevision[m] <= msg.revision /\ msg.revision \in Int
      /\ \A n \in Modules \ {m} : moduleRevision'[n] = moduleRevision[n]
  BY <1>1, <1>3, ReceiveAscends
<1>5. RevisionIsDurable'
  <2>1. SUFFICES ASSUME up', journalHealthy', NEW n \in Modules
                 PROVE  /\ \A c \in Commands :
                              ModuleOf[c] = n => row'[c].revision <= moduleRevision'[n]
                        /\ moduleRevision'[n] > 0 =>
                              \E c \in Commands :
                                 ModuleOf[c] = n /\ row'[c].revision = moduleRevision'[n]
    BY DEF RevisionIsDurable
  <2>2. /\ up /\ journalHealthy /\ msg.cmd \in Commands /\ ModuleOf[msg.cmd] = m
        /\ row'[msg.cmd].revision = msg.revision
        /\ \A c \in Commands \ {msg.cmd} : row'[c].revision = row[c].revision
    BY <1>2, <2>1 DEF Handles, WritesRow, KeepsRow
  <2>3. /\ \A c \in Commands : ModuleOf[c] = n => row[c].revision <= moduleRevision[n]
        /\ moduleRevision[n] > 0 =>
              \E c \in Commands : ModuleOf[c] = n /\ row[c].revision = moduleRevision[n]
    BY <2>2 DEF Revised, RevisionIsDurable
  <2>4. CASE n # m
    <3>1. \A c \in Commands : ModuleOf[c] = n => row'[c].revision = row[c].revision
      BY <2>2, <2>4
    <3> QED BY <1>4, <2>3, <2>4, <3>1
  <2>5. CASE n = m
    <3>1. ASSUME NEW c \in Commands, ModuleOf[c] = m, c # msg.cmd
          PROVE  row'[c].revision <= msg.revision
      <4>1. row[c].revision \in Int /\ moduleRevision[m] \in Int
        BY <1>1 DEF TypeOK, Row
      <4>2. row[c].revision <= moduleRevision[m] BY <2>3, <2>5, <3>1
      <4> QED BY <1>4, <2>2, <3>1, <4>1, <4>2
    <3>2. \A c \in Commands : ModuleOf[c] = m => row'[c].revision <= msg.revision
      BY <1>4, <2>2, <3>1
    <3> QED BY <1>4, <2>2, <2>5, <3>2
  <2> QED BY <2>4, <2>5
<1> QED BY <1>4, <1>5 DEF Revised

\* A new row carries the revision the Agent has.
LEMMA SubmitRevises ==
    ASSUME HubAssumption, IInv, Revised, NEW c \in Commands, Submit(c)
    PROVE  Revised'
<1> DEFINE m == ModuleOf[c]
<1>1. PICK expected \in Int : Accept(c, expected) \/ RefuseStale(c, expected)
  BY DEF Submit
<1>2. /\ UNCHANGED <<agentVars, toAgent, controlRevision>>
      /\ \/ row' = [row EXCEPT ![c] = Reserved("accepted", moduleRevision[m])]
         \/ row' = [row EXCEPT ![c] = Reserved("failed", moduleRevision[m])]
  BY <1>1 DEF Accept, RefuseStale, serial
<1>3. /\ row'[c].revision = moduleRevision[m]
      /\ \A d \in Commands \ {c} : row'[d] = row[d]
  BY <1>2 DEF IInv, TypeOK, Reserved
<1>4. UNCHANGED <<up, journalHealthy, moduleRevision>> BY <1>2 DEF agentVars
<1>5. RevisionsAscend' BY <1>2, <1>4 DEF Revised, RevisionsAscend
<1>6. moduleRevision[m] <= moduleRevision[m]
  BY DEF IInv, TypeOK, HubAssumption
<1>7. RevisionIsDurable'
  <2>1. SUFFICES ASSUME up, journalHealthy, NEW n \in Modules
                 PROVE  /\ \A d \in Commands :
                              ModuleOf[d] = n => row'[d].revision <= moduleRevision[n]
                        /\ moduleRevision[n] > 0 =>
                              \E d \in Commands :
                                 ModuleOf[d] = n /\ row'[d].revision = moduleRevision[n]
    BY <1>4 DEF RevisionIsDurable
  <2>2. /\ \A d \in Commands : ModuleOf[d] = n => row[d].revision <= moduleRevision[n]
        /\ moduleRevision[n] > 0 =>
              \E d \in Commands : ModuleOf[d] = n /\ row[d].revision = moduleRevision[n]
    BY <2>1 DEF Revised, RevisionIsDurable
  <2>3. CASE n = m BY <1>3, <1>6, <2>2, <2>3
  <2>4. CASE n # m BY <1>3, <2>2, <2>4
  <2> QED BY <2>3, <2>4
<1> QED BY <1>5, <1>7 DEF Revised

\* A start takes the largest revision there is from the ledger.
LEMMA StartRevises ==
    ASSUME HubAssumption, IInv, TypeOK', Start
    PROVE  Revised'
<1>1. /\ row' = [c \in Commands |-> Recovered(c)]
      /\ \A m \in Modules : JournalRevision(m, moduleRevision'[m])
      /\ controlRevision' = [m \in Modules |->
           IF moduleRevision'[m] < 0 THEN 0 ELSE moduleRevision'[m]]
      /\ \A m \in Modules :
            toAgent'[m] = <<[cmd |-> None, state |-> "snapshot",
                             revision |-> controlRevision'[m]]>>
  BY DEF Start
<1>2. \A c \in Commands : row'[c].revision = row[c].revision
  BY <1>1 DEF Recovered
<1>3. ASSUME NEW m \in Modules
      PROVE  /\ moduleRevision'[m] \in Int /\ controlRevision'[m] \in Int
             /\ moduleRevision'[m] <= controlRevision'[m]
             /\ \/ controlRevision'[m] = moduleRevision'[m]
                \/ moduleRevision'[m] < 0 /\ controlRevision'[m] = 0
  <2>1. moduleRevision'[m] \in Int BY DEF TypeOK
  <2>2. controlRevision'[m] = IF moduleRevision'[m] < 0 THEN 0 ELSE moduleRevision'[m]
    BY <1>1
  <2> QED BY <2>1, <2>2
<1>4. ASSUME NEW m \in Modules
      PROVE  Len(toAgent'[m]) = 1 /\ toAgent'[m][1].revision = controlRevision'[m]
  <2> DEFINE first == [cmd |-> None, state |-> "snapshot",
                       revision |-> controlRevision'[m]]
  <2>1. toAgent'[m] = <<first>> /\ first.revision = controlRevision'[m] BY <1>1
  <2> HIDE DEF first
  <2>2. Len(toAgent'[m]) = 1 /\ toAgent'[m][1] = first BY <2>1
  <2> QED BY <2>1, <2>2
<1>5. ASSUME NEW m \in Modules, NEW i \in 1 .. Len(toAgent'[m])
      PROVE  i = 1
  <2>1. Len(toAgent'[m]) = 1 BY <1>4
  <2>2. i \in 1 .. 1 BY <2>1
  <2> QED BY <2>2
<1>6. RevisionsAscend'
  <2>1. ASSUME NEW m \in Modules, NEW i \in 1 .. Len(toAgent'[m])
        PROVE  toAgent'[m][i].revision = controlRevision'[m]
    BY <1>4, <1>5
  <2>2. ASSUME NEW m \in Modules, NEW i \in 1 .. Len(toAgent'[m]),
               NEW j \in 1 .. Len(toAgent'[m])
        PROVE  ~(i < j)
    <3>1. i = 1 /\ j = 1 BY <1>5
    <3> QED BY <3>1
  <2>3. \A m \in Modules : controlRevision'[m] <= controlRevision'[m] BY <1>3
  <2> QED BY <1>3, <1>5, <2>1, <2>2, <2>3 DEF RevisionsAscend
<1>7. RevisionIsDurable'
  BY <1>1, <1>2 DEF RevisionIsDurable, JournalRevision
<1> QED BY <1>6, <1>7 DEF Revised

\* The revisions go on to agree.
LEMMA StepRevises ==
    ASSUME HubAssumption, IInv, Revised, [Next]_vars
    PROVE  Revised'
<1>1. TypeOK /\ TypeOK' BY StepType DEF IInv
<1>2. CASE Start BY <1>1, <1>2, StartRevises
<1>3. ASSUME NEW ledger, Lose(ledger) PROVE Revised'
  <2>1. /\ up' = FALSE
        /\ moduleRevision' = [m \in Modules |-> -1]
        /\ controlRevision' = [m \in Modules |-> 0]
        /\ toAgent' = [m \in Modules |-> <<>>]
    BY <1>3 DEF Lose
  <2>2. \A m \in Modules : /\ Len(toAgent'[m]) = 0
                           /\ moduleRevision'[m] <= controlRevision'[m]
    BY <2>1
  <2> QED BY <2>1, <2>2 DEF Revised, RevisionsAscend, RevisionIsDurable
<1>4. CASE Crash BY <1>3, <1>4 DEF Crash
<1>5. CASE JournalFails \/ AuditReadyChanged \/ UNCHANGED vars
  <2>1. UNCHANGED <<row, up, moduleRevision, toAgent, controlRevision>>
        /\ (journalHealthy' => journalHealthy)
    BY <1>5 DEF JournalFails, AuditReadyChanged, vars, durable, agentVars, serial
  <2> QED BY <2>1 DEF Revised, RevisionsAscend, RevisionIsDurable
<1>6. ASSUME NEW c \in Commands, Submit(c) PROVE Revised'
  BY <1>6, SubmitRevises
<1>7. CASE \/ \E m \in Modules : WorkerStep(m)
           \/ \E c \in Commands : CommandEvent(c)
  <2>1. WorksApart BY <1>1, <1>7, WorkersWorkApart
  <2>2. UNCHANGED <<row, up, journalHealthy, moduleRevision>>
    BY <2>1 DEF WorksApart, agentVars
  <2>3. RevisionIsDurable' BY <2>2 DEF Revised, RevisionIsDurable
  <2>4. CASE UNCHANGED <<toAgent, controlRevision>>
    BY <2>2, <2>3, <2>4 DEF Revised, RevisionsAscend
  <2>5. CASE Publishes
    BY <1>1, <2>2, <2>3, <2>5, PublishAscends DEF Revised
  <2> QED BY <2>1, <2>4, <2>5 DEF WorksApart
<1>8. ASSUME NEW m \in Modules, AgentStep(m) PROVE Revised'
  <2>1. ASSUME NEW wrote \in BOOLEAN, NEW cleared \in BOOLEAN, toAgent[m] # <<>>,
               TakeResult(m, Head(toAgent[m]), wrote, cleared)
        PROVE  Revised'
    <3>1. Head(toAgent[m]) \in Sent(m)
      BY <1>1, <2>1, DequeueTakes DEF TakeResult
    <3> QED BY <2>1, <3>1, ResultRevises
  <2> QED BY <1>8, <2>1, SnapshotRevises DEF AgentStep
<1>9. ASSUME NEW m \in Modules, CrashInAck(m) PROVE Revised'
  BY <1>3, <1>9 DEF CrashInAck
<1> QED BY <1>2, <1>4, <1>5, <1>6, <1>7, <1>8, <1>9 DEF Next

-----------------------------------------------------------------------------
(* What follows for every behaviour.                                       *)

\* Nothing is known, and nothing is under way, before the first start.
LEMMA InitAgrees ==
    ASSUME HubAssumption, Init
    PROVE  Reports /\ InterlockMatchesLedger /\ Revised
<1>1. /\ \A c \in Commands : row[c] = NoRow
      /\ up = FALSE /\ unknown = {}
      /\ \A m \in Modules : /\ toAgent[m] = <<>> /\ moduleRevision[m] = -1
                            /\ controlRevision[m] = 0
  BY DEF Init
<1>2. \A m \in Modules : /\ Len(toAgent[m]) = 0 /\ Sent(m) = {}
                         /\ moduleRevision[m] <= controlRevision[m]
  BY <1>1 DEF Sent
<1>3. RowsMakeSense
  <2>1. ~NoRow.unresolved /\ ~NoRow.resolved BY DEF NoRow
  <2>2. \A c \in Commands : row[c] = NoRow BY <1>1
  <2> QED BY <2>1, <2>2 DEF RowsMakeSense
<1>4. UnknownHaveBegun /\ UnknownIsNoted
  BY <1>1 DEF UnknownHaveBegun, UnknownIsNoted
<1>5. ResultsMakeSense BY <1>2 DEF ResultsMakeSense
<1>6. RunningComesFirst /\ RunningIsFollowed /\ GrantsPrecedeUnknown
  BY <1>2 DEF RunningComesFirst, RunningIsFollowed, GrantsPrecedeUnknown
<1>7. OpenRowsAreSomewhere /\ InterlockMatchesLedger
  BY <1>1 DEF OpenRowsAreSomewhere, InterlockMatchesLedger
<1>8. Revised
  BY <1>1, <1>2 DEF Revised, RevisionsAscend, RevisionIsDurable
<1> QED BY <1>3, <1>4, <1>5, <1>6, <1>7, <1>8 DEF Reports

\* The strengthened invariant is invariant.
THEOREM AgreementHolds == Spec => []LInv
<1>1. Init => LInv BY HubAssumption, InitKeeps, InitAgrees DEF LInv
<1>2. LInv /\ [Next]_vars => LInv'
  BY HubAssumption, StepKeeps, StepReports, StepLocks, StepRevises DEF LInv
<1> QED BY <1>1, <1>2, PTL DEF Spec

\* The interlock the Agent keeps is the one the ledger would restore.
THEOREM LocksAgree == Spec => []InterlockMatchesLedger
<1>1. LInv => InterlockMatchesLedger BY DEF LInv
<1> QED BY <1>1, AgreementHolds, PTL

\* The Agent compares commands with the newest revision in the ledger, so a
\* restart cannot hand one out twice.
THEOREM RevisionsAreDurable == Spec => []RevisionIsDurable
<1>1. LInv => RevisionIsDurable BY DEF LInv, Revised
<1> QED BY <1>1, AgreementHolds, PTL

\* What a worker does not know is in the ledger, or in a result before the Agent.
LEMMA UnknownIsCovered ==
    ASSUME HubAssumption, LInv
    PROVE  InterlockCoversUnknown
<1> SUFFICES ASSUME up, journalHealthy, NEW c \in unknown
             PROVE  \/ ModuleOf[c] \in locked
                    \/ \E i \in ResultsOf(c) :
                          toAgent[ModuleOf[c]][i].state = "timed_out"
  BY DEF InterlockCoversUnknown
<1>1. c \in Commands /\ ModuleOf[c] \in Modules
  BY DEF LInv, IInv, TypeOK, HubAssumption
<1>2. CASE row[c].unresolved /\ ~row[c].resolved
  <2>1. c \in UnresolvedIn(row, ModuleOf[c]) BY <1>1, <1>2 DEF UnresolvedIn
  <2> QED BY <1>1, <2>1 DEF LInv, InterlockMatchesLedger
<1>3. CASE \E msg \in Sent(ModuleOf[c]) : TimedOut(msg, c)
  BY <1>3 DEF Sent, TimedOut, ResultsOf
<1> QED BY <1>2, <1>3 DEF LInv, Reports, UnknownIsNoted

\* What a worker does not know is under the interlock of its module, or will be
\* by a result that is on its way to the Agent.
THEOREM LocksCoverUnknown == Spec => []InterlockCoversUnknown
<1>1. LInv => InterlockCoversUnknown BY HubAssumption, UnknownIsCovered
<1> QED BY <1>1, AgreementHolds, PTL

\* An open row has a request, work or a result.
LEMMA OpenIsTracked ==
    ASSUME HubAssumption, LInv
    PROVE  OpenRowsAreTracked
<1> SUFFICES ASSUME up, journalHealthy, NEW c \in Commands, row[c].state \in Open
             PROVE  \/ \E i \in 1 .. Len(toWorker[ModuleOf[c]]) :
                          toWorker[ModuleOf[c]][i].cmd = c
                    \/ c \in executing \union pending
                    \/ ResultsOf(c) # {}
  BY DEF OpenRowsAreTracked
<1>1. CASE c \in Asked(ModuleOf[c]) BY <1>1 DEF Asked
<1>2. CASE c \in Reported(ModuleOf[c])
  <2>1. PICK i \in 1 .. Len(toAgent[ModuleOf[c]]) : toAgent[ModuleOf[c]][i].cmd = c
    BY <1>2 DEF Reported, Sent
  <2> QED BY <2>1 DEF ResultsOf
<1> QED BY <1>1, <1>2 DEF LInv, Reports, OpenRowsAreSomewhere

\* A row that is open in the ledger has something that will settle it: its request
\* is queued, the worker is at it, or its result is on the way.
THEOREM OpenRowsHaveWork == Spec => []OpenRowsAreTracked
<1>1. LInv => OpenRowsAreTracked BY HubAssumption, OpenIsTracked
<1> QED BY <1>1, AgreementHolds, PTL

\* An unknown row is left only by a certain result, or resolved.
UnknownStays(c) ==
    row[c].unresolved /\ ~row[c].resolved =>
        row'[c].unresolved \/ row'[c].resolved \/ row'[c].state \in Certain

\* No step forgets an unknown outcome.
LEMMA StepRemembers ==
    ASSUME HubAssumption, LInv, [Next]_vars, NEW c \in Commands
    PROVE  UnknownStays(c)
<1>1. IInv /\ Reports /\ TypeOK BY DEF LInv, IInv
<1> SUFFICES ASSUME row[c].unresolved, ~row[c].resolved
             PROVE  row'[c].unresolved \/ row'[c].resolved \/ row'[c].state \in Certain
  BY DEF UnknownStays
<1>2. Mutation(c) /\ row[c].state = "timed_out"
  BY <1>1 DEF Reports, RowsMakeSense
<1>3. CASE Start
  BY <1>2, <1>3 DEF Start, Recovered, Certain
<1>4. CASE Crash BY <1>4 DEF Crash, Lose
<1>5. ASSUME NEW m \in Modules, CrashInAck(m)
      PROVE  row'[c].unresolved \/ row'[c].state \in Certain
  <2> DEFINE msg == Head(toAgent[m])
  <2>1. msg.state = "succeeded" /\ row' = [row EXCEPT ![msg.cmd] = Updated(@, msg)]
    BY <1>5 DEF CrashInAck, Lose, Written
  <2>2. row'[c] = row[c] \/ row'[c].state = "succeeded"
    BY <1>1, <2>1 DEF TypeOK, Updated
  <2> QED BY <2>2 DEF Certain
<1>6. CASE JournalFails \/ AuditReadyChanged \/ UNCHANGED vars
  BY <1>6 DEF JournalFails, AuditReadyChanged, vars, durable
<1>7. ASSUME NEW d \in Commands, Submit(d) PROVE row'[c] = row[c]
  <2>1. PICK expected \in Int : Accept(d, expected) \/ RefuseStale(d, expected)
    BY <1>7 DEF Submit
  <2>2. d # c BY <1>2, <2>1 DEF Accept, RefuseStale, Admissible
  <2> QED BY <1>1, <2>1, <2>2 DEF Accept, RefuseStale, TypeOK
<1>8. CASE \/ \E m \in Modules : WorkerStep(m)
           \/ \E d \in Commands : CommandEvent(d)
  BY <1>1, <1>8, WorkersWorkApart DEF WorksApart
<1>9. ASSUME NEW m \in Modules, AgentStep(m)
      PROVE  row'[c].unresolved \/ row'[c].resolved \/ row'[c].state \in Certain
  <2>1. CASE TakeSnapshot(m) BY <2>1 DEF TakeSnapshot
  <2>2. ASSUME NEW wrote \in BOOLEAN, NEW cleared \in BOOLEAN, toAgent[m] # <<>>,
               TakeResult(m, Head(toAgent[m]), wrote, cleared)
        PROVE  row'[c].unresolved \/ row'[c].state \in Certain
    <3> DEFINE msg == Head(toAgent[m])
    <3>1. msg \in Sent(m) BY <1>1, <2>2, DequeueTakes DEF TakeResult
    <3>2. Handles(m, msg, wrote, cleared) BY <1>1, <2>2, <3>1, ResultRows
    <3>3. Sensible(msg) BY <1>1, <3>1 DEF Reports, ResultsMakeSense
    <3> HIDE DEF msg
    <3>4. CASE c # msg.cmd \/ ~wrote BY <3>2, <3>4 DEF Handles, KeepsRow
    <3>5. CASE c = msg.cmd /\ wrote
      <4>1. WritesRow(msg) /\ msg \in Message /\ msg.state # "snapshot"
        BY <3>2, <3>5 DEF Handles
      <4>2. msg.state # "running" /\ msg.state # "accepted"
        BY <3>3, <3>5 DEF Sensible, RowIsNew
      <4>3. msg.state = "timed_out" \/ msg.state \in Certain
        BY <4>1, <4>2 DEF Message, Open, Terminal
      <4> QED BY <1>2, <3>5, <4>1, <4>3 DEF WritesRow, Uncertain
    <3> QED BY <3>4, <3>5
  <2> QED BY <1>9, <2>1, <2>2 DEF AgentStep
<1> QED BY <1>3, <1>4, <1>5, <1>6, <1>7, <1>8, <1>9 DEF Next

\* An unknown outcome stays unknown in the ledger until a certain result or an
\* acknowledgement arrives, across every crash and restart.
THEOREM UnknownIsKept == Spec => UnknownUntilSettled
<1>1. LInv /\ [Next]_vars => [\A c \in Commands : UnknownStays(c)]_vars
  BY HubAssumption, StepRemembers
<1>2. [\A c \in Commands : UnknownStays(c)]_vars <=>
      [\A c \in Commands :
          row[c].unresolved /\ ~row[c].resolved =>
              \/ row'[c].unresolved
              \/ row'[c].resolved
              \/ row'[c].state \in Certain]_vars
  BY DEF UnknownStays
<1> QED BY <1>1, <1>2, AgreementHolds, PTL DEF Spec, UnknownUntilSettled
=============================================================================
