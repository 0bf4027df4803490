----------------------- MODULE LaunchdCommandsProofs -----------------------
(***************************************************************************)
(* Proofs about LaunchdCommands: for any units, any number of commands and *)
(* probes, and whatever launchd and people do meanwhile, no call acts      *)
(* beside a later command, a command that failed for certain has changed   *)
(* nothing, a success was judged on what was there after the last call and *)
(* lasts, and no call hits a job of somebody else.                         *)
(*                                                                         *)
(* Only the last of these expands Plan: which calls a command makes does   *)
(* not matter to the others, but when they run and who waits for them.     *)
(***************************************************************************)
EXTENDS LaunchdCommands, FiniteSetTheorems, TLAPS

\* A call is known by what it does, by its signal and by how it stands.
Typed ==
    /\ TypeOK
    /\ child = [step |-> child.step, signalled |-> child.signalled, life |-> child.life]
    /\ child.signalled \in BOOLEAN

\* Nothing is retiring while a command goes on or the worker would let one through.
Alone == ~gap /\ (phase # "idle" \/ ~blocked) => retiring = {}

\* A call runs in its phase only, and its signal has been noted.
Attended ==
    /\ child.signalled => attempted
    /\ phase # "stepping" => child = NoChild
    /\ phase = "preflight" => ~attempted

\* There is a verdict only when nothing goes on, and success lets the next one through.
Judged ==
    /\ phase # "idle" => verdict.state = "none"
    /\ verdict.state = "succeeded" => ~blocked

\* What a call has changed is noted as an attempt, or about to be.
Noted ==
    ~gap /\ phase # "idle" /\ touched =>
        attempted \/ (child.life \in {"ok", "bad"} /\ ~child.signalled)

Looking == probe = "own" => phase \in {"preflight", "verifying"}

\* What a command has seen is so still, if nobody has meddled with it.
Known ==
    ~gap /\ probe = "own" =>
        \A u \in Units \ meddled :
            seen[u].auth => seen[u].loaded = job[u].loaded /\ seen[u].ours = job[u].ours

\* A process that a verification has found to be new is not an old one.
Renewed ==
    phase = "verifying" /\ probe = "own" =>
        \A u \in Units : seen[u].run = "new" => job[u].run # "old"

\* What a verification has seen it has seen after the last call.
Recent ==
    phase = "verifying" /\ probe = "own" =>
        \A u \in Units : seen[u].auth => seen[u].fresh

IInv ==
    /\ Typed /\ Alone /\ Attended /\ Judged /\ Noted /\ Looking /\ Known /\ Renewed /\ Recent
    /\ CertainFailureChangedNothing /\ SuccessLasts /\ RestartReplaces

-----------------------------------------------------------------------------
(* Whose jobs the calls of a command are aimed at.                         *)

\* No call can hit a job of somebody else at u, but for one put there since the look.
Own(u) == u \in meddled \/ ~job[u].loaded \/ job[u].ours

Calls ==
    [op : {"bootout", "bootstrap", "enable", "kickstart", "kickstart -k"}, unit : Selected,
     tolerate : BOOLEAN]

\* What a command calls, or is to call yet, is for units that it has selected.
Directed == steps \in Seq(Calls) /\ (child.life = "alive" => child.step \in Calls)

\* From the preflight to the last call, these are ours or nobody's.
Vetted == ~gap /\ phase \in {"stepping", "delay"} => \A u \in Selected : Own(u)

\* So are the units of the calls that nobody waits for.
Harmless == ~gap => \A s \in retiring : s.unit \in Units /\ Own(s.unit)

Aimed == Directed /\ Vetted /\ Harmless /\ OnlyOwnJobs

-----------------------------------------------------------------------------
(* The units that a command is for, in order.                              *)

LEMMA SeqOf ==
    ASSUME NEW S, NEW n \in Nat, NEW f \in [1 .. n -> S] PROVE f \in Seq(S)
OBVIOUS

LEMMA SeqIn ==
    ASSUME NEW S, NEW T, S \subseteq T, NEW f \in Seq(S) PROVE f \in Seq(T)
<1>1. Len(f) \in Nat /\ f \in [1 .. Len(f) -> T]
  OBVIOUS
<1> QED BY <1>1, SeqOf

\* Each of the first positions is that of one element of a set of numbers.
LEMMA RankHits ==
    ASSUME NEW n \in Nat, NEW at \in SUBSET (1 .. n), NEW k \in 1 .. Cardinality(at)
    PROVE  \E i \in at : Cardinality({j \in at : j <= i}) = k
<1> DEFINE below(i) == {j \in at : j <= i}
           rank == [i \in at |-> Cardinality(below(i))]
<1>1. IsFiniteSet(at) /\ Cardinality(at) \in Nat
  <2>1. IsFiniteSet(1 .. n) BY FS_Interval
  <2>2. IsFiniteSet(at) BY <2>1, FS_Subset
  <2> QED BY <2>2, FS_CardinalityType
<1>2. ASSUME NEW i \in at
      PROVE  IsFiniteSet(below(i)) /\ Cardinality(below(i)) \in 1 .. Cardinality(at)
  <2>1. below(i) \in SUBSET at /\ i \in below(i) BY <1>2
  <2>2. /\ IsFiniteSet(below(i)) /\ Cardinality(below(i)) <= Cardinality(at)
    BY <1>1, <2>1, FS_Subset
  <2>3. Cardinality(below(i)) \in Nat BY <2>2, FS_CardinalityType
  <2>4. Cardinality(below(i)) # 0 BY <2>1, <2>2, FS_EmptySet
  <2> QED BY <1>1, <2>2, <2>3, <2>4
<1>3. ASSUME NEW i \in at, NEW j \in at, i < j PROVE Cardinality(below(i)) # Cardinality(below(j))
  <2>1. i \in 1 .. n /\ j \in 1 .. n /\ \A l \in at : l \in 1 .. n
    OBVIOUS
  <2>2. \A l \in at : l <= i => l <= j
    BY <1>3, <2>1
  <2>3. below(i) \in SUBSET below(j)
    BY <2>2
  <2>4. j <= j /\ ~(j <= i)
    BY <1>3, <2>1
  <2>5. j \in below(j) /\ j \notin below(i)
    BY <2>4
  <2> QED BY <1>2, <2>3, <2>5, FS_Subset
<1>4. rank \in [at -> 1 .. Cardinality(at)]
  BY <1>2
<1>5. \A i, j \in at : rank[i] = rank[j] => i = j
  BY <1>3
<1>6. rank \in Injection(at, 1 .. Cardinality(at))
  <2> HIDE DEF rank
  <2> QED BY <1>4, <1>5 DEF Injection, IsInjective
<1>7. IsFiniteSet(1 .. Cardinality(at)) /\ Cardinality(1 .. Cardinality(at)) = Cardinality(at)
  BY <1>1, FS_Interval
<1>8. rank \in Surjection(at, 1 .. Cardinality(at))
  BY <1>6, <1>7, FS_Injection
<1>9. \E i \in at : rank[i] = k
  <2> HIDE DEF rank
  <2> QED BY <1>8 DEF Surjection
<1> QED BY <1>9

LEMMA PickedTyped ==
    ASSUME NEW set PROVE Picked(set) \in Seq(Units \intersect set)
<1> DEFINE at == {i \in DOMAIN Order : Order[i] \in set}
           place(k) == CHOOSE i \in at : Cardinality({j \in at : j <= i}) = k
<1>1. Order \in Seq(Units) BY LaunchdAssumption
<1>2. Len(Order) \in Nat /\ DOMAIN Order = 1 .. Len(Order) /\ at \in SUBSET (1 .. Len(Order))
  BY <1>1
<1>3. Cardinality(at) \in Nat
  <2>1. IsFiniteSet(1 .. Len(Order)) BY <1>2, FS_Interval
  <2>2. IsFiniteSet(at) BY <1>2, <2>1, FS_Subset
  <2> QED BY <2>2, FS_CardinalityType
<1>4. ASSUME NEW k \in 1 .. Cardinality(at) PROVE Order[place(k)] \in Units \intersect set
  <2>1. place(k) \in at BY <1>2, RankHits
  <2> QED BY <1>2, <2>1 DEF Units
<1>5. Picked(set) = [k \in 1 .. Cardinality(at) |-> Order[place(k)]]
  BY DEF Picked
<1> HIDE DEF at, place
<1> QED BY <1>3, <1>4, <1>5, SeqOf

\* What is planned is planned for the units that the command is for.
LEMMA PlanDirected ==
    ASSUME NEW found PROVE Plan(found) \in Seq(Calls)
<1> DEFINE loaded == Picked({u \in Selected : found[u].loaded})
           stops == Backwards(loaded)
<1>1. loaded \in Seq(Selected) /\ SelectedOrder \in Seq(Selected)
  <2>1. Units \intersect {u \in Selected : found[u].loaded} \subseteq Selected
    OBVIOUS
  <2>2. Units \intersect Selected \subseteq Selected
    OBVIOUS
  <2>3. loaded \in Seq(Units \intersect {u \in Selected : found[u].loaded})
    BY PickedTyped
  <2>4. SelectedOrder \in Seq(Units \intersect Selected)
    BY PickedTyped DEF SelectedOrder
  <2> HIDE DEF loaded
  <2> QED BY <2>1, <2>2, <2>3, <2>4, SeqIn
<1>2. Len(loaded) \in Nat /\ DOMAIN loaded = 1 .. Len(loaded)
      /\ \A i \in DOMAIN loaded : loaded[i] \in Selected
  BY <1>1
<1>3. Len(SelectedOrder) \in Nat /\ \A i \in 1 .. Len(SelectedOrder) : SelectedOrder[i] \in Selected
  BY <1>1
<1> HIDE DEF loaded
<1>4. /\ DOMAIN stops = 1 .. Len(loaded) /\ \A i \in DOMAIN stops : stops[i] \in Selected
  BY <1>2 DEF Backwards
<1> HIDE DEF stops
<1>5. CASE cmd.action = "stop_service"
  <2>1. Plan(found) = [i \in 1 .. Len(loaded) |-> Step("bootout", stops[i], TRUE)]
    BY <1>4, <1>5 DEF Plan, loaded, stops
  <2>2. \A i \in 1 .. Len(loaded) : Step("bootout", stops[i], TRUE) \in Calls
    BY <1>4 DEF Step, Calls
  <2> QED BY <1>2, <2>1, <2>2, SeqOf
<1>6. CASE cmd.action = "restart_service"
  <2>1. Plan(found) = [i \in 1 .. Len(loaded) |->
                         Step("kickstart -k", loaded[i], loaded[i] \notin Required)]
    BY <1>2, <1>6 DEF Plan, loaded
  <2>2. \A i \in 1 .. Len(loaded) :
            Step("kickstart -k", loaded[i], loaded[i] \notin Required) \in Calls
    BY <1>2 DEF Step, Calls
  <2> QED BY <1>2, <2>1, <2>2, SeqOf
<1>7. CASE cmd.action \notin {"stop_service", "restart_service"}
  <2> DEFINE op(i) == StartOps[((i - 1) % 3) + 1]
             u(i) == SelectedOrder[((i - 1) \div 3) + 1]
             m == 3 * Len(SelectedOrder)
  <2>1. Plan(found) = [i \in 1 .. m |-> Step(op(i), u(i), op(i) # "kickstart" \/ u(i) \notin Required)]
    BY <1>7 DEF Plan
  <2>2. ASSUME NEW i \in 1 .. m
        PROVE  Step(op(i), u(i), op(i) # "kickstart" \/ u(i) \notin Required) \in Calls
    <3>1. ((i - 1) \div 3) + 1 \in 1 .. Len(SelectedOrder)
      BY <1>3
    <3>2. u(i) \in Selected
      BY <1>3, <3>1
    <3>3. ((i - 1) % 3) + 1 \in 1 .. 3
      BY <1>3
    <3>4. op(i) \in {"bootstrap", "enable", "kickstart"}
      BY <3>3 DEF StartOps
    <3> HIDE DEF op, u
    <3> QED BY <3>2, <3>4 DEF Step, Calls
  <2>3. m \in Nat BY <1>3
  <2> HIDE DEF op, u, m
  <2> QED BY <2>1, <2>2, <2>3, SeqOf
<1> QED BY <1>5, <1>6, <1>7

-----------------------------------------------------------------------------
(* What launchctl prints, and what it does.                                *)

LEMMA NothingSeenTyped ==
    NothingSeen \in [Units -> Observation] /\ \A u \in Units : ~NothingSeen[u].auth
                                                  /\ NothingSeen[u].run = "no"
BY DEF NothingSeen, Unseen, Observation

\* What may be found at a unit of launchd's is an observation, and true of it.
LEMMA ObservationsTyped ==
    ASSUME Typed, NEW u \in Units, NEW o \in Observations(u)
    PROVE  /\ o \in Observation
           /\ o.auth => o.loaded = job[u].loaded /\ o.ours = job[u].ours
           /\ o.auth /\ (phase # "preflight" \/ probe # "own") => o.run = job[u].run
           /\ o.auth /\ phase = "verifying" => o.fresh
           /\ ~o.auth => o.run = "no"
<1> DEFINE run == IF probe = "own" /\ phase = "preflight" /\ job[u].run = "new" THEN "old"
                  ELSE job[u].run
<1>1. /\ job[u].loaded \in BOOLEAN /\ job[u].ours \in BOOLEAN
      /\ job[u].run \in {"no", "old", "new"}
  BY DEF Typed, TypeOK, Phases, Job
<1>2. CASE o = Unseen
  BY <1>2 DEF Unseen, Observation
<1>3. CASE o = [auth |-> TRUE, loaded |-> job[u].loaded, ours |-> job[u].ours, run |-> run,
                fresh |-> phase \in {"verifying", "waiting"}]
  <2>1. run \in {"no", "old", "new"}
    BY <1>1
  <2>2. phase # "preflight" \/ probe # "own" => run = job[u].run
    OBVIOUS
  <2>3. o \in Observation
    <3> HIDE DEF run
    <3> QED BY <1>1, <1>3, <2>1 DEF Observation
  <2> QED BY <1>3, <2>2, <2>3
<1> QED BY <1>2, <1>3 DEF Observations

\* Looking at a unit changes what is known of it, and whose process it is.
LEMMA LooksAt ==
    ASSUME Typed, NEW u \in Units, NEW found \in Findings(u), Looks(u, found)
    PROVE  /\ job' \in [Units -> Job] /\ meddled' \subseteq Units
           /\ found \in [Units -> Observation]
           /\ \A v \in Units : job'[v].loaded = job[v].loaded /\ job'[v].ours = job[v].ours
           /\ phase # "preflight" \/ probe # "own" => \A v \in Units : job'[v].run = job[v].run
           /\ \A v \in Units \ {u} : found[v] = seen[v]
           /\ found[u].auth => found[u].loaded = job[u].loaded /\ found[u].ours = job[u].ours
           /\ phase = "verifying" /\ found[u].auth => found[u].run = job[u].run /\ found[u].fresh
           /\ ~found[u].auth => found[u].run = "no"
           /\ meddled' = IF probe = "own" /\ found[u].auth THEN meddled \ {u} ELSE meddled
<1>1. PICK o \in Observations(u) : found = [seen EXCEPT ![u] = o]
  BY DEF Findings
<1>2. o \in Observation /\ found \in [Units -> Observation] /\ found[u] = o
  BY <1>1, ObservationsTyped DEF Typed, TypeOK, Phases
<1>3. job[u] \in Job /\ job \in [Units -> Job] /\ meddled \subseteq Units
  BY DEF Typed, TypeOK, Phases
<1>4. CASE probe = "own" /\ found[u].auth
  <2>1. job' = [job EXCEPT ![u] = [loaded |-> job[u].loaded, ours |-> job[u].ours,
                                   run |-> found[u].run]]
    BY <1>3, <1>4 DEF Looks, Job
  <2>2. found[u].run \in {"no", "old", "new"}
    BY <1>2 DEF Observation
  <2>3. job' \in [Units -> Job]
    BY <1>3, <2>1, <2>2 DEF Job
  <2> QED BY <1>1, <1>2, <1>3, <1>4, <2>1, <2>3, ObservationsTyped DEF Looks
<1>5. CASE ~(probe = "own" /\ found[u].auth)
  BY <1>1, <1>2, <1>3, <1>5, ObservationsTyped DEF Looks
<1> QED BY <1>4, <1>5

\* A call makes no process an old one.
LEMMA OutcomesTyped ==
    ASSUME Typed, NEW s, s.unit \in Units, NEW result \in Outcomes(s)
    PROVE  /\ result.job \in Job
           /\ result.job.run = "old" => job[s.unit].run = "old"
<1> DEFINE o == job[s.unit]
<1>1. o \in Job BY DEF Typed, TypeOK, Phases
<1>2. Absent \in Job BY DEF Absent, Job
<1>3. CASE result.job = o BY <1>1, <1>3
<1>4. CASE result.job \in Changes(s)
  <2>1. CASE s.op = "bootout" /\ o.loaded
    <3>1. Changes(s) = {Absent}
      BY <2>1 DEF Changes
    <3>2. result.job = Absent
      BY <1>4, <3>1
    <3> QED BY <1>2, <3>2 DEF Absent
  <2>2. CASE s.op = "bootstrap" /\ ~o.loaded
    <3>1. Changes(s) = {[loaded |-> TRUE, ours |-> TRUE, run |-> r] : r \in {"no", "new"}}
      BY <2>2 DEF Changes
    <3>2. PICK r \in {"no", "new"} : result.job = [loaded |-> TRUE, ours |-> TRUE, run |-> r]
      BY <1>4, <3>1
    <3> QED BY <3>2 DEF Job
  <2>3. CASE s.op = "kickstart" /\ o.loaded
    BY <1>1, <1>4, <2>3 DEF Changes, Job
  <2>4. CASE s.op = "kickstart -k" /\ o.loaded
    BY <1>1, <1>4, <2>4 DEF Changes, Job
  <2>5. CASE s.op = "enable"
    BY <1>1, <1>4, <2>5 DEF Changes
  <2> QED BY <1>4, <2>1, <2>2, <2>3, <2>4, <2>5 DEF Changes
<1>5. result.job = o \/ result.job \in Changes(s)
  BY DEF Outcomes
<1> QED BY <1>3, <1>4, <1>5

LEMMA PerformsTyped ==
    ASSUME Typed, NEW s, NEW result \in Outcomes(s), Performs(s, result)
    PROVE  /\ job' \in [Units -> Job] /\ touched' \in BOOLEAN
           /\ \A u \in Units : job'[u].run = "old" => job[u].run = "old"
<1>1. job \in [Units -> Job] /\ job' = [job EXCEPT ![s.unit] = result.job]
  BY DEF Typed, TypeOK, Phases, Performs
<1>2. touched' \in BOOLEAN
  BY DEF Typed, TypeOK, Phases, Performs
<1>3. CASE s.unit \in Units
  BY <1>1, <1>2, <1>3, OutcomesTyped
<1>4. CASE s.unit \notin Units
  BY <1>1, <1>2, <1>4
<1> QED BY <1>3, <1>4

-----------------------------------------------------------------------------
(* Every action keeps the invariant.                                       *)

LEMMA InitKeeps == Init => IInv
<1> SUFFICES ASSUME Init PROVE IInv OBVIOUS
<1>1. Typed BY NothingSeenTyped DEF Init, Typed, TypeOK, Phases, NoChild, NoVerdict
<1> QED BY <1>1 DEF Init, IInv, Alone, Attended, Judged, Noted, Looking, Known, Renewed, Recent,
       NoChild, NoVerdict, CertainFailureChangedNothing, SuccessLasts, RestartReplaces

LEMMA RefreshKeeps == ASSUME IInv, Refresh PROVE IInv'
<1>1. Typed'
  BY NothingSeenTyped DEF IInv, Typed, TypeOK, Phases, Refresh, RefreshProbe, progress, probing,
                      bounds, history
<1>2. Alone' /\ Attended' /\ Judged' /\ Noted' /\ Looking' /\ CertainFailureChangedNothing'
  BY DEF IInv, Typed, TypeOK, Phases, Alone, Attended, Judged, Noted, Looking,
         CertainFailureChangedNothing, Refresh, RefreshProbe, progress, probing, bounds, history
<1>3. Known' /\ Renewed' /\ Recent'
  BY NothingSeenTyped DEF IInv, Typed, TypeOK, Phases, Looking, Attended, Known, Renewed, Recent,
                      Refresh, RefreshProbe, progress, probing, bounds, history
<1>4. SuccessLasts' /\ RestartReplaces'
  BY DEF IInv, Judged, SuccessLasts, RestartReplaces, Selected, Needed, Refresh,
     RefreshProbe, progress, probing, bounds, history
<1> QED BY <1>1, <1>2, <1>3, <1>4 DEF IInv

LEMMA RefreshEndsKeeps == ASSUME IInv, RefreshEnds PROVE IInv'
<1>1. Typed'
  BY NothingSeenTyped DEF IInv, Typed, TypeOK, Phases, RefreshEnds, NoProbe, progress, probing,
                      bounds, history
<1>2. Alone' /\ Attended' /\ Judged' /\ Noted' /\ Looking' /\ CertainFailureChangedNothing'
  BY DEF IInv, Typed, TypeOK, Phases, Alone, Attended, Judged, Noted, Looking,
         CertainFailureChangedNothing, RefreshEnds, NoProbe, progress, probing, bounds, history
<1>3. Known' /\ Renewed' /\ Recent'
  BY NothingSeenTyped DEF IInv, Typed, TypeOK, Phases, Looking, Attended, Known, Renewed, Recent,
                      RefreshEnds, NoProbe, progress, probing, bounds, history
<1>4. SuccessLasts' /\ RestartReplaces'
  BY DEF IInv, Judged, SuccessLasts, RestartReplaces, Selected, Needed, RefreshEnds, NoProbe,
     progress, probing, bounds, history
<1> QED BY <1>1, <1>2, <1>3, <1>4 DEF IInv

LEMMA ExecuteKeeps == ASSUME IInv, NEW c \in Command, Execute(c) PROVE IInv'
<1>1. Typed'
  BY NothingSeenTyped DEF IInv, Typed, TypeOK, Phases, Execute, ReplaceProbe, NoChild, NoVerdict,
                      progress, probing, bounds, history
<1>2. Alone' /\ Attended' /\ Judged' /\ Noted' /\ Looking' /\ CertainFailureChangedNothing'
  BY DEF IInv, Typed, TypeOK, Phases, Alone, Attended, Judged, Noted, Looking,
         CertainFailureChangedNothing, Execute, ReplaceProbe, NoChild, NoVerdict, progress,
         probing, bounds, history
<1>3. Known' /\ Renewed' /\ Recent'
  BY NothingSeenTyped DEF IInv, Typed, TypeOK, Phases, Looking, Attended, Known, Renewed, Recent,
                      Execute, ReplaceProbe, NoChild, NoVerdict, progress, probing, bounds, history
<1>4. SuccessLasts' /\ RestartReplaces'
  BY DEF IInv, Judged, SuccessLasts, RestartReplaces, Selected, Needed, Execute,
     ReplaceProbe, NoChild, NoVerdict, progress, probing, bounds, history
<1> QED BY <1>1, <1>2, <1>3, <1>4 DEF IInv

LEMMA LookAgainKeeps == ASSUME IInv, LookAgain PROVE IInv'
<1>1. Typed'
  BY NothingSeenTyped DEF IInv, Typed, TypeOK, Phases, LookAgain, Goes, ReplaceProbe, progress,
                      probing, bounds, history
<1>2. Alone' /\ Attended' /\ Judged' /\ Noted' /\ Looking' /\ CertainFailureChangedNothing'
  BY DEF IInv, Typed, TypeOK, Phases, Alone, Attended, Judged, Noted, Looking,
         CertainFailureChangedNothing, LookAgain, Goes, ReplaceProbe, progress,
         probing, bounds, history
<1>3. Known' /\ Renewed' /\ Recent'
  BY NothingSeenTyped DEF IInv, Typed, TypeOK, Phases, Looking, Attended, Known, Renewed, Recent,
                      LookAgain, Goes, ReplaceProbe, progress,
         probing, bounds, history
<1>4. SuccessLasts' /\ RestartReplaces'
  BY DEF IInv, Judged, SuccessLasts, RestartReplaces, Selected, Needed, LookAgain, Goes,
     ReplaceProbe, progress, probing, bounds, history
<1> QED BY <1>1, <1>2, <1>3, <1>4 DEF IInv

LEMMA AcknowledgeKeeps == ASSUME IInv, Acknowledge PROVE IInv'
<1>1. Typed'
  BY NothingSeenTyped DEF IInv, Typed, TypeOK, Phases, Acknowledge, Quiescent, progress, probing,
                      bounds, history
<1>2. Alone' /\ Attended' /\ Judged' /\ Noted' /\ Looking' /\ CertainFailureChangedNothing'
  BY DEF IInv, Typed, TypeOK, Phases, Alone, Attended, Judged, Noted, Looking,
         CertainFailureChangedNothing, Acknowledge, Quiescent, progress, probing, bounds, history
<1>3. Known' /\ Renewed' /\ Recent'
  BY NothingSeenTyped DEF IInv, Typed, TypeOK, Phases, Looking, Attended, Known, Renewed, Recent,
                      Acknowledge, Quiescent, progress, probing, bounds, history
<1>4. SuccessLasts' /\ RestartReplaces'
  BY DEF IInv, Judged, SuccessLasts, RestartReplaces, Selected, Needed, Acknowledge,
     Quiescent, progress, probing, bounds, history
<1> QED BY <1>1, <1>2, <1>3, <1>4 DEF IInv

LEMMA DeadlineKeeps == ASSUME IInv, Deadline PROVE IInv'
<1>1. Typed'
  BY NothingSeenTyped DEF IInv, Typed, TypeOK, Phases, Deadline, Finish, NoChild, progress, probing,
                      bounds, history
<1>2. Alone' /\ Attended' /\ Judged' /\ Noted' /\ Looking' /\ CertainFailureChangedNothing'
  BY DEF IInv, Typed, TypeOK, Phases, Alone, Attended, Judged, Noted, Looking,
         CertainFailureChangedNothing, Deadline, Finish, NoChild, progress, probing,
         bounds, history
<1>3. Known' /\ Renewed' /\ Recent'
  BY NothingSeenTyped DEF IInv, Typed, TypeOK, Phases, Looking, Attended, Known, Renewed, Recent,
                      Deadline, Finish, NoChild, progress, probing, bounds, history
<1>4. SuccessLasts' /\ RestartReplaces'
  BY DEF IInv, Judged, SuccessLasts, RestartReplaces, Selected, Needed, Deadline, Finish,
     NoChild, progress, probing, bounds, history
<1> QED BY <1>1, <1>2, <1>3, <1>4 DEF IInv

LEMMA ChildStuckKeeps == ASSUME IInv, ChildStuck PROVE IInv'
<1>1. child' = [step |-> child.step, signalled |-> child.signalled, life |-> "stuck"]
  BY DEF IInv, Typed, TypeOK, Phases, ChildStuck
<1>2. Typed'
  BY <1>1 DEF IInv, Typed, TypeOK, Phases, ChildStuck, progress, probing, bounds, history
<1>3. phase = "stepping" /\ phase' = "stepping"
  BY DEF IInv, Attended, NoChild, ChildStuck, progress, probing, bounds, history
<1>4. Alone' /\ Judged' /\ Looking'
  BY DEF IInv, Typed, TypeOK, Phases, Alone, Judged, Looking, ChildStuck, progress, probing, bounds,
     history
<1>5. Attended' /\ Noted'
  BY <1>1, <1>3 DEF IInv, Typed, TypeOK, Phases, Attended, Noted, ChildStuck, progress, probing,
                bounds, history
<1>6. CertainFailureChangedNothing' /\ SuccessLasts' /\ RestartReplaces'
  BY <1>3, <1>4 DEF IInv, Judged, CertainFailureChangedNothing, SuccessLasts, RestartReplaces
<1>7. Known' /\ Renewed' /\ Recent'
  BY <1>3, <1>4 DEF IInv, Looking, Known, Renewed, Recent
<1> QED BY <1>2, <1>4, <1>5, <1>6, <1>7 DEF IInv

LEMMA SignalsKeeps == ASSUME IInv, Signals PROVE IInv'
<1>1. child' = [step |-> child.step, signalled |-> TRUE, life |-> child.life]
  BY DEF IInv, Typed, TypeOK, Phases, Signals
<1>2. Typed'
  BY <1>1 DEF IInv, Typed, TypeOK, Phases, Signals, probing, bounds, history
<1>3. phase = "stepping" /\ phase' = "stepping"
  BY DEF IInv, Attended, NoChild, Signals
<1>4. Alone' /\ Judged' /\ Looking'
  BY DEF IInv, Typed, TypeOK, Phases, Alone, Judged, Looking, Signals, probing, history
<1>5. Attended' /\ Noted'
  BY <1>1, <1>3 DEF Attended, Noted, Signals
<1>6. CertainFailureChangedNothing' /\ SuccessLasts' /\ RestartReplaces'
  BY <1>3, <1>4 DEF IInv, Judged, CertainFailureChangedNothing, SuccessLasts, RestartReplaces
<1>7. Known' /\ Renewed' /\ Recent'
  BY <1>3, <1>4 DEF IInv, Looking, Known, Renewed, Recent
<1> QED BY <1>2, <1>4, <1>5, <1>6, <1>7 DEF IInv

LEMMA ChildRunsKeeps == ASSUME IInv, ChildRuns PROVE IInv'
<1>1. PICK result \in Outcomes(child.step) :
         /\ Performs(child.step, result)
         /\ child' = [child EXCEPT !.life = IF result.ok THEN "ok" ELSE "bad"]
  BY DEF ChildRuns
<1>2. child' = [step |-> child.step, signalled |-> child.signalled,
                life |-> IF result.ok THEN "ok" ELSE "bad"]
  BY <1>1 DEF IInv, Typed, TypeOK, Phases
<1>3. job' \in [Units -> Job] /\ touched' \in BOOLEAN
  BY <1>1, PerformsTyped DEF IInv
<1>4. Typed'
  BY <1>2, <1>3 DEF IInv, Typed, TypeOK, Phases, ChildRuns, probing
<1>5. phase = "stepping" /\ phase' = "stepping"
  BY DEF IInv, Attended, NoChild, ChildRuns
<1>6. Alone' /\ Judged' /\ Looking'
  BY DEF IInv, Typed, TypeOK, Phases, Alone, Judged, Looking, ChildRuns, probing
<1>7. Attended' /\ Noted'
  <2>1. child'.life \in {"ok", "bad"} /\ child'.signalled = child.signalled
    BY <1>2
  <2> QED BY <1>5, <2>1 DEF IInv, Typed, TypeOK, Phases, Attended, Noted, ChildRuns
<1>8. CertainFailureChangedNothing' /\ SuccessLasts' /\ RestartReplaces'
  BY <1>5, <1>6 DEF Judged, CertainFailureChangedNothing, SuccessLasts, RestartReplaces
<1>9. Known' /\ Renewed' /\ Recent'
  BY <1>5, <1>6 DEF Looking, Known, Renewed, Recent
<1> QED BY <1>4, <1>6, <1>7, <1>8, <1>9 DEF IInv

\* The next call begins, or the verification, with a probe of its own.
LEMMA StartStepKeeps ==
    ASSUME IInv, NEW left, StartStep(left), StepProbe(left), phase \in {"stepping", "delay"},
           attempted' = attempted, UNCHANGED <<job, cmd, retiring, bounds, history>>,
           child.signalled \/ child = NoChild
    PROVE  IInv'
<1>1. phase' \in {"stepping", "verifying"} /\ UNCHANGED <<verdict, blocked>>
  BY DEF StartStep, Goes
<1>2. \/ child' = [step |-> Head(left), signalled |-> FALSE, life |-> "alive"]
         /\ phase' = "stepping" /\ UNCHANGED probing
      \/ child' = NoChild /\ phase' = "verifying" /\ ReplaceProbe
  BY DEF StartStep, StepProbe, Goes
<1>3. Typed'
  <2>1. /\ job' = job /\ verdict' = verdict /\ attempted' = attempted /\ blocked' = blocked
        /\ touched' = touched /\ gap' = gap /\ meddled' = meddled
    BY <1>1 DEF history
  <2>2. seen' \in [Units -> Observation] /\ probe' \in {"none", "refresh", "own"}
    BY <1>2, NothingSeenTyped DEF IInv, Typed, TypeOK, Phases, ReplaceProbe, probing
  <2>3. /\ child' = [step |-> child'.step, signalled |-> child'.signalled, life |-> child'.life]
        /\ child'.signalled \in BOOLEAN
    <3>1. \E call, life : child' = [step |-> call, signalled |-> FALSE, life |-> life]
      BY <1>2, Zenon DEF NoChild
    <3> QED BY <3>1
  <2>4. phase' \in Phases
    BY <1>1 DEF Phases
  <2> QED BY <2>1, <2>2, <2>3, <2>4 DEF IInv, Typed, TypeOK, Phases
<1>4. Alone' /\ Judged'
  BY <1>1 DEF IInv, Alone, Judged, history
<1>5. Attended'
  BY <1>2 DEF Attended, NoChild
<1>6. Noted'
  BY <1>1 DEF IInv, Typed, TypeOK, Phases, Attended, Noted, NoChild, history
<1>7. Looking' /\ Known' /\ Renewed' /\ Recent'
  BY <1>2, NothingSeenTyped DEF IInv, Looking, Known, Renewed, Recent, ReplaceProbe, probing
<1>8. CertainFailureChangedNothing' /\ SuccessLasts' /\ RestartReplaces'
  BY <1>1, <1>4 DEF Judged, CertainFailureChangedNothing, SuccessLasts, RestartReplaces
<1> QED BY <1>3, <1>4, <1>5, <1>6, <1>7, <1>8 DEF IInv

LEMMA StepFinishedKeeps == ASSUME IInv, StepFinished PROVE IInv'
<1>1. phase = "stepping" /\ child.signalled
  <2>1. child.signalled
    BY DEF StepFinished
  <2> QED BY <2>1 DEF IInv, Attended, NoChild
<1>2. attempted' = attempted /\ attempted
  BY DEF IInv, Attended, StepFinished
<1>3. UNCHANGED <<job, cmd, retiring, bounds, history>>
  BY DEF StepFinished
<1>4. CASE \E left : StartStep(left) /\ StepProbe(left)
  BY <1>1, <1>2, <1>3, <1>4, StartStepKeeps DEF StepFinished
<1>5. CASE Goes("delay") /\ child' = NoChild /\ UNCHANGED probing
  <2>1. Typed'
    BY <1>2, <1>3, <1>5 DEF IInv, Typed, TypeOK, Phases, Goes, NoChild, probing, history
  <2>2. Alone' /\ Attended' /\ Judged' /\ Noted' /\ Looking'
    BY <1>1, <1>2, <1>3, <1>5 DEF IInv, Alone, Attended, Judged, Noted, Looking, Goes, NoChild,
       probing, history
  <2>3. Known' /\ Renewed' /\ Recent'
    BY <2>2, <1>5 DEF Looking, Known, Renewed, Recent, Goes
  <2>4. CertainFailureChangedNothing' /\ SuccessLasts' /\ RestartReplaces'
    BY <2>2, <1>5 DEF Judged, CertainFailureChangedNothing, SuccessLasts, RestartReplaces, Goes
  <2> QED BY <2>1, <2>2, <2>3, <2>4 DEF IInv
<1> QED BY <1>4, <1>5 DEF StepFinished

LEMMA DelayOverKeeps == ASSUME IInv, DelayOver PROVE IInv'
BY StartStepKeeps DEF IInv, Attended, DelayOver
-----------------------------------------------------------------------------

\* What has been seen stays true as the probe goes on to the next unit.
LEMMA LooksKeep ==
    ASSUME IInv, ~gap, probe = "own", NEW u \in Units, NEW found \in Findings(u), Looks(u, found)
    PROVE  \A v \in Units \ meddled' :
               found[v].auth =>
                   found[v].loaded = job'[v].loaded /\ found[v].ours = job'[v].ours
<1>1. SUFFICES ASSUME NEW v \in Units \ meddled', found[v].auth
               PROVE  found[v].loaded = job'[v].loaded /\ found[v].ours = job'[v].ours
  OBVIOUS
<1>2. CASE v = u
  BY <1>1, <1>2, LooksAt DEF IInv
<1>3. CASE v # u
  <2>1. v \notin meddled /\ found[v] = seen[v]
    BY <1>1, <1>3, LooksAt DEF IInv
  <2> QED BY <1>1, <2>1, LooksAt DEF IInv, Known
<1> QED BY <1>2, <1>3

LEMMA LooksRenew ==
    ASSUME IInv, phase = "verifying", probe = "own",
           NEW u \in Units, NEW found \in Findings(u), Looks(u, found)
    PROVE  /\ \A v \in Units : found[v].run = "new" => job'[v].run # "old"
           /\ \A v \in Units : found[v].auth => found[v].fresh
<1>1. SUFFICES ASSUME NEW v \in Units
               PROVE  /\ found[v].run = "new" => job'[v].run # "old"
                      /\ found[v].auth => found[v].fresh
  OBVIOUS
<1>2. job'[v].run = job[v].run
  BY LooksAt DEF IInv
<1>3. CASE v = u
  BY <1>2, <1>3, LooksAt DEF IInv
<1>4. CASE v # u
  BY <1>2, <1>4, LooksAt DEF IInv, Renewed, Recent
<1> QED BY <1>3, <1>4

LEMMA ProbeNextKeeps == ASSUME IInv, ProbeNext PROVE IInv'
<1>1. PICK u \in Units : At(u) /\ \E found \in Findings(u) : seen' = found /\ Looks(u, found)
  BY DEF ProbeNext
<1>2. PICK found \in Findings(u) : seen' = found /\ Looks(u, found)
  BY <1>1
<1>3. UNCHANGED <<phase, cmd, progress, probe, retiring, verdict, blocked, touched, gap>>
  BY DEF ProbeNext
<1>4. Typed'
  <2>1. job' \in [Units -> Job] /\ meddled' \subseteq Units /\ seen' \in [Units -> Observation]
    BY <1>2, LooksAt DEF IInv
  <2> QED BY <1>3, <2>1 DEF IInv, Typed, TypeOK, Phases, progress
<1>5. /\ Alone' /\ Attended' /\ Judged' /\ Noted' /\ Looking'
      /\ CertainFailureChangedNothing'
  BY <1>3 DEF IInv, Alone, Attended, Judged, Noted, Looking, CertainFailureChangedNothing,
          progress
<1>6. Known'
  BY <1>2, <1>3, LooksKeep DEF Known
<1>7. Renewed' /\ Recent'
  BY <1>2, <1>3, LooksRenew DEF Renewed, Recent
<1>8. verdict.state = "succeeded" =>
        /\ meddled' = meddled
        /\ \A v \in Units : /\ job'[v].loaded = job[v].loaded /\ job'[v].ours = job[v].ours
                            /\ job'[v].run = job[v].run
  <2>1. verdict.state = "succeeded" => probe # "own"
    BY DEF IInv, Judged, Looking
  <2> QED BY <1>2, <2>1, LooksAt DEF IInv
<1>9. SuccessLasts' /\ RestartReplaces'
  BY <1>3, <1>8, LaunchdAssumption DEF IInv, SuccessLasts, RestartReplaces, Selected, Needed
<1> QED BY <1>4, <1>5, <1>6, <1>7, <1>9 DEF IInv

\* What replaces one process by another leaves the rest of a job as it is.
LEMMA AnotherRun ==
    ASSUME NEW o \in Job, NEW r
    PROVE  [o EXCEPT !.run = r] = [loaded |-> o.loaded, ours |-> o.ours, run |-> r]
BY DEF Job

LEMMA ExitsKeeps == ASSUME IInv, NEW u \in Units, Exits(u) PROVE IInv'
<1>1. PICK r \in {"no", "new"} : job' = [job EXCEPT ![u].run = r]
  BY DEF Exits
<1>2. job' = [job EXCEPT ![u] = [loaded |-> job[u].loaded, ours |-> job[u].ours, run |-> r]]
  <2>1. job[u] \in Job /\ job \in [Units -> Job]
    BY DEF IInv, Typed, TypeOK, Phases
  <2>2. [job[u] EXCEPT !.run = r] = [loaded |-> job[u].loaded, ours |-> job[u].ours, run |-> r]
    BY <2>1, AnotherRun
  <2>3. job' = [job EXCEPT ![u] = [job[u] EXCEPT !.run = r]]
    BY <1>1, Zenon
  <2> QED BY <2>2, <2>3, Zenon
<1>3. job' \in [Units -> Job]
  BY <1>2 DEF IInv, Typed, TypeOK, Phases, Job
<1>4. \A v \in Units : /\ job'[v].loaded = job[v].loaded /\ job'[v].ours = job[v].ours
                       /\ job'[v].run = "old" => job[v].run = "old"
  BY <1>2 DEF IInv, Typed, TypeOK, Phases
<1>5. UNCHANGED <<phase, cmd, progress, probing, retiring, verdict, blocked, history>>
  BY DEF Exits
<1>6. Typed'
  BY <1>3, <1>5 DEF IInv, Typed, TypeOK, Phases, progress, probing, history
<1>7. /\ Alone' /\ Attended' /\ Judged' /\ Noted' /\ Looking' /\ Recent'
      /\ CertainFailureChangedNothing'
  BY <1>5 DEF IInv, Alone, Attended, Judged, Noted, Looking, Recent,
     CertainFailureChangedNothing, progress, probing, history
<1>8. Known' /\ Renewed'
  BY <1>4, <1>5 DEF IInv, Known, Renewed, probing, history
<1>9. SuccessLasts' /\ RestartReplaces'
  BY <1>4, <1>5, LaunchdAssumption DEF IInv, SuccessLasts, RestartReplaces, Selected, Needed,
     history
<1> QED BY <1>6, <1>7, <1>8, <1>9 DEF IInv

LEMMA MeddleKeeps == ASSUME IInv, NEW u \in Units, Meddle(u) PROVE IInv'
<1>1. PICK o \in Job : o.run # "old" /\ job' = [job EXCEPT ![u] = o]
  BY DEF Meddle
<1>2. job' \in [Units -> Job] /\ meddled' = meddled \union {u}
  BY <1>1 DEF IInv, Typed, TypeOK, Phases, Meddle
<1>3. /\ \A v \in Units : job'[v].run = "old" => job[v].run = "old"
      /\ \A v \in Units \ meddled' : job'[v] = job[v] /\ v \notin meddled
  BY <1>1, <1>2 DEF IInv, Typed, TypeOK, Phases
<1>4. UNCHANGED <<phase, cmd, progress, probing, retiring, verdict, blocked, touched, gap>>
  BY DEF Meddle
<1>5. Typed'
  BY <1>2, <1>4 DEF IInv, Typed, TypeOK, Phases, progress, probing
<1>6. /\ Alone' /\ Attended' /\ Judged' /\ Noted' /\ Looking' /\ Recent'
      /\ CertainFailureChangedNothing'
  BY <1>4 DEF IInv, Alone, Attended, Judged, Noted, Looking, Recent,
     CertainFailureChangedNothing, progress, probing
<1>7. Known' /\ Renewed'
  BY <1>3, <1>4 DEF IInv, Known, Renewed, probing
<1>8. SuccessLasts' /\ RestartReplaces'
  BY <1>3, <1>4, LaunchdAssumption DEF IInv, SuccessLasts, RestartReplaces, Selected, Needed
<1> QED BY <1>5, <1>6, <1>7, <1>8 DEF IInv

\* A call that nobody waits for does its work while the worker lets no command
\* through, unless a gap has been left.
LEMMA RetiresKeeps == ASSUME IInv, Retires PROVE IInv'
<1>1. PICK s \in retiring : /\ retiring' = retiring \ {s}
                            /\ \E result \in Outcomes(s) : Performs(s, result)
  BY DEF Retires
<1>2. PICK result \in Outcomes(s) : Performs(s, result)
  BY <1>1
<1>3. /\ job' \in [Units -> Job] /\ touched' \in BOOLEAN
      /\ \A v \in Units : job'[v].run = "old" => job[v].run = "old"
  BY <1>2, PerformsTyped DEF IInv
<1>4. UNCHANGED <<phase, cmd, progress, probing, verdict, blocked, meddled, gap>>
  BY DEF Retires
<1>5. Typed'
  BY <1>3, <1>4 DEF IInv, Typed, TypeOK, Phases, progress, probing
<1>6. ~gap => phase = "idle" /\ blocked
  BY <1>1 DEF IInv, Typed, TypeOK, Phases, Alone
<1>7. Alone' /\ Attended' /\ Judged' /\ Noted' /\ Looking' /\ Recent'
  BY <1>1, <1>4, <1>6 DEF IInv, Alone, Attended, Judged, Noted, Looking, Recent, progress,
                      probing
<1>8. CertainFailureChangedNothing'
  BY <1>1, <1>4 DEF IInv, CertainFailureChangedNothing
<1>9. Known' /\ Renewed'
  BY <1>3, <1>4, <1>6 DEF IInv, Looking, Known, Renewed, probing
<1>10. SuccessLasts' /\ RestartReplaces'
  <2>1. gap \/ verdict.state # "succeeded"
    BY <1>6 DEF IInv, Judged
  <2> QED BY <1>3, <1>4, <2>1, LaunchdAssumption DEF IInv, SuccessLasts, RestartReplaces,
          Selected, Needed
<1> QED BY <1>5, <1>7, <1>8, <1>9, <1>10 DEF IInv

\* Nothing has been called yet when the preflight is over: it fails for certain,
\* or the first call begins.
LEMMA ContinueAfterPreflightKeeps == ASSUME IInv, ContinueAfterPreflight PROVE IInv'
<1>1. PICK u \in Units : \E found \in Findings(u) :
         /\ Looks(u, found)
         /\ \/ \E left : StartStep(left) /\ (ReplaceProbe \/ (left # <<>> /\ NoProbe))
                                         /\ (left # <<>> => NoProbe) /\ attempted' = attempted
            \/ Finish("failed", FALSE)
  <2>1. PICK u \in Units : \E found \in Findings(u) :
           /\ Looks(u, found)
           /\ \/ /\ StartStep(Plan(found))
                 /\ IF Plan(found) = <<>> THEN ReplaceProbe ELSE NoProbe
                 /\ UNCHANGED <<attempted, failed, tries>>
              \/ Finish("failed", FALSE)
    BY DEF ContinueAfterPreflight
  <2>2. PICK found \in Findings(u) :
           /\ Looks(u, found)
           /\ \/ /\ StartStep(Plan(found))
                 /\ IF Plan(found) = <<>> THEN ReplaceProbe ELSE NoProbe
                 /\ UNCHANGED <<attempted, failed, tries>>
              \/ Finish("failed", FALSE)
    BY <2>1
  <2>3. CASE Finish("failed", FALSE)
    BY <2>2, <2>3
  <2>4. CASE /\ StartStep(Plan(found))
             /\ IF Plan(found) = <<>> THEN ReplaceProbe ELSE NoProbe
             /\ attempted' = attempted
    BY <2>2, <2>4
  <2> QED BY <2>2, <2>3, <2>4
<1>2. /\ job' \in [Units -> Job] /\ meddled' \subseteq Units
  BY <1>1, LooksAt DEF IInv
<1>3. UNCHANGED <<cmd, retiring, touched, gap>> /\ phase = "preflight"
  BY DEF ContinueAfterPreflight
<1>4. child = NoChild /\ ~attempted /\ (~gap => ~touched /\ retiring = {})
  BY <1>3 DEF IInv, Attended, Noted, Alone, NoChild
<1>5. CASE Finish("failed", FALSE)
  <2>1. Typed'
    BY <1>2, <1>3, <1>5, NothingSeenTyped DEF IInv, Typed, TypeOK, Phases, Finish, NoChild
  <2>2. /\ Alone' /\ Attended' /\ Judged' /\ Noted' /\ Looking'
        /\ CertainFailureChangedNothing'
    BY <1>3, <1>4, <1>5 DEF Alone, Attended, Judged, Noted, Looking,
       CertainFailureChangedNothing, Finish, NoChild
  <2>3. Known' /\ Renewed' /\ Recent' /\ SuccessLasts' /\ RestartReplaces'
    BY <1>5 DEF Known, Renewed, Recent, SuccessLasts, RestartReplaces, Finish
  <2> QED BY <2>1, <2>2, <2>3 DEF IInv
<1>6. CASE \E left : /\ StartStep(left) /\ attempted' = attempted
                     /\ IF left = <<>> THEN ReplaceProbe ELSE NoProbe
  <2>1. PICK left : /\ StartStep(left) /\ attempted' = attempted
                    /\ IF left = <<>> THEN ReplaceProbe ELSE NoProbe
    BY <1>6
  <2>2. /\ \E call, life : child' = [step |-> call, signalled |-> FALSE, life |-> life]
        /\ phase' # "stepping" => child' = NoChild
    BY <2>1, Zenon DEF StartStep, Goes, NoChild
  <2>3. /\ phase' \in {"stepping", "verifying"} /\ UNCHANGED <<verdict, blocked>>
    BY <2>1 DEF StartStep, Goes
  <2>4. seen' = NothingSeen
    BY <2>1 DEF ReplaceProbe, NoProbe
  <2>5. probe' = "own" => phase' = "verifying"
    BY <2>1 DEF StartStep, Goes, ReplaceProbe, NoProbe
  <2>6. Typed'
    <3>1. /\ child' = [step |-> child'.step, signalled |-> child'.signalled, life |-> child'.life]
          /\ child'.signalled = FALSE
      BY <2>2
    <3>2. /\ attempted' = attempted /\ verdict' = verdict /\ blocked' = blocked
          /\ touched' = touched /\ gap' = gap
      BY <1>3, <2>1, <2>3
    <3>3. seen' \in [Units -> Observation] /\ probe' \in {"none", "refresh", "own"}
      BY <2>1, <2>4, NothingSeenTyped DEF ReplaceProbe, NoProbe
    <3>4. phase' \in Phases
      BY <2>3 DEF Phases
    <3> QED BY <1>2, <3>1, <3>2, <3>3, <3>4 DEF IInv, Typed, TypeOK
  <2>7. /\ Alone' /\ Attended' /\ Judged' /\ Noted' /\ Looking'
    BY <1>3, <1>4, <2>2, <2>3, <2>5 DEF IInv, Alone, Attended, Judged, Noted, Looking
  <2>8. Known' /\ Renewed' /\ Recent'
    BY <2>4, NothingSeenTyped DEF Known, Renewed, Recent
  <2>9. CertainFailureChangedNothing' /\ SuccessLasts' /\ RestartReplaces'
    BY <2>3, <2>7 DEF Judged, CertainFailureChangedNothing, SuccessLasts, RestartReplaces
  <2> QED BY <2>6, <2>7, <2>8, <2>9 DEF IInv
<1> QED BY <1>1, <1>5, <1>6

\* What a command is judged by is what there is.
LEMMA SatisfiedHolds ==
    ASSUME IInv, phase = "verifying", probe = "own", cmd' = cmd,
           NEW u \in Units, NEW found \in Findings(u), Looks(u, found), Satisfied(found)
    PROVE  /\ ~gap => IF cmd.action = "stop_service"
                      THEN \A v \in Selected \ meddled' : ~job'[v].loaded
                      ELSE \A v \in Needed \ meddled' : job'[v].loaded /\ job'[v].ours
           /\ cmd.action = "restart_service" => \A v \in Needed : job'[v].run # "old"
<1>1. Selected \subseteq Units /\ Needed \subseteq Selected
  BY LaunchdAssumption DEF Selected, Needed
<1>2. \A v \in Selected : found[v].auth
  BY DEF Satisfied
<1>3. ~gap => \A v \in Selected \ meddled' :
                 found[v].loaded = job'[v].loaded /\ found[v].ours = job'[v].ours
  BY <1>1, <1>2, LooksKeep
<1>4. \A v \in Units : found[v].run = "new" => job'[v].run # "old"
  BY LooksRenew
<1>5. IF cmd.action = "stop_service" THEN \A v \in Selected : ~found[v].loaded
      ELSE \A v \in Needed : found[v].loaded /\ found[v].ours
  BY DEF Satisfied, Running
<1>6. cmd.action = "restart_service" => \A v \in Needed : found[v].run = "new"
  BY DEF Satisfied
<1>7. \A v \in Units : job'[v].loaded \in BOOLEAN /\ job'[v].ours \in BOOLEAN
  BY LooksAt DEF IInv, Job
<1> QED BY <1>1, <1>3, <1>4, <1>5, <1>6, <1>7

LEMMA VerifyOutcomeKeeps == ASSUME IInv, VerifyOutcome PROVE IInv'
<1>1. PICK u \in Units : \E found \in Findings(u) :
         /\ Looks(u, found)
         /\ IF Satisfied(found) THEN Finish("succeeded", FALSE)
            ELSE IF tries + 1 >= Attempts THEN Finish("failed", attempted)
            ELSE /\ Goes("waiting") /\ tries' = tries + 1
                 /\ NoProbe
                 /\ UNCHANGED <<steps, child, attempted, failed>>
  BY DEF VerifyOutcome
<1>2. PICK found \in Findings(u) :
         /\ Looks(u, found)
         /\ \/ Satisfied(found) /\ Finish("succeeded", FALSE)
            \/ Finish("failed", attempted)
            \/ Goes("waiting") /\ NoProbe /\ UNCHANGED <<steps, child, attempted, failed>>
  BY <1>1
<1>3. /\ job' \in [Units -> Job] /\ meddled' \subseteq Units
  BY <1>2, LooksAt DEF IInv
<1>4. UNCHANGED <<cmd, retiring, touched, gap>> /\ phase = "verifying" /\ probe = "own"
  BY DEF VerifyOutcome
<1>5. child = NoChild /\ (~gap => (touched => attempted) /\ retiring = {})
  BY <1>4 DEF IInv, Attended, Noted, Alone, NoChild
<1>6. ASSUME NEW state \in {"succeeded", "failed"}, NEW uncertain \in BOOLEAN,
             Finish(state, uncertain)
      PROVE  /\ Typed' /\ Alone' /\ Attended' /\ Noted' /\ Looking'
             /\ Known' /\ Renewed' /\ Recent'
  <2>1. Typed'
    BY <1>3, <1>4, <1>6, NothingSeenTyped DEF IInv, Typed, TypeOK, Phases, Finish, NoChild
  <2>2. Alone' /\ Attended' /\ Noted' /\ Looking'
    BY <1>4, <1>5, <1>6 DEF Alone, Attended, Noted, Looking, Finish, NoChild
  <2>3. Known' /\ Renewed' /\ Recent'
    BY <1>6 DEF Known, Renewed, Recent, Finish
  <2> QED BY <2>1, <2>2, <2>3
<1>7. CASE Satisfied(found) /\ Finish("succeeded", FALSE)
  <2>1. Judged' /\ CertainFailureChangedNothing'
    BY <1>7 DEF Judged, CertainFailureChangedNothing, Finish
  <2>2. SuccessLasts' /\ RestartReplaces'
    BY <1>2, <1>4, <1>7, SatisfiedHolds DEF SuccessLasts, RestartReplaces, Selected, Needed
  <2> QED BY <1>6, <1>7, <2>1, <2>2 DEF IInv
<1>8. CASE Finish("failed", attempted)
  <2>1. Judged' /\ CertainFailureChangedNothing' /\ SuccessLasts' /\ RestartReplaces'
    BY <1>4, <1>5, <1>8 DEF IInv, Typed, TypeOK, Phases, Judged, CertainFailureChangedNothing,
                        SuccessLasts,
       RestartReplaces, Finish
  <2>2. attempted \in BOOLEAN
    BY DEF IInv, Typed, TypeOK, Phases
  <2> QED BY <1>6, <1>8, <2>1, <2>2 DEF IInv
<1>9. CASE Goes("waiting") /\ NoProbe /\ UNCHANGED <<steps, child, attempted, failed>>
  <2>1. Typed'
    BY <1>3, <1>4, <1>9, NothingSeenTyped DEF IInv, Typed, TypeOK, Phases, Goes, NoProbe
  <2>2. Alone' /\ Attended' /\ Judged' /\ Noted' /\ Looking'
    BY <1>4, <1>5, <1>9 DEF IInv, Alone, Attended, Judged, Noted, Looking, Goes, NoProbe,
                        NoChild
  <2>3. Known' /\ Renewed' /\ Recent'
    BY <1>9 DEF Known, Renewed, Recent, NoProbe
  <2>4. CertainFailureChangedNothing' /\ SuccessLasts' /\ RestartReplaces'
    BY <1>9, <2>2 DEF Judged, CertainFailureChangedNothing, SuccessLasts, RestartReplaces, Goes
  <2> QED BY <2>1, <2>2, <2>3, <2>4 DEF IInv
<1> QED BY <1>2, <1>7, <1>8, <1>9

LEMMA StutterKeeps == ASSUME IInv, UNCHANGED vars PROVE IInv'
BY DEF IInv, vars, Typed, TypeOK, Phases, Alone, Attended, Judged, Noted, Looking, Known, Renewed,
   Recent,
   CertainFailureChangedNothing, SuccessLasts, RestartReplaces, Selected, Needed,
   progress, probing, bounds, history

-----------------------------------------------------------------------------
(* Every action keeps the aim.                                             *)

\* What a call leaves at its unit is gone, ours, or loaded by whom it was.
LEMMA OutcomesOwn ==
    ASSUME Typed, NEW s, s.unit \in Units, NEW result \in Outcomes(s)
    PROVE  /\ \/ result.job = job[s.unit] \/ ~result.job.loaded \/ result.job.ours
              \/ job[s.unit].loaded /\ result.job.ours = job[s.unit].ours
           /\ s.op \in {"bootout", "kickstart -k"} =>
                  result.job = job[s.unit] \/ job[s.unit].loaded
<1> DEFINE o == job[s.unit]
<1>1. o \in Job BY DEF Typed, TypeOK
<1>2. CASE result.job = o BY <1>2
<1>3. CASE result.job \in Changes(s)
  <2>1. CASE s.op = "bootout" /\ o.loaded
    <3>1. Changes(s) = {Absent} BY <2>1 DEF Changes
    <3> QED BY <1>3, <2>1, <3>1 DEF Absent
  <2>2. CASE s.op = "bootstrap" /\ ~o.loaded
    <3>1. Changes(s) = {[loaded |-> TRUE, ours |-> TRUE, run |-> r] : r \in {"no", "new"}}
      BY <2>2 DEF Changes
    <3> QED BY <1>3, <2>2, <3>1
  <2>3. CASE s.op = "kickstart" /\ o.loaded
    BY <1>1, <1>3, <2>3 DEF Changes, Job
  <2>4. CASE s.op = "kickstart -k" /\ o.loaded
    BY <1>1, <1>3, <2>4 DEF Changes, Job
  <2>5. CASE s.op = "enable"
    BY <1>1, <1>3, <2>5 DEF Changes
  <2> QED BY <1>3, <2>1, <2>2, <2>3, <2>4, <2>5 DEF Changes
<1>4. result.job = o \/ result.job \in Changes(s)
  BY DEF Outcomes
<1> QED BY <1>2, <1>3, <1>4

\* A call that is aimed well hits nobody else's job, and leaves the next one well aimed.
LEMMA PerformsOwn ==
    ASSUME Typed, NEW s, s.unit \in Units, ~gap => Own(s.unit), ~wronged,
           NEW result \in Outcomes(s), Performs(s, result), meddled' = meddled
    PROVE  ~wronged' /\ \A u \in Units : Own(u) => Own(u)'
<1>1. job \in [Units -> Job] /\ job' = [job EXCEPT ![s.unit] = result.job]
  BY DEF Typed, TypeOK, Performs
<1>2. \A u \in Units : u # s.unit => job'[u] = job[u]
  BY <1>1
<1>3. job'[s.unit] = result.job
  BY <1>1
<1>4. Own(s.unit) => Own(s.unit)'
  BY <1>3, OutcomesOwn DEF Own
<1>5. ~wronged'
  <2>1. SUFFICES ASSUME s.op \in {"bootout", "kickstart -k"}, job' # job,
                        ~job[s.unit].ours, s.unit \notin meddled, ~gap
                 PROVE  FALSE
    BY DEF Performs
  <2>2. ~job[s.unit].loaded
    BY <2>1 DEF Own
  <2>3. result.job = job[s.unit]
    BY <2>1, <2>2, OutcomesOwn
  <2> QED BY <1>1, <2>1, <2>3
<1> QED BY <1>2, <1>4, <1>5 DEF Own

\* What an action may do without changing anybody's aim.
LEMMA AimKept ==
    ASSUME Aimed, UNCHANGED <<cmd, gap>>, ~wronged', retiring' \subseteq retiring,
           ~gap /\ (phase \in {"stepping", "delay"} \/ retiring # {}) =>
               \A u \in Units : Own(u) => Own(u)',
           steps' \in Seq(Calls), child'.life = "alive" => child'.step \in Calls,
           phase' \in {"stepping", "delay"} => phase \in {"stepping", "delay"}
    PROVE  Aimed'
<1>1. Selected' = Selected /\ Calls' = Calls /\ Selected \subseteq Units
  BY DEF Selected, Calls
<1>2. Directed'
  BY <1>1 DEF Directed
<1>3. Vetted'
  <2>1. SUFFICES ASSUME ~gap', phase' \in {"stepping", "delay"}, NEW u \in Selected
                 PROVE  Own(u)'
    BY <1>1 DEF Vetted
  <2>2. Own(u)
    BY <2>1 DEF Aimed, Vetted
  <2> QED BY <1>1, <2>1, <2>2
<1>4. Harmless'
  <2>1. SUFFICES ASSUME ~gap', NEW s \in retiring' PROVE s.unit \in Units /\ Own(s.unit)'
    BY DEF Harmless, Own
  <2>2. s \in retiring /\ s.unit \in Units /\ Own(s.unit)
    BY <2>1 DEF Aimed, Harmless
  <2> QED BY <2>1, <2>2
<1> QED BY <1>2, <1>3, <1>4 DEF Aimed, OnlyOwnJobs

LEMMA InitAims == Init => Aimed
BY DEF Init, Aimed, Directed, Vetted, Harmless, OnlyOwnJobs, NoChild

\* Actions that leave the units and the calls alone.
LEMMA StillAims ==
    ASSUME IInv, Aimed,
           Refresh \/ RefreshEnds \/ ChildStuck \/ Signals \/ LookAgain \/ Acknowledge
           \/ UNCHANGED vars
    PROVE  Aimed'
<1>1. /\ UNCHANGED <<cmd, gap, retiring, wronged, job, meddled, steps>>
      /\ phase' \in {"stepping", "delay"} => phase \in {"stepping", "delay"}
  BY DEF Refresh, RefreshEnds, ChildStuck, Signals, LookAgain, Acknowledge, Goes, vars, progress,
         history
<1>2. child'.life = "alive" => child.life = "alive" /\ child'.step = child.step
  BY DEF IInv, Typed, Refresh, RefreshEnds, ChildStuck, Signals, LookAgain, Acknowledge, vars,
         progress
<1>3. \A u \in Units : Own(u) => Own(u)'
  BY <1>1 DEF Own
<1>4. ~wronged' /\ retiring' \subseteq retiring
  BY <1>1 DEF Aimed, OnlyOwnJobs
<1>5. steps' \in Seq(Calls) /\ (child'.life = "alive" => child'.step \in Calls)
  BY <1>1, <1>2 DEF Aimed, Directed
<1> QED BY <1>1, <1>3, <1>4, <1>5, AimKept

LEMMA ExecuteAims == ASSUME IInv, Aimed, NEW c \in Command, Execute(c) PROVE Aimed'
<1>1. /\ steps' = <<>> /\ child' = NoChild /\ phase' = "preflight" /\ retiring' = retiring
      /\ gap' = (gap /\ retiring # {}) /\ wronged' = wronged /\ ~blocked
  BY DEF Execute
<1>2. ~gap' => retiring' = {}
  BY <1>1 DEF IInv, Alone
<1> QED BY <1>1, <1>2 DEF Aimed, Directed, Vetted, Harmless, OnlyOwnJobs, NoChild

LEMMA ExitsAims == ASSUME IInv, Aimed, NEW u \in Units, Exits(u) PROVE Aimed'
<1>1. PICK r \in {"no", "new"} : job' = [job EXCEPT ![u].run = r]
  BY DEF Exits
<1>2. \A v \in Units : job'[v].loaded = job[v].loaded /\ job'[v].ours = job[v].ours
  BY <1>1, AnotherRun DEF IInv, Typed, TypeOK
<1>3. UNCHANGED <<phase, cmd, steps, child, retiring, meddled, gap, wronged>>
  BY DEF Exits, progress, history
<1>4. \A v \in Units : Own(v) => Own(v)'
  BY <1>2, <1>3 DEF Own
<1> QED BY <1>3, <1>4, AimKept DEF Aimed, Directed, OnlyOwnJobs

LEMMA MeddleAims == ASSUME IInv, Aimed, NEW u \in Units, Meddle(u) PROVE Aimed'
<1>1. PICK o \in Job : job' = [job EXCEPT ![u] = o]
  BY DEF Meddle
<1>2. UNCHANGED <<phase, cmd, steps, child, retiring, gap, wronged>>
      /\ meddled' = meddled \union {u}
  BY DEF Meddle, progress
<1>3. \A v \in Units : Own(v) => Own(v)'
  BY <1>1, <1>2 DEF IInv, Typed, TypeOK, Own
<1> QED BY <1>2, <1>3, AimKept DEF Aimed, Directed, OnlyOwnJobs

\* While a command looks no call is out, so that nothing depends on what was known before.
LEMMA LooksAims ==
    ASSUME IInv, NEW u \in Units, NEW found \in Findings(u), Looks(u, found),
           ~gap /\ (phase \in {"stepping", "delay"} \/ retiring # {})
    PROVE  \A v \in Units : Own(v) => Own(v)'
<1>1. probe # "own"
  BY DEF IInv, Looking, Alone
<1> QED BY <1>1 DEF Looks, Own

LEMMA ProbeNextAims == ASSUME IInv, Aimed, ProbeNext PROVE Aimed'
<1>1. PICK u \in Units : \E found \in Findings(u) : Looks(u, found)
  BY DEF ProbeNext
<1>2. UNCHANGED <<phase, cmd, steps, child, retiring, gap, wronged>>
  BY DEF ProbeNext, progress
<1>3. ~gap /\ (phase \in {"stepping", "delay"} \/ retiring # {}) =>
          \A v \in Units : Own(v) => Own(v)'
  BY <1>1, LooksAims
<1> QED BY <1>2, <1>3, AimKept DEF Aimed, Directed, OnlyOwnJobs

LEMMA VerifyOutcomeAims == ASSUME IInv, Aimed, VerifyOutcome PROVE Aimed'
<1>1. PICK u \in Units : \E found \in Findings(u) :
         /\ Looks(u, found)
         /\ \/ Finish("succeeded", FALSE) \/ Finish("failed", attempted)
            \/ Goes("waiting") /\ UNCHANGED <<steps, child>>
  BY DEF VerifyOutcome
<1>2. UNCHANGED <<cmd, retiring, gap, wronged>>
  BY DEF VerifyOutcome
<1>3. ~gap /\ (phase \in {"stepping", "delay"} \/ retiring # {}) =>
          \A v \in Units : Own(v) => Own(v)'
  BY <1>1, LooksAims
<1>4. /\ phase' \in {"idle", "waiting"}
      /\ (steps' = <<>> /\ child' = NoChild) \/ UNCHANGED <<steps, child>>
  BY <1>1 DEF Finish, Goes
<1>5. steps' \in Seq(Calls) /\ (child'.life = "alive" => child'.step \in Calls)
  <2>1. CASE steps' = <<>> /\ child' = NoChild
    BY <2>1 DEF NoChild
  <2>2. CASE UNCHANGED <<steps, child>>
    BY <2>2 DEF Aimed, Directed
  <2> QED BY <1>4, <2>1, <2>2
<1> QED BY <1>2, <1>3, <1>4, <1>5, AimKept DEF Aimed, OnlyOwnJobs

\* The call that runs is for a unit that the command has looked at.
LEMMA ChildRunsAims == ASSUME IInv, Aimed, ChildRuns PROVE Aimed'
<1>1. PICK result \in Outcomes(child.step) :
         /\ Performs(child.step, result)
         /\ child' = [child EXCEPT !.life = IF result.ok THEN "ok" ELSE "bad"]
  BY DEF ChildRuns
<1>2. UNCHANGED <<phase, cmd, steps, retiring, meddled, gap>> /\ child.life = "alive"
  BY DEF ChildRuns
<1>3. child'.life # "alive"
  BY <1>1 DEF IInv, Typed
<1>4. child.step.unit \in Selected /\ Selected \subseteq Units
  BY <1>2 DEF Aimed, Directed, Calls, Selected
<1>5. phase = "stepping"
  BY <1>2 DEF IInv, Attended, NoChild
<1>6. ~gap => Own(child.step.unit)
  BY <1>4, <1>5 DEF Aimed, Vetted
<1>7. ~wronged' /\ \A u \in Units : Own(u) => Own(u)'
  BY <1>1, <1>2, <1>4, <1>6, PerformsOwn DEF IInv, Aimed, OnlyOwnJobs
<1> QED BY <1>2, <1>3, <1>7, AimKept DEF Aimed, Directed

LEMMA RetiresAims == ASSUME IInv, Aimed, Retires PROVE Aimed'
<1>1. PICK s \in retiring : /\ retiring' = retiring \ {s}
                            /\ \E result \in Outcomes(s) : Performs(s, result)
  BY DEF Retires
<1>2. PICK result \in Outcomes(s) : Performs(s, result)
  BY <1>1
<1>3. UNCHANGED <<phase, cmd, steps, child, meddled, gap>>
  BY DEF Retires, progress
<1>4. CASE gap
  BY <1>1, <1>2, <1>3, <1>4, AimKept DEF Aimed, Directed, OnlyOwnJobs, Performs
<1>5. CASE ~gap
  <2>1. s.unit \in Units /\ Own(s.unit)
    BY <1>5 DEF Aimed, Harmless
  <2>2. ~wronged' /\ \A u \in Units : Own(u) => Own(u)'
    BY <1>2, <1>3, <2>1, PerformsOwn DEF IInv, Aimed, OnlyOwnJobs
  <2> QED BY <1>1, <1>3, <2>2, AimKept DEF Aimed, Directed
<1> QED BY <1>4, <1>5

\* The next call is one of the plan.
LEMMA StartStepAims ==
    ASSUME Aimed, NEW left \in Seq(Calls), StartStep(left), phase \in {"stepping", "delay"},
           UNCHANGED <<job, cmd, retiring, history>>
    PROVE  Aimed'
<1>1. steps' \in Seq(Calls) /\ (child'.life = "alive" => child'.step \in Calls)
  BY DEF StartStep, NoChild
<1>2. \A u \in Units : Own(u) => Own(u)'
  BY DEF Own, history
<1> QED BY <1>1, <1>2, AimKept DEF Aimed, OnlyOwnJobs, history

LEMMA StepFinishedAims == ASSUME IInv, Aimed, StepFinished PROVE Aimed'
<1> DEFINE left == IF Fatal THEN <<>> ELSE steps
<1>1. left \in Seq(Calls)
  BY DEF Aimed, Directed
<1>2. UNCHANGED <<job, cmd, retiring, history>> /\ child.signalled
  BY DEF StepFinished
<1>3. phase = "stepping"
  BY <1>2 DEF IInv, Attended, NoChild
<1>4. \/ StartStep(left)
      \/ Goes("delay") /\ steps' = left /\ child' = NoChild
  BY DEF StepFinished
<1> HIDE DEF left
<1>5. CASE StartStep(left)
  BY <1>1, <1>2, <1>3, <1>5, StartStepAims
<1>6. CASE Goes("delay") /\ steps' = left /\ child' = NoChild
  <2>1. \A u \in Units : Own(u) => Own(u)'
    BY <1>2 DEF Own, history
  <2> QED BY <1>1, <1>2, <1>3, <1>6, <2>1, AimKept DEF Aimed, OnlyOwnJobs, history, NoChild
<1> QED BY <1>4, <1>5, <1>6

LEMMA DelayOverAims == ASSUME IInv, Aimed, DelayOver PROVE Aimed'
BY StartStepAims DEF Aimed, Directed, DelayOver

\* A call that outlives its command is for a unit that the command has looked at.
LEMMA DeadlineAims == ASSUME IInv, Aimed, Deadline PROVE Aimed'
<1>1. /\ phase' = "idle" /\ steps' = <<>> /\ child' = NoChild
      /\ UNCHANGED <<job, cmd, meddled, wronged>> /\ gap' \in {gap, TRUE}
      /\ retiring' = retiring \union {s \in {child.step} : child.life = "alive"}
  BY DEF Deadline, Finish, IInv, Typed, TypeOK
<1>2. Directed' /\ Vetted' /\ OnlyOwnJobs'
  BY <1>1 DEF Aimed, Directed, Vetted, OnlyOwnJobs, NoChild
<1>3. ASSUME ~gap', NEW s \in retiring' PROVE s.unit \in Units /\ Own(s.unit)
  <2>1. CASE s \in retiring
    BY <1>1, <1>3, <2>1 DEF Aimed, Harmless
  <2>2. CASE s = child.step /\ child.life = "alive"
    <3>1. phase = "stepping"
      BY <2>2 DEF IInv, Attended, NoChild
    <3>2. s.unit \in Selected /\ Selected \subseteq Units
      BY <2>2 DEF Aimed, Directed, Calls, Selected
    <3> QED BY <1>1, <1>3, <3>1, <3>2 DEF Aimed, Vetted
  <2> QED BY <1>1, <2>1, <2>2
<1>4. Harmless'
  BY <1>1, <1>3 DEF Harmless, Own
<1> QED BY <1>2, <1>4 DEF Aimed

\* A unit that the preflight lets through is ours, nobody's, or changed since.
LEMMA ContinueAfterPreflightAims == ASSUME IInv, Aimed, ContinueAfterPreflight PROVE Aimed'
<1>1. /\ UNCHANGED <<cmd, retiring, gap, wronged>> /\ phase = "preflight" /\ probe = "own"
  BY DEF ContinueAfterPreflight
<1>2. Selected' = Selected /\ Calls' = Calls /\ Selected \subseteq Units
  BY <1>1 DEF Selected, Calls
<1>3. ~gap => retiring = {}
  BY <1>1 DEF IInv, Alone
<1>4. Harmless' /\ OnlyOwnJobs'
  BY <1>1, <1>3 DEF Aimed, Harmless, OnlyOwnJobs
<1>5. PICK u \in Units : \E found \in Findings(u) :
         /\ Looks(u, found)
         /\ (Proceeds(found) /\ StartStep(Plan(found))) \/ Finish("failed", FALSE)
  BY DEF ContinueAfterPreflight
<1>6. PICK found \in Findings(u) :
         /\ Looks(u, found)
         /\ (Proceeds(found) /\ StartStep(Plan(found))) \/ Finish("failed", FALSE)
  BY <1>5
<1>7. CASE Finish("failed", FALSE)
  BY <1>4, <1>7 DEF Aimed, Directed, Vetted, Finish, NoChild
<1>8. CASE Proceeds(found) /\ StartStep(Plan(found))
  <2>1. Directed'
    <3>1. Plan(found) \in Seq(Calls)
      BY PlanDirected
    <3> QED BY <1>2, <1>8, <3>1 DEF StartStep, Directed, NoChild
  <2>2. ASSUME ~gap, NEW v \in Selected PROVE Own(v)'
    <3>1. found[v].auth /\ (found[v].loaded => found[v].ours)
      BY <1>8 DEF Proceeds
    <3>2. v \notin meddled' =>
              found[v].loaded = job'[v].loaded /\ found[v].ours = job'[v].ours
      BY <1>1, <1>2, <1>6, <2>2, <3>1, LooksKeep
    <3> QED BY <3>1, <3>2 DEF Own
  <2>3. Vetted'
    BY <1>1, <1>2, <2>2 DEF Vetted
  <2> QED BY <1>4, <2>1, <2>3 DEF Aimed
<1> QED BY <1>6, <1>7, <1>8

-----------------------------------------------------------------------------
\* The inductive invariant, for any units and any number of commands.
THEOREM Invariance == Spec => []IInv
<1>1. ASSUME IInv, [Next]_vars PROVE IInv'
  BY <1>1, ExecuteKeeps, RefreshKeeps, ProbeNextKeeps, RefreshEndsKeeps,
     ContinueAfterPreflightKeeps, ChildRunsKeeps, ChildStuckKeeps, SignalsKeeps,
     StepFinishedKeeps, DelayOverKeeps, VerifyOutcomeKeeps, LookAgainKeeps, DeadlineKeeps,
     RetiresKeeps, AcknowledgeKeeps, ExitsKeeps, MeddleKeeps, StutterKeeps DEF Next
<1> QED BY <1>1, InitKeeps, PTL DEF Spec

\* What decides about commands stays in its domain.
THEOREM LaunchdTypeCorrect == Spec => []TypeOK
<1>1. IInv => TypeOK BY DEF IInv, Typed
<1> QED BY <1>1, Invariance, PTL

\* A command that has failed for certain has changed nothing, and nothing of it
\* can change anything yet: what commandDeadline_ and finishCommand report.
THEOREM CertainFailure == Spec => []CertainFailureChangedNothing
<1>1. IInv => CertainFailureChangedNothing BY DEF IInv
<1> QED BY <1>1, Invariance, PTL

\* No call of an earlier command runs beside a later one: what the interlock and
\* transportQuiescent are for.
THEOREM NobodyElseCalls == Spec => []NoStrayCall
<1>1. IInv => NoStrayCall BY DEF IInv, Alone, NoStrayCall
<1> QED BY <1>1, Invariance, PTL

\* What verifyLaunchdOutcome has found lasts until somebody else changes it.
THEOREM SuccessIsKept == Spec => []SuccessLasts
<1>1. IInv => SuccessLasts BY DEF IInv
<1> QED BY <1>1, Invariance, PTL

\* A restart that succeeded has replaced the processes that it found.
THEOREM RestartIsReal == Spec => []RestartReplaces
<1>1. IInv => RestartReplaces BY DEF IInv
<1> QED BY <1>1, Invariance, PTL

\* No call hits a job of somebody else: what validateMutationPreflight is for.
THEOREM OthersAreSpared == Spec => []OnlyOwnJobs
<1>1. ASSUME IInv, Aimed, [Next]_vars PROVE Aimed'
  BY <1>1, ExecuteAims, ProbeNextAims, ContinueAfterPreflightAims, ChildRunsAims,
     StepFinishedAims, DelayOverAims, VerifyOutcomeAims, DeadlineAims, RetiresAims, ExitsAims,
     MeddleAims, StillAims DEF Next
<1>2. Aimed => OnlyOwnJobs BY DEF Aimed
<1> QED BY <1>1, <1>2, InitAims, Invariance, PTL DEF Spec

\* No probe that was under way while calls were made has a say in a success.
THEOREM SeenAfterwards == Spec => JudgedAfterwards
<1>1. IInv /\ [Next]_vars =>
        [verdict'.state = "succeeded" /\ verdict.state # "succeeded" =>
           \A u \in Selected : seen[u].fresh \/ u = Order[Len(Order)]]_vars
  <2> SUFFICES ASSUME IInv, Next, verdict'.state = "succeeded", verdict.state # "succeeded",
                      NEW v \in Selected
               PROVE  seen[v].fresh \/ v = Order[Len(Order)]
    OBVIOUS
  <2>1. VerifyOutcome
    <3>1. ~Finish("failed", FALSE) /\ ~Finish("failed", attempted) /\ verdict' # verdict
      BY DEF Finish
    <3>2. verdict' # NoVerdict /\ ~\E left : StartStep(left)
      BY <3>1 DEF NoVerdict, StartStep, Goes
    <3> QED BY <3>1, <3>2 DEF Next, Execute, Refresh, ProbeNext, RefreshEnds,
            ContinueAfterPreflight, ChildRuns, ChildStuck, Signals, StepFinished, DelayOver,
            LookAgain, Deadline, Retires, Acknowledge, Exits, Meddle, Goes
  <2>2. PICK u \in Units : /\ At(u)
                           /\ \E found \in Findings(u) :
                                /\ Looks(u, found)
                                /\ \/ Satisfied(found)
                                   \/ Finish("failed", attempted) \/ Goes("waiting")
    BY <2>1 DEF VerifyOutcome
  <2>3. PICK found \in Findings(u) : Looks(u, found) /\ Satisfied(found)
    BY <2>2 DEF Finish, Goes
  <2>4. u = Order[Len(Order)]
    BY <2>1, <2>2 DEF VerifyOutcome, At, AtLast
  <2>5. CASE v = u
    BY <2>4, <2>5
  <2>6. CASE v # u
    <3>1. found[v].auth /\ v \in Units
      BY <2>3 DEF Satisfied, Selected
    <3>2. found[v] = seen[v]
      BY <2>3, <2>6, <3>1, LooksAt DEF IInv
    <3> QED BY <2>1, <3>1, <3>2 DEF VerifyOutcome, IInv, Recent
  <2> QED BY <2>5, <2>6
<1> QED BY <1>1, Invariance, PTL DEF Spec, JudgedAfterwards
=============================================================================
