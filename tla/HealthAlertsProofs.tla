-------------------------- MODULE HealthAlertsProofs --------------------------
(***************************************************************************)
(* Machine-checked proofs about the incidents of the health monitor, for   *)
(* any number of sources and reasons, every interval and every bound.      *)
(***************************************************************************)
EXTENDS HealthAlerts, TLAPS

(***************************************************************************)
(* The inductive invariant.                                                *)
(***************************************************************************)

KeyOf(s) == <<s, "health">>

\* Between two ticks nothing is left of one.
TicksAreOver == phase \in {"idle", "down"} => problems = {} /\ rest = {}

\* During a tick every incident is of this day.
OneDay ==
    phase \in {"problems", "sending"} => \A k \in DOMAIN incidents : incidents[k].sameDay = TRUE

\* What is being sent has been written down as an attempt.
SendingIsNoted ==
    phase = "sending" =>
        /\ SourceIncidentKey(taken) \in DOMAIN incidents
        /\ incidents[SourceIncidentKey(taken)].attempt # Never

DownIsSaved == phase = "down" => unsaved = {}

\* An incident of today that nobody was told of is not older than the problem; one
\* that somebody was told of was told today.
Earns(i, age, isToday) ==
    i.sameDay = TRUE => IF i.notified = Never THEN i.opened <= age ELSE isToday
Earning == \A k \in DOMAIN incidents : Earns(incidents[k], streak[k[1]], k[1] \in today)
EarnedInFile ==
    phase = "down" =>
        \A k \in DOMAIN file :
            file[k].sameDay = TRUE /\ file[k].notified # Never => k[1] \in today

\* The last alert, since the file was last found unreadable, is known: to the process,
\* and to the file once it is saved.
Tells(dict, s) == KeyOf(s) \in DOMAIN dict /\ dict[KeyOf(s)].notified \in 0 .. heard[s]
HeardIsKnown ==
    \A s \in Sources : heard[s] # Never =>
        /\ phase # "down" => Tells(incidents, s)
        /\ s \notin unsaved => Tells(file, s)

\* So is the last attempt, unless its incident has come to an end: then the next one
\* is younger, and has to be confirmed.
Spaces(i, age) ==
    /\ i.notified # Never => i.attempt # Never
    /\ age # Never =>
         IF i.attempt = Never THEN i.opened <= age \/ Retry <= age ELSE i.attempt <= age
Spacing ==
    /\ \A k \in DOMAIN incidents : Spaces(incidents[k], attempted[k[1]])
    /\ \A k \in DOMAIN file : Spaces(file[k], attempted[k[1]])

\* Good observations that are counted were made.
Recovering ==
    /\ \A k \in DOMAIN incidents : incidents[k].good <= wellFor[k[1]]
    /\ phase = "down" => \A k \in DOMAIN file : file[k].good <= wellFor[k[1]]

AInv ==
    /\ TypeOK /\ TicksAreOver /\ OneDay /\ SendingIsNoted /\ DownIsSaved
    /\ Earning /\ EarnedInFile /\ HeardIsKnown /\ Spacing /\ Recovering

\* The assumption on the constants, as a fact that stays folded until it is needed.
Assumptions == AlertAssumption

-----------------------------------------------------------------------------
(* Keys, dictionaries and ages.                                            *)

\* The intervals and the limits are numbers, in this order.
LEMMA Intervals ==
    ASSUME Assumptions
    PROVE  /\ Confirm \in Nat /\ 0 < Confirm /\ Repeat \in Nat /\ 0 < Repeat
           /\ Retry \in Nat /\ 0 < Retry /\ Retry <= Confirm /\ Confirm <= Repeat
           /\ MaxCrashes \in Nat /\ MaxFaults \in Nat
           /\ Never = -1
BY DEF Assumptions, AlertAssumption, Never

\* An incident is found under its source.
LEMMA KeysName ==
    /\ \A k \in Key : k = KeyOf(k[1]) /\ k[1] \in Sources
    /\ \A s \in Sources : KeyOf(s) \in Key /\ KeyOf(s)[1] = s
BY DEF Key, KeyOf

\* And so is a problem.
LEMMA ProblemsName ==
    ASSUME NEW p \in Problem
    PROVE  /\ SourceIncidentKey(p) = KeyOf(p[1]) /\ p[1] \in Sources /\ p # NoProblem
           /\ SourceIncidentKey(p) \in Key /\ SourceIncidentKey(p)[1] = p[1]
BY DEF Problem, NoProblem, SourceIncidentKey, Key, KeyOf

\* What With and Without do with a dictionary.
LEMMA WithEntry ==
    ASSUME NEW dict, IsDict(dict), NEW k \in Key, NEW i \in Incident
    PROVE  /\ IsDict(With(dict, k, i))
           /\ DOMAIN With(dict, k, i) = DOMAIN dict \union {k}
           /\ With(dict, k, i)[k] = i
           /\ \A x \in DOMAIN dict \ {k} : With(dict, k, i)[x] = dict[x]
<1>1. /\ DOMAIN With(dict, k, i) = DOMAIN dict \union {k}
      /\ With(dict, k, i)[k] = i
      /\ \A x \in DOMAIN dict \ {k} : With(dict, k, i)[x] = dict[x]
  BY DEF With
<1>2. ASSUME NEW x \in DOMAIN With(dict, k, i) PROVE x \in Key /\ With(dict, k, i)[x] \in Incident
  BY <1>1 DEF IsDict
<1> QED BY <1>1, <1>2 DEF IsDict

\* What is dropped is gone, and the rest is the same.
LEMMA WithoutEntries ==
    ASSUME NEW dict, IsDict(dict), NEW keys
    PROVE  /\ IsDict(Without(dict, keys))
           /\ DOMAIN Without(dict, keys) = DOMAIN dict \ keys
           /\ \A x \in DOMAIN dict \ keys : Without(dict, keys)[x] = dict[x]
BY DEF Without, IsDict

\* No key, no incident.
LEMMA EmptyDict == IsDict(Empty) /\ DOMAIN Empty = {}
BY DEF IsDict, Empty

\* What an observation makes of an incident: a new one, or the same once more.
LEMMA CurrentIs ==
    ASSUME Assumptions, IsDict(incidents), NEW k \in Key
    PROVE  /\ Current(k) \in Incident /\ Current(k).good = 0 /\ Current(k).sameDay = TRUE
           /\ IF k \in DOMAIN incidents
              THEN /\ Current(k).opened = incidents[k].opened
                   /\ Current(k).notified = incidents[k].notified
                   /\ Current(k).attempt = incidents[k].attempt
              ELSE Current(k).opened = 0 /\ Current(k).notified = Never
                   /\ Current(k).attempt = Never
<1>1. CASE k \in DOMAIN incidents
  <2>1. incidents[k] \in Incident BY <1>1 DEF IsDict
  <2>2. Current(k) = [incidents[k] EXCEPT !.good = 0, !.sameDay = TRUE] BY <1>1 DEF Current
  <2>3. 0 \in 0 .. 2 /\ TRUE \in BOOLEAN OBVIOUS
  <2> QED BY <1>1, <2>1, <2>2, <2>3 DEF Incident
<1>2. CASE k \notin DOMAIN incidents
  <2>1. NewIncident \in Incident BY Intervals DEF NewIncident, Incident
  <2>2. Current(k) = [NewIncident EXCEPT !.good = 0, !.sameDay = TRUE] BY <1>2 DEF Current
  <2> QED BY <1>2, <2>1, <2>2 DEF NewIncident, Incident
<1> QED BY <1>1, <1>2

\* Noting the attempt changes nothing else.
LEMMA AttemptIs ==
    ASSUME Assumptions, NEW i \in Incident
    PROVE  LET j == [i EXCEPT !.attempt = 0] IN
           /\ j \in Incident /\ j.attempt = 0
           /\ j.opened = i.opened /\ j.notified = i.notified /\ j.good = i.good
           /\ j.sameDay = i.sameDay
BY Intervals DEF Incident

\* Ages grow up to their limit, keep their order, and Never stays so.
LEMMA AgesGrow ==
    ASSUME NEW limit \in Nat, NEW by \in Nat, NEW a \in Never .. limit
    PROVE  /\ Older(a, by, limit) \in Never .. limit
           /\ Older(a, by, limit) = Never <=> a = Never
           /\ \A b \in Never .. limit :
                a # Never /\ a <= b => Older(a, by, limit) <= Older(b, by, limit)
BY DEF Older, Never

\* An incident that has aged.
Aged(i, by, sameDay) ==
    [i EXCEPT !.opened = Older(@, by, Confirm), !.notified = Older(@, by, Repeat),
              !.attempt = Older(@, by, Retry), !.sameDay = @ /\ sameDay]

\* It is an incident, and its fields are older.
LEMMA AgedIs ==
    ASSUME Assumptions, NEW i \in Incident, NEW by \in Nat, NEW sameDay \in BOOLEAN
    PROVE  /\ Aged(i, by, sameDay) \in Incident
           /\ Aged(i, by, sameDay).opened = Older(i.opened, by, Confirm)
           /\ Aged(i, by, sameDay).notified = Older(i.notified, by, Repeat)
           /\ Aged(i, by, sameDay).attempt = Older(i.attempt, by, Retry)
           /\ Aged(i, by, sameDay).good = i.good
           /\ Aged(i, by, sameDay).sameDay = (i.sameDay /\ sameDay)
<1>1. /\ i.opened \in 0 .. Confirm /\ i.notified \in Never .. Repeat
      /\ i.attempt \in Never .. Retry /\ i.good \in 0 .. 2 /\ i.sameDay \in BOOLEAN
      /\ DOMAIN i = {"opened", "notified", "attempt", "good", "sameDay"}
      /\ i = [opened |-> i.opened, notified |-> i.notified, attempt |-> i.attempt,
              good |-> i.good, sameDay |-> i.sameDay]
  BY DEF Incident
<1>2. Older(i.opened, by, Confirm) \in 0 .. Confirm BY <1>1, Intervals DEF Older
<1>3. Older(i.notified, by, Repeat) \in Never .. Repeat BY <1>1, Intervals, AgesGrow
<1>4. Older(i.attempt, by, Retry) \in Never .. Retry BY <1>1, Intervals, AgesGrow
<1>5. (i.sameDay /\ sameDay) \in BOOLEAN OBVIOUS
<1>6. Aged(i, by, sameDay).opened = Older(i.opened, by, Confirm) BY DEF Aged, Incident
<1>7. Aged(i, by, sameDay).notified = Older(i.notified, by, Repeat) BY DEF Aged, Incident
<1>8. Aged(i, by, sameDay).attempt = Older(i.attempt, by, Retry) BY DEF Aged, Incident
<1>9. Aged(i, by, sameDay).good = i.good BY DEF Aged, Incident
<1>10. Aged(i, by, sameDay).sameDay = (i.sameDay /\ sameDay) BY DEF Aged, Incident
<1>11. Aged(i, by, sameDay) \in Incident
  BY <1>1, <1>2, <1>3, <1>4, <1>5 DEF Aged, Incident
<1> QED BY <1>6, <1>7, <1>8, <1>9, <1>10, <1>11

\* A dictionary that has aged.
LEMMA AgedEntries ==
    ASSUME Assumptions, NEW dict, IsDict(dict), NEW by \in Nat, NEW sameDay \in BOOLEAN
    PROVE  /\ IsDict(AgedBy(by, sameDay, dict))
           /\ DOMAIN AgedBy(by, sameDay, dict) = DOMAIN dict
           /\ \A k \in DOMAIN dict :
                AgedBy(by, sameDay, dict)[k] = Aged(dict[k], by, sameDay)
<1>1. AgedBy(by, sameDay, dict) = [k \in DOMAIN dict |-> Aged(dict[k], by, sameDay)]
  BY DEF AgedBy, Aged
<1>2. \A k \in DOMAIN dict : Aged(dict[k], by, sameDay) \in Incident BY AgedIs DEF IsDict
<1> QED BY <1>1, <1>2 DEF IsDict

\* Together they age as they should.
LEMMA EarnsLater ==
    ASSUME Assumptions, NEW i \in Incident, NEW age \in Never .. Confirm, NEW isToday,
           Earns(i, age, isToday)
    PROVE  Earns(Aged(i, 1, TRUE), Older(age, 1, Confirm), isToday)
<1>1. /\ i.opened \in 0 .. Confirm /\ i.notified \in Never .. Repeat /\ i.sameDay \in BOOLEAN
      /\ Never = -1 /\ Confirm \in Nat /\ Repeat \in Nat
  BY Intervals DEF Incident
<1>2. /\ Aged(i, 1, TRUE).opened = Older(i.opened, 1, Confirm)
      /\ Aged(i, 1, TRUE).notified = Never <=> i.notified = Never
      /\ Aged(i, 1, TRUE).sameDay = TRUE => i.sameDay = TRUE
  <2>1. /\ Aged(i, 1, TRUE).opened = Older(i.opened, 1, Confirm)
        /\ Aged(i, 1, TRUE).notified = Older(i.notified, 1, Repeat)
        /\ Aged(i, 1, TRUE).sameDay = (i.sameDay /\ TRUE)
    BY AgedIs
  <2>2. Older(i.notified, 1, Repeat) = Never <=> i.notified = Never BY <1>1, AgesGrow
  <2>3. Aged(i, 1, TRUE).sameDay = TRUE => i.sameDay = TRUE BY <1>1, <2>1
  <2> QED BY <2>1, <2>2, <2>3
<1>3. SUFFICES ASSUME Aged(i, 1, TRUE).sameDay = TRUE
               PROVE  IF Aged(i, 1, TRUE).notified = Never
                      THEN Aged(i, 1, TRUE).opened <= Older(age, 1, Confirm) ELSE isToday
  BY DEF Earns
<1>4. IF i.notified = Never THEN i.opened <= age ELSE isToday BY <1>2, <1>3 DEF Earns
<1>5. i.opened <= age => Older(i.opened, 1, Confirm) <= Older(age, 1, Confirm)
  BY <1>1, AgesGrow
<1> QED BY <1>2, <1>4, <1>5

\* The last attempt and the incident it belongs to age alike.
LEMMA SpacesLater ==
    ASSUME Assumptions, NEW i \in Incident, NEW age \in Never .. Retry, Spaces(i, age),
           NEW by \in {1, Repeat}, NEW sameDay \in BOOLEAN
    PROVE  Spaces(Aged(i, by, sameDay), Older(age, by, Retry))
<1>1. /\ i.opened \in 0 .. Confirm /\ i.notified \in Never .. Repeat /\ i.attempt \in Never .. Retry
      /\ Never = -1 /\ Confirm \in Nat /\ Repeat \in Nat /\ Retry \in Nat
      /\ 0 < Retry /\ Retry <= Confirm /\ Confirm <= Repeat /\ by \in Nat /\ 1 <= by
  BY Intervals DEF Incident
<1> DEFINE j == Aged(i, by, sameDay)
<1>2. /\ j.opened = Older(i.opened, by, Confirm)
      /\ j.notified = Older(i.notified, by, Repeat)
      /\ j.attempt = Older(i.attempt, by, Retry)
  BY <1>1, AgedIs
<1> HIDE DEF j
<1>3. (j.notified = Never <=> i.notified = Never) /\ (j.attempt = Never <=> i.attempt = Never)
      /\ (Older(age, by, Retry) = Never <=> age = Never)
  <2>1. Older(i.notified, by, Repeat) = Never <=> i.notified = Never BY <1>1, AgesGrow
  <2>2. Older(i.attempt, by, Retry) = Never <=> i.attempt = Never BY <1>1, AgesGrow
  <2>3. Older(age, by, Retry) = Never <=> age = Never BY <1>1, AgesGrow
  <2> QED BY <1>2, <2>1, <2>2, <2>3
<1>4. ASSUME age # Never, i.attempt # Never PROVE j.attempt <= Older(age, by, Retry)
  <2>1. i.attempt <= age BY <1>4 DEF Spaces
  <2>2. Older(i.attempt, by, Retry) <= Older(age, by, Retry)
    BY <1>1, <1>4, <2>1, AgesGrow
  <2> QED BY <1>2, <2>2
<1>5. ASSUME age # Never, i.attempt = Never
      PROVE  j.opened <= Older(age, by, Retry) \/ Retry <= Older(age, by, Retry)
  <2>1. i.opened <= age \/ Retry <= age BY <1>5 DEF Spaces
  <2>2. age \in 0 .. Retry /\ age \in Nat BY <1>1, <1>5
  <2>3. CASE age + by < Retry
    <3>1. i.opened <= age BY <1>1, <2>1, <2>2, <2>3
    <3>2. j.opened = i.opened + by BY <1>1, <1>2, <2>2, <2>3, <3>1 DEF Older
    <3>3. Older(age, by, Retry) = age + by BY <1>1, <2>2, <2>3 DEF Older
    <3> QED BY <1>1, <2>2, <3>1, <3>2, <3>3
  <2>4. CASE ~(age + by < Retry)
    <3>1. Older(age, by, Retry) = Retry BY <1>1, <2>2, <2>4 DEF Older
    <3> QED BY <1>1, <3>1
  <2> QED BY <2>3, <2>4
<1> QED BY <1>3, <1>4, <1>5 DEF Spaces, j

-----------------------------------------------------------------------------
(* The memory and the file.                                                *)

\* What the invariant says of a dictionary in memory, and of one in the file.
MemoryHolds(dict) ==
    /\ IsDict(dict)
    /\ \A k \in DOMAIN dict : Earns(dict[k], streak[k[1]], k[1] \in today)
    /\ \A k \in DOMAIN dict : Spaces(dict[k], attempted[k[1]])
    /\ \A k \in DOMAIN dict : dict[k].good <= wellFor[k[1]]
    /\ phase # "down" => \A s \in Sources : heard[s] # Never => Tells(dict, s)
FileHolds(dict) ==
    /\ IsDict(dict)
    /\ \A k \in DOMAIN dict : Spaces(dict[k], attempted[k[1]])
    /\ \A s \in Sources : heard[s] # Never /\ s \notin unsaved => Tells(dict, s)
    /\ phase = "down" =>
         \A k \in DOMAIN dict :
            /\ dict[k].sameDay = TRUE /\ dict[k].notified # Never => k[1] \in today
            /\ dict[k].good <= wellFor[k[1]]

\* The tick and the histories.
TickHolds ==
    /\ phase \in {"down", "idle", "problems", "sending"}
    /\ problems \subseteq Problem /\ rest \subseteq DOMAIN incidents
    /\ taken \in Problem \union {NoProblem}
    /\ taken # NoProblem <=> phase = "sending"
    /\ phase = "down" => incidents = Empty
    /\ crashes \in 0 .. MaxCrashes /\ faults \in 0 .. MaxFaults
    /\ TicksAreOver /\ OneDay /\ SendingIsNoted /\ DownIsSaved
HistoryHolds ==
    /\ streak \in [Sources -> Never .. Confirm] /\ attempted \in [Sources -> Never .. Retry]
    /\ heard \in [Sources -> Never .. Repeat] /\ wellFor \in [Sources -> 0 .. 3]
    /\ unsaved \subseteq Sources /\ today \subseteq Sources

\* The invariant, by what it speaks of.
LEMMA InvInParts ==
    AInv <=> TickHolds /\ HistoryHolds /\ MemoryHolds(incidents) /\ FileHolds(file)
BY DEF AInv, TypeOK, TickHolds, HistoryHolds, MemoryHolds, FileHolds, Earning, EarnedInFile,
       HeardIsKnown, Spacing, Recovering

\* The same of the next state.
LEMMA InvNext ==
    TickHolds' /\ HistoryHolds' /\ MemoryHolds(incidents)' /\ FileHolds(file)' => AInv'
BY DEF AInv, TypeOK, TickHolds, HistoryHolds, MemoryHolds, FileHolds, Earning, EarnedInFile,
       HeardIsKnown, Spacing, Recovering


\* A pause drops what nobody was told of, and sets back what counts good observations.
LEMMA PausedEntry ==
    ASSUME IsDict(incidents), NEW S \in SUBSET Sources, NEW k \in DOMAIN Paused(S)
    PROVE  /\ k \in DOMAIN incidents
           /\ k[1] \notin S \/ incidents[k].notified # Never
           /\ Paused(S)[k] \in Incident
           /\ Paused(S)[k].opened = incidents[k].opened
           /\ Paused(S)[k].notified = incidents[k].notified
           /\ Paused(S)[k].attempt = incidents[k].attempt
           /\ Paused(S)[k].sameDay = incidents[k].sameDay
           /\ Paused(S)[k].good = IF k[1] \in S THEN 0 ELSE incidents[k].good
<1>1. k \in DOMAIN incidents \ Pending(Under(S)) BY DEF Paused
<1>2. k \in DOMAIN incidents /\ incidents[k] \in Incident BY <1>1 DEF IsDict
<1>3. k[1] \notin S \/ incidents[k].notified # Never BY <1>1 DEF Pending, Under
<1>4. Paused(S)[k] = IF k[1] \in S THEN [incidents[k] EXCEPT !.good = 0] ELSE incidents[k]
  BY <1>1 DEF Paused
<1>5. CASE k[1] \in S BY <1>2, <1>3, <1>4, <1>5 DEF Incident
<1>6. CASE k[1] \notin S BY <1>2, <1>3, <1>4, <1>6
<1> QED BY <1>5, <1>6

\* It is a dictionary still.
LEMMA PausedEntries ==
    ASSUME IsDict(incidents), NEW S \in SUBSET Sources
    PROVE  /\ IsDict(Paused(S))
           /\ DOMAIN Paused(S) =
                {k \in DOMAIN incidents : k[1] \notin S \/ incidents[k].notified # Never}
<1>1. DOMAIN Paused(S) = {k \in DOMAIN incidents : k[1] \notin S \/ incidents[k].notified # Never}
  BY DEF Paused, Pending, Under
<1>2. \A k \in DOMAIN Paused(S) : Paused(S)[k] \in Incident BY PausedEntry
<1> QED BY <1>1, <1>2 DEF IsDict

\* What is left after a pause is as the invariant wants it.
LEMMA PausedHolds ==
    ASSUME HistoryHolds, MemoryHolds(incidents), NEW S \in SUBSET Sources, Interrupted(S)
    PROVE  \A k \in DOMAIN Paused(S) :
              /\ Earns(Paused(S)[k], streak'[k[1]], k[1] \in today)
              /\ Spaces(Paused(S)[k], attempted[k[1]])
              /\ Paused(S)[k].good <= wellFor'[k[1]]
<1>1. SUFFICES ASSUME NEW k \in DOMAIN Paused(S)
               PROVE  /\ Earns(Paused(S)[k], streak'[k[1]], k[1] \in today)
                      /\ Spaces(Paused(S)[k], attempted[k[1]])
                      /\ Paused(S)[k].good <= wellFor'[k[1]]
  OBVIOUS
<1>2. IsDict(incidents) BY DEF MemoryHolds
<1>3. /\ k \in DOMAIN incidents
      /\ k[1] \notin S \/ incidents[k].notified # Never
      /\ Paused(S)[k].opened = incidents[k].opened
      /\ Paused(S)[k].notified = incidents[k].notified
      /\ Paused(S)[k].attempt = incidents[k].attempt
      /\ Paused(S)[k].sameDay = incidents[k].sameDay
      /\ Paused(S)[k].good = IF k[1] \in S THEN 0 ELSE incidents[k].good
  BY <1>1, <1>2, PausedEntry
<1>4. k[1] \in Sources /\ incidents[k] \in Incident BY <1>2, <1>3, KeysName DEF IsDict
<1>5. /\ Earns(incidents[k], streak[k[1]], k[1] \in today)
      /\ Spaces(incidents[k], attempted[k[1]])
      /\ incidents[k].good <= wellFor[k[1]]
  BY <1>3 DEF MemoryHolds
<1>6. /\ streak'[k[1]] = IF k[1] \in S THEN Never ELSE streak[k[1]]
      /\ wellFor'[k[1]] = IF k[1] \in S THEN 0 ELSE wellFor[k[1]]
  BY <1>4 DEF Interrupted
<1>7. Earns(Paused(S)[k], streak'[k[1]], k[1] \in today) BY <1>3, <1>5, <1>6 DEF Earns
<1>8. Spaces(Paused(S)[k], attempted[k[1]]) BY <1>3, <1>5 DEF Spaces
<1>9. Paused(S)[k].good <= wellFor'[k[1]] BY <1>3, <1>5, <1>6
<1> QED BY <1>7, <1>8, <1>9

\* A source that somebody was told of remains known.
LEMMA PausedTells ==
    ASSUME Assumptions, HistoryHolds, IsDict(incidents), NEW S \in SUBSET Sources,
           NEW s \in Sources, Tells(incidents, s)
    PROVE  Tells(Paused(S), s)
<1>1. KeyOf(s) \in DOMAIN incidents /\ incidents[KeyOf(s)].notified \in 0 .. heard[s]
  BY DEF Tells
<1>2. incidents[KeyOf(s)].notified # Never BY <1>1 DEF Never
<1>3. DOMAIN Paused(S) = {k \in DOMAIN incidents : k[1] \notin S \/ incidents[k].notified # Never}
  BY PausedEntries
<1>4. KeyOf(s) \in DOMAIN Paused(S) BY <1>1, <1>2, <1>3
<1>5. Paused(S)[KeyOf(s)].notified = incidents[KeyOf(s)].notified
  BY <1>4, PausedEntry
<1> QED BY <1>1, <1>4, <1>5 DEF Tells

\* A pause is an interruption of the history too.
LEMMA InterruptedHistory ==
    ASSUME Assumptions, HistoryHolds, NEW S \in SUBSET Sources, Interrupted(S)
    PROVE  streak' \in [Sources -> Never .. Confirm] /\ wellFor' \in [Sources -> 0 .. 3]
<1>1. Never \in Never .. Confirm /\ 0 \in 0 .. 3 BY Intervals
<1> QED BY <1>1 DEF HistoryHolds, Interrupted

\* A file that is not written stays sound, while the process lives and nobody hears more
\* than is unsaved.
LEMMA FileKept ==
    ASSUME FileHolds(file), file' = file, attempted' = attempted, unsaved \subseteq unsaved',
           phase' # "down",
           \A s \in Sources : heard'[s] \in {heard[s], Never} \/ s \in unsaved'
    PROVE  FileHolds(file)'
<1>1. \A s \in Sources : heard'[s] # Never /\ s \notin unsaved' => heard'[s] = heard[s]
  OBVIOUS
<1>2. \A s \in Sources : heard'[s] # Never /\ s \notin unsaved' =>
        KeyOf(s) \in DOMAIN file /\ file[KeyOf(s)].notified \in 0 .. heard'[s]
  BY <1>1 DEF FileHolds, Tells
<1> QED BY <1>2 DEF FileHolds, Tells

\* The file that has been written has what the process has.
LEMMA FileSaved ==
    ASSUME MemoryHolds(incidents)', file' = incidents', phase' # "down"
    PROVE  FileHolds(file)'
BY DEF MemoryHolds, FileHolds, Tells

\* When the file cannot be written the tick is over.
LEMMA TickIsOver ==
    ASSUME Assumptions, TickHolds, TickRaises, crashes' = crashes
    PROVE  TickHolds' /\ phase' # "down"
<1>1. /\ faults' \in 0 .. MaxFaults
      /\ phase' = "idle" /\ problems' = {} /\ rest' = {} /\ taken' = NoProblem
  BY Intervals DEF TickHolds, TickRaises
<1> QED
  BY <1>1 DEF TickHolds, TicksAreOver, OneDay, SendingIsNoted, DownIsSaved, NoProblem

-----------------------------------------------------------------------------
(* A lemma for each action.                                                *)

\* Loading drops what nobody was told of, so what is left was told and is in the file.
LEMMA StartKeeps ==
    ASSUME Assumptions, AInv, Start
    PROVE  AInv'
<1>1. TickHolds /\ HistoryHolds /\ MemoryHolds(incidents) /\ FileHolds(file) BY InvInParts
<1>2. /\ phase = "down" /\ phase' = "idle" /\ file' = file
      /\ problems' = problems /\ rest' = rest /\ taken' = taken
      /\ crashes' = crashes /\ faults' = faults /\ streak' = streak
      /\ attempted' = attempted /\ heard' = heard /\ unsaved' = unsaved /\ today' = today
      /\ wellFor' = wellFor
  BY DEF Start, tick, bounds, history
<1>3. /\ DOMAIN incidents' = {k \in DOMAIN file : file[k].notified # Never}
      /\ \A k \in DOMAIN incidents' : incidents'[k] = file[k]
  BY DEF Start, KeepOnLoad
<1>4. TickHolds'
  BY <1>1, <1>2 DEF TickHolds, TicksAreOver, OneDay, SendingIsNoted, DownIsSaved
<1>5. HistoryHolds' BY <1>1, <1>2 DEF HistoryHolds
<1>6. MemoryHolds(incidents)'
  <2>1. IsDict(incidents)' BY <1>1, <1>3 DEF FileHolds, IsDict
  <2>2. \A k \in DOMAIN incidents' : Earns(incidents'[k], streak'[k[1]], k[1] \in today')
    BY <1>1, <1>2, <1>3 DEF FileHolds, Earns
  <2>3. \A k \in DOMAIN incidents' : Spaces(incidents'[k], attempted'[k[1]])
    BY <1>1, <1>2, <1>3 DEF FileHolds
  <2>4. \A k \in DOMAIN incidents' : incidents'[k].good <= wellFor'[k[1]]
    BY <1>1, <1>2, <1>3 DEF FileHolds
  <2>5. ASSUME NEW s \in Sources, heard'[s] # Never PROVE Tells(incidents, s)'
    <3>1. Tells(file, s) BY <1>1, <1>2, <2>5 DEF FileHolds, TickHolds, DownIsSaved
    <3>2. KeyOf(s) \in DOMAIN file /\ file[KeyOf(s)].notified \in 0 .. heard[s] BY <3>1 DEF Tells
    <3>3. file[KeyOf(s)].notified # Never BY <3>2 DEF Never
    <3> QED BY <1>2, <1>3, <3>2, <3>3 DEF Tells, KeyOf
  <2> QED BY <2>1, <2>2, <2>3, <2>4, <2>5 DEF MemoryHolds, Earns, Spaces
<1>7. FileHolds(file)'
  BY <1>1, <1>2 DEF FileHolds, Tells
<1> QED BY <1>4, <1>5, <1>6, <1>7, InvNext

\* Nothing is known where nothing could be read, and nothing was heard of it.
LEMMA StartUnreadKeeps ==
    ASSUME Assumptions, AInv, StartUnread
    PROVE  AInv'
<1>1. TickHolds /\ HistoryHolds /\ MemoryHolds(incidents) /\ FileHolds(file) BY InvInParts
<1>2. /\ phase = "down" /\ phase' = "idle" /\ incidents' = Empty /\ file' = file
      /\ problems' = problems /\ rest' = rest /\ taken' = taken
      /\ crashes' = crashes /\ faults < MaxFaults /\ faults' = faults + 1
      /\ streak' = streak /\ attempted' = attempted /\ unsaved' = unsaved
      /\ today' = today /\ wellFor' = wellFor
      /\ heard' = [s \in Sources |-> Never]
  BY DEF StartUnread, tick
<1>3. \A s \in Sources : heard'[s] = Never BY <1>2
<1>4. TickHolds'
  <2>1. faults' \in 0 .. MaxFaults BY <1>1, <1>2, Intervals DEF TickHolds
  <2>2. problems' = {} /\ rest' = {} /\ taken' = NoProblem
    BY <1>1, <1>2 DEF TickHolds, TicksAreOver
  <2> QED
    BY <1>1, <1>2, <2>1, <2>2
    DEF TickHolds, TicksAreOver, OneDay, SendingIsNoted, DownIsSaved, NoProblem
<1>5. HistoryHolds'
  <2>1. Never \in Never .. Repeat BY Intervals
  <2>2. heard' \in [Sources -> Never .. Repeat] BY <1>2, <2>1
  <2> QED BY <1>1, <1>2, <2>2 DEF HistoryHolds
<1>6. MemoryHolds(incidents)' BY <1>2, <1>3, EmptyDict DEF MemoryHolds
<1>7. FileHolds(file)' BY <1>1, <1>2, <1>3 DEF FileHolds
<1> QED BY <1>4, <1>5, <1>6, <1>7, InvNext

\* Pausing the whole scope, whether or not the file is written.
LEMMA PauseKeeps ==
    ASSUME Assumptions, AInv, Pause
    PROVE  AInv'
<1>1. TickHolds /\ HistoryHolds /\ MemoryHolds(incidents) /\ FileHolds(file) BY InvInParts
<1>2. /\ phase = "idle" /\ incidents' = Paused(Sources) /\ Interrupted(Sources)
      /\ crashes' = crashes /\ attempted' = attempted /\ heard' = heard /\ today' = today
  BY DEF Pause
<1>3. IsDict(incidents) BY <1>1 DEF MemoryHolds
<1>4. MemoryHolds(incidents)' \/ phase' = "down"
  <2>1. IsDict(Paused(Sources)) BY <1>3, PausedEntries
  <2>2. \A k \in DOMAIN incidents' :
           /\ Earns(incidents'[k], streak'[k[1]], k[1] \in today')
           /\ Spaces(incidents'[k], attempted'[k[1]])
           /\ incidents'[k].good <= wellFor'[k[1]]
    BY <1>1, <1>2, PausedHolds
  <2>3. ASSUME NEW s \in Sources, heard'[s] # Never PROVE Tells(incidents, s)'
    <3>1. Tells(incidents, s) BY <1>1, <1>2, <2>3 DEF MemoryHolds
    <3>2. Tells(Paused(Sources), s) BY <1>1, <1>3, <3>1, PausedTells
    <3> QED BY <1>2, <3>2 DEF Tells
  <2> QED BY <1>2, <2>1, <2>2, <2>3 DEF MemoryHolds, IsDict, Earns, Spaces
<1>5. HistoryHolds'
  <2>1. streak' \in [Sources -> Never .. Confirm] /\ wellFor' \in [Sources -> 0 .. 3]
    BY <1>1, <1>2, InterruptedHistory
  <2>2. unsaved' \in {unsaved, {}} BY DEF Pause, Save, SaveRaises
  <2> QED BY <1>1, <1>2, <2>1, <2>2 DEF HistoryHolds
<1>6. CASE /\ IF incidents' # incidents THEN Save(incidents') ELSE UNCHANGED <<file, unsaved, faults>>
           /\ UNCHANGED <<phase, tick>>
  <2>1. /\ phase' = phase /\ problems' = problems /\ rest' = rest /\ taken' = taken
        /\ faults' = faults
    BY <1>6 DEF tick, Save
  <2>2. TickHolds'
    BY <1>1, <1>2, <2>1 DEF TickHolds, TicksAreOver, OneDay, SendingIsNoted, DownIsSaved
  <2>3. MemoryHolds(incidents)' BY <1>2, <1>4, <2>1
  <2>4. CASE incidents' # incidents
    <3>1. file' = incidents' BY <1>6, <2>4 DEF Save
    <3> QED BY <1>2, <1>5, <2>1, <2>2, <2>3, <3>1, FileSaved, InvNext
  <2>5. CASE incidents' = incidents
    <3>1. file' = file /\ unsaved' = unsaved BY <1>6, <2>5
    <3>2. FileHolds(file)' BY <1>1, <1>2, <2>1, <3>1, FileKept
    <3> QED BY <1>5, <2>2, <2>3, <3>2, InvNext
  <2> QED BY <2>4, <2>5
<1>7. CASE SaveRaises
  <2>1. TickHolds' /\ phase' # "down" /\ file' = file /\ unsaved' = unsaved
    BY <1>1, <1>2, <1>7, TickIsOver DEF SaveRaises
  <2>2. FileHolds(file)' BY <1>1, <1>2, <2>1, FileKept
  <2> QED BY <1>4, <1>5, <2>1, <2>2, InvNext
<1> QED BY <1>6, <1>7 DEF Pause

\* Two incidents of a source are one: what was told of the source was told of that one.
LEMMA ToldIs ==
    ASSUME IsDict(incidents'), NEW s \in Sources, Told(s)
    PROVE  KeyOf(s) \in DOMAIN incidents' /\ incidents'[KeyOf(s)].notified # Never
<1>1. PICK k \in DOMAIN incidents' : k[1] = s /\ incidents'[k].notified # Never BY DEF Told
<1>2. k = KeyOf(s) BY <1>1, KeysName DEF IsDict
<1> QED BY <1>1, <1>2

\* The pause that cannot be written ends the tick; those before it are in the file.
LEMMA PauseRaisesKeeps ==
    ASSUME Assumptions, AInv, NEW S \in SUBSET Sources, NEW t \in Sources,
           phase = "idle", PauseRaises(S, t),
           heard' = [s \in Sources |-> IF Told(s) THEN heard[s] ELSE Never],
           crashes' = crashes, attempted' = attempted, today' = today
    PROVE  AInv'
<1>1. TickHolds /\ HistoryHolds /\ MemoryHolds(incidents) /\ FileHolds(file) BY InvInParts
<1> DEFINE T == S \union {t}
<1>2. /\ T \in SUBSET Sources /\ incidents' = Paused(T) /\ Interrupted(T) /\ TickRaises
      /\ IF Paused(S) # incidents THEN file' = Paused(S) /\ unsaved' = {}
         ELSE file' = file /\ unsaved' = unsaved
  BY DEF PauseRaises
<1> HIDE DEF T
<1>3. IsDict(incidents) BY <1>1 DEF MemoryHolds
<1>4. TickHolds' /\ phase' # "down" BY <1>1, <1>2, TickIsOver
<1>5. \A s \in Sources : heard'[s] \in {heard[s], Never} OBVIOUS
<1>6. ASSUME NEW s \in Sources, heard'[s] # Never
      PROVE  heard'[s] = heard[s] /\ Tells(incidents, s)
  BY <1>1, <1>5, <1>6 DEF MemoryHolds, Never
<1>7. HistoryHolds'
  <2>1. streak' \in [Sources -> Never .. Confirm] /\ wellFor' \in [Sources -> 0 .. 3]
    BY <1>1, <1>2, InterruptedHistory
  <2>2. Never \in Never .. Repeat BY Intervals
  <2>3. heard' \in [Sources -> Never .. Repeat] BY <1>1, <2>2 DEF HistoryHolds
  <2> QED BY <1>1, <1>2, <2>1, <2>3 DEF HistoryHolds
<1>8. MemoryHolds(incidents)'
  <2>1. IsDict(Paused(T)) BY <1>2, <1>3, PausedEntries
  <2>2. \A k \in DOMAIN incidents' :
           /\ Earns(incidents'[k], streak'[k[1]], k[1] \in today')
           /\ Spaces(incidents'[k], attempted'[k[1]])
           /\ incidents'[k].good <= wellFor'[k[1]]
    BY <1>1, <1>2, PausedHolds
  <2>3. ASSUME NEW s \in Sources, heard'[s] # Never PROVE Tells(incidents, s)'
    <3>1. Tells(Paused(T), s) BY <1>1, <1>2, <1>3, <1>6, <2>3, PausedTells
    <3> QED BY <1>2, <1>6, <2>3, <3>1 DEF Tells
  <2> QED BY <1>2, <2>1, <2>2, <2>3 DEF MemoryHolds, IsDict, Earns, Spaces
<1>9. FileHolds(file)'
  <2>1. CASE Paused(S) # incidents
    <3>1. file' = Paused(S) BY <1>2, <2>1
    <3>2. IsDict(Paused(S)) BY <1>3, PausedEntries
    <3>3. \A k \in DOMAIN Paused(S) : Spaces(Paused(S)[k], attempted[k[1]])
      BY <1>1, <1>3, PausedEntry DEF MemoryHolds, Spaces
    <3>4. ASSUME NEW s \in Sources, heard'[s] # Never PROVE Tells(file, s)'
      <4>1. Tells(Paused(S), s) BY <1>1, <1>3, <1>6, <3>4, PausedTells
      <4> QED BY <1>6, <3>1, <3>4, <4>1 DEF Tells
    <3> QED BY <1>4, <3>1, <3>2, <3>3, <3>4 DEF FileHolds, IsDict, Spaces
  <2>2. CASE Paused(S) = incidents
    <3>1. file' = file /\ unsaved' = unsaved BY <1>2, <2>2
    <3> QED BY <1>1, <1>4, <1>5, <3>1, FileKept
  <2> QED BY <2>1, <2>2
<1> QED BY <1>4, <1>7, <1>8, <1>9, InvNext

\* A tick begins: pauses, the new business date, and what has been observed.
LEMMA BeginProblemsKeeps ==
    ASSUME Assumptions, AInv, NEW S \in SUBSET Sources, NEW bad \in SUBSET Problem,
           phase = "idle", BeginProblems(S, bad),
           heard' = [s \in Sources |-> IF Told(s) THEN heard[s] ELSE Never],
           crashes' = crashes, attempted' = attempted, today' = today
    PROVE  AInv'
<1>1. TickHolds /\ HistoryHolds /\ MemoryHolds(incidents) /\ FileHolds(file) BY InvInParts
<1> DEFINE kept == Paused(S)
           active == {p \in bad : p[1] \notin S}
<1>2. /\ phase = "idle" /\ incidents' = Without(kept, OfAnotherDay(kept)) /\ Interrupted(S)
      /\ heard' = [s \in Sources |-> IF Told(s) THEN heard[s] ELSE Never]
      /\ crashes' = crashes /\ attempted' = attempted /\ today' = today
  BY DEF BeginProblems
<1>3. IsDict(incidents) BY <1>1 DEF MemoryHolds
<1>4. IsDict(kept) BY <1>3, PausedEntries
<1>5. \A k \in DOMAIN kept :
         /\ Earns(kept[k], streak'[k[1]], k[1] \in today')
         /\ Spaces(kept[k], attempted'[k[1]])
         /\ kept[k].good <= wellFor'[k[1]]
  BY <1>1, <1>2, PausedHolds
<1> HIDE DEF kept
<1>6. /\ IsDict(incidents')
      /\ DOMAIN incidents' = DOMAIN kept \ OfAnotherDay(kept)
      /\ \A k \in DOMAIN incidents' : k \in DOMAIN kept /\ incidents'[k] = kept[k]
  <2> DEFINE left == Without(kept, OfAnotherDay(kept))
  <2>1. IsDict(left) BY <1>4, WithoutEntries
  <2>2. DOMAIN left = DOMAIN kept \ OfAnotherDay(kept) BY <1>4, WithoutEntries
  <2>3. \A k \in DOMAIN kept \ OfAnotherDay(kept) : left[k] = kept[k]
    BY <1>4, WithoutEntries
  <2>4. incidents' = left BY <1>2
  <2> HIDE DEF left
  <2> QED BY <2>1, <2>2, <2>3, <2>4
<1>7. \A k \in DOMAIN incidents' : incidents'[k].sameDay = TRUE
  <2>1. SUFFICES ASSUME NEW k \in DOMAIN incidents' PROVE incidents'[k].sameDay = TRUE OBVIOUS
  <2>2. incidents'[k] \in Incident BY <1>6 DEF IsDict
  <2>3. ~ ~kept[k].sameDay BY <1>6 DEF OfAnotherDay
  <2>4. incidents'[k].sameDay \in BOOLEAN BY <2>2 DEF Incident
  <2>5. incidents'[k] = kept[k] BY <1>6
  <2> QED BY <2>3, <2>4, <2>5
<1>8. ASSUME NEW s \in Sources, heard'[s] # Never
      PROVE  /\ KeyOf(s) \in DOMAIN kept /\ kept[KeyOf(s)].notified \in 0 .. heard'[s]
             /\ KeyOf(s) \in DOMAIN incidents'
  <2>1. Told(s) /\ heard'[s] = heard[s] BY <1>2, <1>8
  <2>2. Tells(incidents, s) BY <1>1, <1>2, <1>8, <2>1 DEF MemoryHolds
  <2>3. Tells(kept, s) BY <1>1, <1>3, <2>2, PausedTells DEF kept
  <2>4. KeyOf(s) \in DOMAIN incidents' BY <1>6, <2>1, ToldIs
  <2> QED BY <2>1, <2>3, <2>4 DEF Tells
<1>9. phase' # "down" => MemoryHolds(incidents)'
  <2>1. \A k \in DOMAIN incidents' :
           /\ Earns(incidents'[k], streak'[k[1]], k[1] \in today')
           /\ Spaces(incidents'[k], attempted'[k[1]])
           /\ incidents'[k].good <= wellFor'[k[1]]
    BY <1>5, <1>6
  <2>2. \A s \in Sources : heard'[s] # Never => Tells(incidents, s)'
    BY <1>6, <1>8 DEF Tells, KeyOf
  <2> QED BY <1>6, <2>1, <2>2 DEF MemoryHolds, IsDict, Earns, Spaces
<1>10. unsaved' \in {unsaved, {}} => HistoryHolds'
  <2>1. streak' \in [Sources -> Never .. Confirm] /\ wellFor' \in [Sources -> 0 .. 3]
    BY <1>1, <1>2, InterruptedHistory
  <2>2. heard' \in [Sources -> Never .. Repeat]
    <3>1. Never \in Never .. Repeat BY Intervals
    <3> QED BY <1>1, <1>2, <3>1 DEF HistoryHolds
  <2> QED BY <1>1, <1>2, <2>1, <2>2 DEF HistoryHolds
<1>11. \A s \in Sources : heard'[s] \in {heard[s], Never} BY <1>2
<1>12. /\ IF kept # incidents THEN Save(kept) ELSE UNCHANGED <<file, unsaved, faults>>
       /\ phase' = "problems" /\ problems' = active /\ taken' = taken
       /\ rest' = {k \in DOMAIN incidents' \ {SourceIncidentKey(p) : p \in active} :
                       k[1] \notin S}
  BY DEF BeginProblems, kept
<1>13. TickHolds'
  <2>1. faults' = faults /\ rest' \subseteq DOMAIN incidents' /\ problems' \subseteq Problem
    BY <1>12 DEF Save
  <2>2. taken' = NoProblem BY <1>1, <1>2, <1>12 DEF TickHolds
  <2> QED BY <1>1, <1>2, <1>7, <1>12, <2>1, <2>2
          DEF TickHolds, TicksAreOver, OneDay, SendingIsNoted, DownIsSaved
<1>14. MemoryHolds(incidents)' BY <1>9, <1>12
<1>15. CASE kept # incidents
  <2>1. file' = kept /\ unsaved' = {} BY <1>12, <1>15 DEF Save
  <2>2. FileHolds(file)'
    BY <1>4, <1>5, <1>8, <1>12, <2>1 DEF FileHolds, Tells, IsDict, KeyOf, Earns, Spaces
  <2> QED BY <1>10, <1>13, <1>14, <2>1, <2>2, InvNext
<1>16. CASE kept = incidents
  <2>1. file' = file /\ unsaved' = unsaved BY <1>12, <1>16
  <2>2. FileHolds(file)' BY <1>1, <1>2, <1>11, <1>12, <2>1, FileKept
  <2> QED BY <1>10, <1>13, <1>14, <2>1, <2>2, InvNext
<1> QED BY <1>15, <1>16

\* Either all the pauses are written, or one of them is not.
LEMMA ReconcileKeeps ==
    ASSUME Assumptions, AInv, NEW S \in SUBSET Sources, NEW bad \in SUBSET Problem,
           Reconcile(S, bad)
    PROVE  AInv'
<1>1. /\ phase = "idle"
      /\ heard' = [s \in Sources |-> IF Told(s) THEN heard[s] ELSE Never]
      /\ crashes' = crashes /\ attempted' = attempted /\ today' = today
  BY DEF Reconcile
<1>2. CASE BeginProblems(S, bad) BY <1>1, <1>2, BeginProblemsKeeps
<1>3. ASSUME NEW t \in S, NEW done \in SUBSET (S \ {t}), PauseRaises(done, t)
      PROVE  AInv'
  <2>1. t \in Sources /\ done \in SUBSET Sources OBVIOUS
  <2> QED BY <1>1, <1>3, <2>1, PauseRaisesKeeps
<1> QED BY <1>2, <1>3 DEF Reconcile

\* What Note and Attempt do when they come to problem p: they write incident i.
Writes(p, i) ==
    LET k == KeyOf(p[1]) IN
    /\ phase = "problems" /\ phase' # "down"
    /\ Observed(p[1]) /\ today' = today /\ heard' = heard
    /\ i \in Incident /\ i.good = 0 /\ i.sameDay = TRUE
    /\ i.opened = Current(k).opened /\ i.notified = Current(k).notified
    /\ i.attempt \in {Current(k).attempt, 0}
    /\ incidents' = With(incidents, k, i)
    /\ \/ attempted' = attempted
       \/ i.attempt = 0 /\ attempted' = [attempted EXCEPT ![p[1]] = 0]

\* An observation leaves the dictionary and the history as the invariant wants them.
LEMMA ObservedHolds ==
    ASSUME Assumptions, AInv, NEW p \in problems, NEW i, Writes(p, i)
    PROVE  /\ MemoryHolds(incidents)'
           /\ streak' \in [Sources -> Never .. Confirm] /\ wellFor' \in [Sources -> 0 .. 3]
           /\ attempted' \in [Sources -> Never .. Retry]
           /\ DOMAIN incidents' = DOMAIN incidents \union {KeyOf(p[1])}
           /\ incidents'[KeyOf(p[1])] = i
           /\ \A k \in DOMAIN incidents' : incidents'[k].sameDay = TRUE
<1>1. TickHolds /\ HistoryHolds /\ MemoryHolds(incidents) /\ FileHolds(file) BY InvInParts
<1> DEFINE s == p[1]
           k == KeyOf(s)
<1>2. s \in Sources /\ k \in Key /\ k[1] = s
  <2>1. p \in Problem BY <1>1 DEF TickHolds
  <2> QED BY <2>1, ProblemsName, KeysName
<1>3. IsDict(incidents) BY <1>1 DEF MemoryHolds
<1>4. /\ streak' = [streak EXCEPT ![s] = IF @ = Never THEN 0 ELSE @]
      /\ wellFor' = [wellFor EXCEPT ![s] = 0]
  BY DEF Observed, Writes
<1> HIDE DEF s, k
<1>0. /\ phase = "problems" /\ phase' # "down" /\ today' = today /\ heard' = heard
      /\ i \in Incident /\ i.good = 0 /\ i.sameDay = TRUE
      /\ i.opened = Current(k).opened /\ i.notified = Current(k).notified
      /\ i.attempt \in {Current(k).attempt, 0}
      /\ incidents' = With(incidents, k, i)
      /\ \/ attempted' = attempted
         \/ i.attempt = 0 /\ attempted' = [attempted EXCEPT ![s] = 0]
  BY DEF Writes, k, s
<1>5. streak' \in [Sources -> Never .. Confirm] /\ wellFor' \in [Sources -> 0 .. 3]
  <2>1. 0 \in Never .. Confirm /\ 0 \in 0 .. 3 BY Intervals
  <2> QED BY <1>1, <1>2, <1>4, <2>1 DEF HistoryHolds
<1>6. attempted' \in [Sources -> Never .. Retry]
  <2>1. 0 \in Never .. Retry BY Intervals
  <2> QED BY <1>0, <1>1, <1>2, <2>1 DEF HistoryHolds
<1>7. /\ IsDict(incidents')
      /\ DOMAIN incidents' = DOMAIN incidents \union {k}
      /\ incidents'[k] = i
      /\ \A x \in DOMAIN incidents \ {k} : incidents'[x] = incidents[x]
  <2> DEFINE new == With(incidents, k, i)
  <2>0. k \in Key /\ i \in Incident BY <1>0, <1>2
  <2>1. IsDict(new) BY <1>3, <2>0, WithEntry
  <2>4. DOMAIN new = DOMAIN incidents \union {k} BY <1>3, <2>0, WithEntry
  <2>5. new[k] = i BY DEF With
  <2>2. \A x \in DOMAIN incidents \ {k} : new[x] = incidents[x] BY DEF With
  <2>3. incidents' = new BY <1>0
  <2> HIDE DEF new
  <2> QED BY <2>1, <2>2, <2>3, <2>4, <2>5
<1>8. \A x \in DOMAIN incidents : x \in Key /\ incidents[x].sameDay = TRUE
  BY <1>0, <1>1, <1>3 DEF TickHolds, OneDay, IsDict
<1>9. ASSUME NEW x \in DOMAIN incidents \ {k}
      PROVE  /\ x[1] \in Sources /\ x[1] # s
             /\ streak'[x[1]] = streak[x[1]] /\ wellFor'[x[1]] = wellFor[x[1]]
             /\ attempted'[x[1]] = attempted[x[1]]
  <2>1. x \in Key /\ x # k BY <1>8
  <2>2. x[1] \in Sources /\ x = KeyOf(x[1]) BY <2>1, KeysName
  <2>3. x[1] # s BY <2>1, <2>2 DEF k
  <2> QED BY <1>0, <1>1, <1>2, <1>4, <2>2, <2>3 DEF HistoryHolds
<1>10. /\ wellFor'[s] = 0
       /\ streak'[s] = IF streak[s] = Never THEN 0 ELSE streak[s]
       /\ streak[s] \in Never .. Confirm /\ streak'[s] \in 0 .. Confirm
       /\ attempted'[s] \in {attempted[s], 0} /\ attempted[s] \in Never .. Retry
       /\ attempted'[s] # attempted[s] => i.attempt = 0
  <2>1. streak[s] \in Never .. Confirm /\ attempted[s] \in Never .. Retry
    BY <1>1, <1>2 DEF HistoryHolds
  <2>2. wellFor'[s] = 0 /\ streak'[s] = IF streak[s] = Never THEN 0 ELSE streak[s]
    BY <1>1, <1>2, <1>4 DEF HistoryHolds
  <2>3. streak'[s] \in 0 .. Confirm BY <2>1, <2>2, Intervals
  <2>4. attempted'[s] \in {attempted[s], 0} /\ (attempted'[s] # attempted[s] => i.attempt = 0)
    BY <1>0, <1>1, <1>2 DEF HistoryHolds
  <2> QED BY <2>1, <2>2, <2>3, <2>4
<1>11. Earns(i, streak'[s], s \in today) /\ Spaces(i, attempted'[s])
  <2>1. CASE k \in DOMAIN incidents
    <3>1. /\ i.opened = incidents[k].opened /\ i.notified = incidents[k].notified
          /\ i.attempt \in {incidents[k].attempt, 0}
      BY <1>0, <1>2, <1>3, <2>1, CurrentIs
    <3>2. /\ Earns(incidents[k], streak[s], s \in today) /\ Spaces(incidents[k], attempted[s])
          /\ incidents[k].sameDay = TRUE
      BY <1>1, <1>2, <1>8, <2>1 DEF MemoryHolds
    <3>3. /\ incidents[k].opened \in 0 .. Confirm /\ incidents[k].attempt \in Never .. Retry
      BY <1>3, <2>1 DEF IsDict, Incident
    <3>4. Earns(i, streak'[s], s \in today)
      <4>1. CASE i.notified = Never
        <5>1. incidents[k].opened <= streak[s] BY <3>1, <3>2, <4>1 DEF Earns
        <5> QED BY <1>10, <3>1, <3>3, <4>1, <5>1, Intervals DEF Earns
      <4>2. CASE i.notified # Never BY <3>1, <3>2, <4>2 DEF Earns
      <4> QED BY <4>1, <4>2
    <3>5. Spaces(i, attempted'[s])
      BY <1>10, <3>1, <3>2, <3>3, Intervals DEF Spaces
    <3> QED BY <3>4, <3>5
  <2>2. CASE k \notin DOMAIN incidents
    <3>1. i.opened = 0 /\ i.notified = Never /\ i.attempt \in {Never, 0}
      BY <1>0, <1>2, <1>3, <2>2, CurrentIs
    <3> QED BY <1>10, <3>1, Intervals DEF Earns, Spaces
  <2> QED BY <2>1, <2>2
<1>12. ASSUME NEW x \in DOMAIN incidents'
       PROVE  /\ Earns(incidents'[x], streak'[x[1]], x[1] \in today')
              /\ Spaces(incidents'[x], attempted'[x[1]])
              /\ incidents'[x].good <= wellFor'[x[1]]
              /\ incidents'[x].sameDay = TRUE
  <2>1. CASE x = k BY <1>0, <1>2, <1>7, <1>10, <1>11, <2>1
  <2>2. CASE x # k
    <3>1. x \in DOMAIN incidents \ {k} BY <1>7, <2>2
    <3>2. /\ Earns(incidents[x], streak[x[1]], x[1] \in today)
          /\ Spaces(incidents[x], attempted[x[1]])
          /\ incidents[x].good <= wellFor[x[1]]
      BY <1>1, <3>1 DEF MemoryHolds
    <3> QED BY <1>0, <1>7, <1>8, <1>9, <3>1, <3>2
  <2> QED BY <2>1, <2>2
<1>13. ASSUME NEW t \in Sources, heard'[t] # Never PROVE Tells(incidents, t)'
  <2>1. KeyOf(t) \in DOMAIN incidents /\ incidents[KeyOf(t)].notified \in 0 .. heard[t]
    BY <1>0, <1>1, <1>13 DEF MemoryHolds, Tells
  <2>2. KeyOf(t) \in DOMAIN incidents' /\ incidents'[KeyOf(t)].notified = incidents[KeyOf(t)].notified
    <3>1. CASE KeyOf(t) = k
      <4>1. i.notified = incidents[k].notified
        BY <1>0, <1>2, <1>3, <2>1, <3>1, CurrentIs
      <4> QED BY <1>7, <3>1, <4>1
    <3>2. CASE KeyOf(t) # k BY <1>7, <2>1, <3>2
    <3> QED BY <3>1, <3>2
  <2> QED BY <1>0, <2>1, <2>2 DEF Tells, KeyOf
<1>14. MemoryHolds(incidents)' BY <1>7, <1>12, <1>13 DEF MemoryHolds, IsDict, Earns, Spaces
<1> QED BY <1>5, <1>6, <1>7, <1>12, <1>14 DEF k, s

\* A problem that is not told changes its incident only.
LEMMA NoteKeeps ==
    ASSUME Assumptions, AInv, Note
    PROVE  AInv'
<1>1. TickHolds /\ HistoryHolds /\ MemoryHolds(incidents) /\ FileHolds(file) BY InvInParts
<1>2. /\ phase = "problems" /\ phase' = phase /\ file' = file /\ rest' = rest /\ taken' = taken
      /\ crashes' = crashes /\ faults' = faults /\ attempted' = attempted
      /\ heard' = heard /\ unsaved' = unsaved /\ today' = today
  BY DEF Note, bounds
<1>3. PICK p \in problems :
        /\ incidents' = With(incidents, SourceIncidentKey(p), Current(SourceIncidentKey(p)))
        /\ problems' = problems \ {p}
        /\ Observed(p[1])
  BY DEF Note
<1> DEFINE k == KeyOf(p[1])
<1>4. SourceIncidentKey(p) = k /\ k \in Key BY <1>1, ProblemsName DEF TickHolds
<1>5. Current(k) \in Incident /\ Current(k).good = 0 /\ Current(k).sameDay = TRUE
  BY <1>1, <1>4, CurrentIs DEF MemoryHolds
<1>6. incidents' = With(incidents, k, Current(k)) BY <1>3, <1>4
<1>7. /\ MemoryHolds(incidents)'
      /\ streak' \in [Sources -> Never .. Confirm] /\ wellFor' \in [Sources -> 0 .. 3]
      /\ DOMAIN incidents' = DOMAIN incidents \union {k}
      /\ \A x \in DOMAIN incidents' : incidents'[x].sameDay = TRUE
  <2>1. Writes(p, Current(k)) BY <1>2, <1>3, <1>5, <1>6 DEF Writes
  <2> QED BY <1>3, <2>1, ObservedHolds
<1>8. TickHolds'
  BY <1>1, <1>2, <1>3, <1>7 DEF TickHolds, TicksAreOver, OneDay, SendingIsNoted, DownIsSaved
<1>9. HistoryHolds' BY <1>1, <1>2, <1>7 DEF HistoryHolds
<1>10. FileHolds(file)' BY <1>1, <1>2, FileKept
<1> QED BY <1>7, <1>8, <1>9, <1>10, InvNext

\* An attempt is in the file before the message is sent.
LEMMA AttemptKeeps ==
    ASSUME Assumptions, AInv, Attempt
    PROVE  AInv'
<1>1. TickHolds /\ HistoryHolds /\ MemoryHolds(incidents) /\ FileHolds(file) BY InvInParts
<1>2. phase = "problems" /\ crashes' = crashes /\ heard' = heard /\ today' = today
  BY DEF Attempt
<1>3. PICK p \in problems :
        /\ incidents' = With(incidents, SourceIncidentKey(p),
                             [Current(SourceIncidentKey(p)) EXCEPT !.attempt = 0])
        /\ Observed(p[1])
        /\ \/ /\ SaveAttempt(incidents')
              /\ phase' = "sending" /\ taken' = p /\ problems' = problems \ {p}
              /\ attempted' = [attempted EXCEPT ![p[1]] = 0]
              /\ rest' = rest
           \/ SaveRaises /\ attempted' = attempted
  BY DEF Attempt
<1> DEFINE k == KeyOf(p[1])
           i == [Current(k) EXCEPT !.attempt = 0]
<1>4. p \in Problem /\ SourceIncidentKey(p) = k /\ k \in Key /\ p # NoProblem
  BY <1>1, ProblemsName DEF TickHolds
<1>5. Current(k) \in Incident /\ Current(k).good = 0 /\ Current(k).sameDay = TRUE
  BY <1>1, <1>4, CurrentIs DEF MemoryHolds
<1>6. /\ i \in Incident /\ i.attempt = 0 /\ i.good = 0 /\ i.sameDay = TRUE
      /\ i.opened = Current(k).opened /\ i.notified = Current(k).notified
  BY <1>5, AttemptIs
<1>7. incidents' = With(incidents, k, i) BY <1>3, <1>4
<1> HIDE DEF i
<1>8. phase' # "down" BY <1>3 DEF SaveRaises, TickRaises
<1>9. /\ MemoryHolds(incidents)'
      /\ streak' \in [Sources -> Never .. Confirm] /\ wellFor' \in [Sources -> 0 .. 3]
      /\ attempted' \in [Sources -> Never .. Retry]
      /\ DOMAIN incidents' = DOMAIN incidents \union {k}
      /\ incidents'[k] = i
      /\ \A x \in DOMAIN incidents' : incidents'[x].sameDay = TRUE
  <2>1. Writes(p, i) BY <1>2, <1>3, <1>6, <1>7, <1>8 DEF Writes
  <2> QED BY <1>3, <2>1, ObservedHolds
<1>10. CASE /\ SaveAttempt(incidents')
            /\ phase' = "sending" /\ taken' = p /\ problems' = problems \ {p}
            /\ attempted' = [attempted EXCEPT ![p[1]] = 0]
            /\ rest' = rest
  <2>1. file' = incidents' /\ unsaved' = {} /\ faults' = faults
    BY <1>10 DEF SaveAttempt, Save
  <2>2. SourceIncidentKey(taken') \in DOMAIN incidents' /\ incidents'[SourceIncidentKey(taken')].attempt # Never
    BY <1>4, <1>6, <1>9, <1>10, Intervals
  <2>3. TickHolds'
    BY <1>1, <1>2, <1>4, <1>9, <1>10, <2>1, <2>2
       DEF TickHolds, TicksAreOver, OneDay, SendingIsNoted, DownIsSaved, SourceIncidentKey
  <2>4. HistoryHolds' BY <1>1, <1>2, <1>9, <2>1 DEF HistoryHolds
  <2> QED BY <1>8, <1>9, <2>1, <2>3, <2>4, FileSaved, InvNext
<1>11. CASE SaveRaises /\ attempted' = attempted
  <2>1. TickHolds' /\ file' = file /\ unsaved' = unsaved BY <1>1, <1>2, <1>11, TickIsOver
    DEF SaveRaises
  <2>2. HistoryHolds' BY <1>1, <1>2, <1>9, <2>1 DEF HistoryHolds
  <2>3. FileHolds(file)' BY <1>1, <1>2, <1>8, <1>11, <2>1, FileKept
  <2> QED BY <1>9, <2>1, <2>2, <2>3, InvNext
<1> QED BY <1>3, <1>10, <1>11

\* A message that was sent is known to the process, and unsaved.
LEMMA SentKeeps ==
    ASSUME Assumptions, AInv, Sent
    PROVE  AInv'
<1>1. TickHolds /\ HistoryHolds /\ MemoryHolds(incidents) /\ FileHolds(file) BY InvInParts
<1> DEFINE s == taken[1]
           k == KeyOf(s)
<1>2. /\ phase = "sending" /\ phase' = "problems" /\ taken' = NoProblem
      /\ file' = file /\ problems' = problems /\ rest' = rest
      /\ crashes' = crashes /\ faults' = faults
      /\ streak' = streak /\ attempted' = attempted /\ wellFor' = wellFor
      /\ heard' = [heard EXCEPT ![s] = 0]
      /\ unsaved' = unsaved \union {s} /\ today' = today \union {s}
  BY DEF Sent, bounds
<1>3. taken \in Problem BY <1>1, <1>2 DEF TickHolds
<1>4. SourceIncidentKey(taken) = k /\ k \in Key /\ k[1] = s /\ s \in Sources
  BY <1>3, ProblemsName
<1>5. incidents' = [incidents EXCEPT ![k].notified = 0] BY <1>4 DEF Sent
<1>6. k \in DOMAIN incidents /\ incidents[k].attempt # Never
  BY <1>1, <1>2, <1>4 DEF TickHolds, SendingIsNoted
<1> HIDE DEF s, k
<1>7. IsDict(incidents) BY <1>1 DEF MemoryHolds
<1>8. incidents[k] \in Incident BY <1>6, <1>7 DEF IsDict
<1>9. /\ DOMAIN incidents' = DOMAIN incidents
      /\ incidents'[k] = [incidents[k] EXCEPT !.notified = 0]
      /\ \A x \in DOMAIN incidents \ {k} : incidents'[x] = incidents[x]
  BY <1>5, <1>6
<1>10. /\ incidents'[k] \in Incident
       /\ incidents'[k].notified = 0
       /\ incidents'[k].opened = incidents[k].opened
       /\ incidents'[k].attempt = incidents[k].attempt
       /\ incidents'[k].good = incidents[k].good
       /\ incidents'[k].sameDay = incidents[k].sameDay
  <2>1. 0 \in Never .. Repeat BY Intervals
  <2> QED BY <1>8, <1>9, <2>1 DEF Incident
<1>11. TickHolds'
  <2>1. \A x \in DOMAIN incidents' : incidents'[x].sameDay = TRUE
    BY <1>1, <1>2, <1>6, <1>9, <1>10 DEF TickHolds, OneDay
  <2> QED BY <1>1, <1>2, <1>9, <2>1
          DEF TickHolds, TicksAreOver, OneDay, SendingIsNoted, DownIsSaved
<1>12. HistoryHolds'
  <2>1. 0 \in Never .. Repeat BY Intervals
  <2> QED BY <1>1, <1>2, <1>4, <2>1 DEF HistoryHolds
<1>13. MemoryHolds(incidents)'
  <2>1. IsDict(incidents') BY <1>7, <1>9, <1>10 DEF IsDict
  <2>2. ASSUME NEW x \in DOMAIN incidents'
        PROVE  /\ Earns(incidents'[x], streak'[x[1]], x[1] \in today')
               /\ Spaces(incidents'[x], attempted'[x[1]])
               /\ incidents'[x].good <= wellFor'[x[1]]
    <3>1. /\ Earns(incidents[x], streak[x[1]], x[1] \in today)
          /\ Spaces(incidents[x], attempted[x[1]])
          /\ incidents[x].good <= wellFor[x[1]]
      BY <1>1, <1>9 DEF MemoryHolds
    <3>2. CASE x = k
      <4>1. Earns(incidents'[x], streak'[x[1]], x[1] \in today')
        BY <1>2, <1>4, <1>10, <3>2 DEF Earns, Never
      <4>2. Spaces(incidents'[x], attempted'[x[1]])
        BY <1>2, <1>6, <1>10, <3>1, <3>2 DEF Spaces
      <4> QED BY <1>2, <1>10, <3>1, <3>2, <4>1, <4>2
    <3>3. CASE x # k
      <4>1. incidents'[x] = incidents[x] BY <1>9, <3>3
      <4> QED BY <1>2, <3>1, <4>1 DEF Earns
    <3> QED BY <3>2, <3>3
  <2>3. ASSUME NEW t \in Sources, heard'[t] # Never PROVE Tells(incidents, t)'
    <3>1. CASE t = s
      <4>1. heard'[s] = 0 BY <1>1, <1>2, <1>4 DEF HistoryHolds
      <4>2. KeyOf(t) = k BY <3>1 DEF k
      <4>3. k \in DOMAIN incidents' /\ incidents'[k].notified \in 0 .. heard'[t]
        BY <1>6, <1>9, <1>10, <3>1, <4>1
      <4> QED BY <4>2, <4>3 DEF Tells, KeyOf
    <3>2. CASE t # s
      <4>1. heard'[t] = heard[t] BY <1>1, <1>2, <3>2 DEF HistoryHolds
      <4>2. KeyOf(t) \in DOMAIN incidents /\ incidents[KeyOf(t)].notified \in 0 .. heard[t]
        BY <1>1, <1>2, <2>3, <4>1 DEF MemoryHolds, Tells
      <4>3. KeyOf(t) # k BY <3>2 DEF k, KeyOf
      <4> QED BY <1>9, <4>1, <4>2, <4>3 DEF Tells, KeyOf
    <3> QED BY <3>1, <3>2
  <2> QED BY <2>1, <2>2, <2>3 DEF MemoryHolds, IsDict, Earns, Spaces
<1>14. FileHolds(file)'
  <2>1. \A t \in Sources : heard'[t] \in {heard[t], Never} \/ t \in unsaved'
    BY <1>1, <1>2 DEF HistoryHolds
  <2> QED BY <1>1, <1>2, <2>1, FileKept
<1> QED BY <1>11, <1>12, <1>13, <1>14, InvNext

\* A message that failed leaves its attempt behind.
LEMMA NotSentKeeps ==
    ASSUME Assumptions, AInv, NotSent
    PROVE  AInv'
<1>1. TickHolds /\ HistoryHolds /\ MemoryHolds(incidents) /\ FileHolds(file) BY InvInParts
<1>2. /\ phase = "sending" /\ phase' = "problems" /\ taken' = NoProblem
      /\ incidents' = incidents /\ file' = file /\ problems' = problems /\ rest' = rest
      /\ crashes' = crashes /\ faults' = faults
      /\ streak' = streak /\ attempted' = attempted /\ heard' = heard /\ unsaved' = unsaved
      /\ today' = today /\ wellFor' = wellFor
  BY DEF NotSent, bounds, history
<1>3. TickHolds'
  BY <1>1, <1>2 DEF TickHolds, TicksAreOver, OneDay, SendingIsNoted, DownIsSaved
<1>4. HistoryHolds' BY <1>1, <1>2 DEF HistoryHolds
<1>5. MemoryHolds(incidents)' BY <1>1, <1>2 DEF MemoryHolds, Tells
<1>6. FileHolds(file)' BY <1>1, <1>2, FileKept
<1> QED BY <1>3, <1>4, <1>5, <1>6, InvNext

\* When the incident of a source goes away, nobody has been told of one.
LEMMA Untold ==
    ASSUME IsDict(incidents'), NEW s \in Sources, KeyOf(s) \notin DOMAIN incidents'
    PROVE  ~Told(s)
BY ToldIs

\* A good observation counts, or ends the incident.
LEMMA ClearKeeps ==
    ASSUME Assumptions, AInv, Clear
    PROVE  AInv'
<1>1. TickHolds /\ HistoryHolds /\ MemoryHolds(incidents) /\ FileHolds(file) BY InvInParts
<1>2. /\ phase = "problems" /\ phase' = phase /\ file' = file /\ problems' = problems
      /\ taken' = taken /\ crashes' = crashes /\ faults' = faults
      /\ attempted' = attempted /\ unsaved' = unsaved
  BY DEF Clear, bounds
<1>3. PICK k \in rest :
        /\ rest' = rest \ {k}
        /\ incidents' =
             IF incidents[k].notified = Never \/ HasRecovered(k) THEN Without(incidents, {k})
             ELSE [incidents EXCEPT ![k].good = @ + 1]
        /\ streak' = [streak EXCEPT ![k[1]] = Never]
        /\ wellFor' = [wellFor EXCEPT ![k[1]] = IF @ = 3 THEN 3 ELSE @ + 1]
        /\ IF Told(k[1]) THEN UNCHANGED <<heard, today>>
           ELSE heard' = [heard EXCEPT ![k[1]] = Never] /\ today' = today \ {k[1]}
  BY DEF Clear
<1>4. IsDict(incidents) BY <1>1 DEF MemoryHolds
<1>5. k \in DOMAIN incidents /\ k \in Key /\ k[1] \in Sources /\ k = KeyOf(k[1])
      /\ incidents[k] \in Incident
  BY <1>1, <1>4, KeysName DEF TickHolds, IsDict
<1> DEFINE s == k[1]
<1>6. HistoryHolds'
  <2>1. Never \in Never .. Confirm /\ Never \in Never .. Repeat BY Intervals
  <2>2. streak' \in [Sources -> Never .. Confirm] BY <1>1, <1>3, <2>1 DEF HistoryHolds
  <2>3. wellFor' \in [Sources -> 0 .. 3]
    <3>1. wellFor \in [Sources -> 0 .. 3] BY <1>1 DEF HistoryHolds
    <3>2. wellFor[s] \in 0 .. 3 BY <1>5, <3>1
    <3>3. (IF wellFor[s] = 3 THEN 3 ELSE wellFor[s] + 1) \in 0 .. 3 BY <3>2
    <3>4. wellFor' = [wellFor EXCEPT ![s] = IF wellFor[s] = 3 THEN 3 ELSE wellFor[s] + 1]
      BY <1>3
    <3> HIDE DEF s
    <3> QED BY <3>1, <3>3, <3>4
  <2>4. heard' \in [Sources -> Never .. Repeat] /\ today' \subseteq Sources
    BY <1>1, <1>3, <2>1 DEF HistoryHolds
  <2> QED BY <1>1, <1>2, <2>2, <2>3, <2>4 DEF HistoryHolds
<1>7. \A t \in Sources : heard'[t] \in {heard[t], Never}
  BY <1>1, <1>3 DEF HistoryHolds
<1>8. FileHolds(file)' BY <1>1, <1>2, <1>7, FileKept
<1>9. ASSUME NEW x \in DOMAIN incidents \ {k}
      PROVE  /\ x[1] \in Sources /\ x[1] # s /\ x = KeyOf(x[1])
             /\ streak'[x[1]] = streak[x[1]] /\ wellFor'[x[1]] = wellFor[x[1]]
             /\ x[1] \in today' <=> x[1] \in today
             /\ heard'[x[1]] = heard[x[1]]
  <2>1. x \in Key /\ x # k BY <1>4 DEF IsDict
  <2>2. x[1] \in Sources /\ x = KeyOf(x[1]) BY <2>1, KeysName
  <2>3. x[1] # s BY <1>5, <2>1, <2>2
  <2>4. streak'[x[1]] = streak[x[1]] /\ wellFor'[x[1]] = wellFor[x[1]]
    BY <1>1, <1>3, <2>2, <2>3 DEF HistoryHolds
  <2>5. heard'[x[1]] = heard[x[1]] BY <1>1, <1>3, <2>2, <2>3 DEF HistoryHolds
  <2>6. x[1] \in today' <=> x[1] \in today BY <1>3, <2>3
  <2> QED BY <2>2, <2>3, <2>4, <2>5, <2>6
<1>10. \A x \in DOMAIN incidents \ {k} :
          /\ Earns(incidents[x], streak'[x[1]], x[1] \in today')
          /\ Spaces(incidents[x], attempted'[x[1]])
          /\ incidents[x].good <= wellFor'[x[1]]
  BY <1>1, <1>2, <1>9 DEF MemoryHolds, Earns
<1>11. CASE incidents[k].notified = Never \/ HasRecovered(k)
  <2>1. incidents' = Without(incidents, {k}) BY <1>3, <1>11
  <2>2. /\ IsDict(incidents') /\ DOMAIN incidents' = DOMAIN incidents \ {k}
        /\ \A x \in DOMAIN incidents \ {k} : incidents'[x] = incidents[x]
    BY <1>4, <2>1 DEF Without, IsDict
  <2>3. heard'[s] = Never
    <3>1. ~Told(s) BY <1>5, <2>2, Untold
    <3> QED BY <1>1, <1>3, <1>5, <3>1 DEF HistoryHolds
  <2>4. ASSUME NEW t \in Sources, heard'[t] # Never PROVE Tells(incidents, t)'
    <3>1. t # s /\ heard'[t] = heard[t] BY <1>1, <1>3, <2>3, <2>4 DEF HistoryHolds
    <3>2. KeyOf(t) \in DOMAIN incidents /\ incidents[KeyOf(t)].notified \in 0 .. heard[t]
      BY <1>1, <1>2, <2>4, <3>1 DEF MemoryHolds, Tells
    <3>3. KeyOf(t) # k BY <1>5, <3>1 DEF KeyOf
    <3> QED BY <2>2, <3>1, <3>2, <3>3 DEF Tells, KeyOf
  <2>5. MemoryHolds(incidents)'
    BY <1>10, <2>2, <2>4 DEF MemoryHolds, IsDict, Earns, Spaces
  <2>6. TickHolds'
    BY <1>1, <1>2, <1>3, <2>2 DEF TickHolds, TicksAreOver, OneDay, SendingIsNoted, DownIsSaved
  <2> QED BY <1>6, <1>8, <2>5, <2>6, InvNext
<1>12. CASE ~(incidents[k].notified = Never \/ HasRecovered(k))
  <2>1. incidents' = [incidents EXCEPT ![k].good = @ + 1] BY <1>3, <1>12
  <2>2. /\ DOMAIN incidents' = DOMAIN incidents
        /\ incidents'[k] = [incidents[k] EXCEPT !.good = @ + 1]
        /\ \A x \in DOMAIN incidents \ {k} : incidents'[x] = incidents[x]
    BY <1>5, <2>1
  <2>3. incidents[k].good \in 0 .. 2 /\ incidents[k].good + 1 \in 0 .. 2
    BY <1>5, <1>12 DEF Incident, HasRecovered
  <2>4. /\ incidents'[k] \in Incident
        /\ incidents'[k].good = incidents[k].good + 1
        /\ incidents'[k].opened = incidents[k].opened
        /\ incidents'[k].notified = incidents[k].notified
        /\ incidents'[k].attempt = incidents[k].attempt
        /\ incidents'[k].sameDay = incidents[k].sameDay
    BY <1>5, <2>2, <2>3 DEF Incident
  <2>5. heard' = heard /\ today' = today
    <3>1. Told(s) BY <1>5, <1>12, <2>2, <2>4 DEF Told
    <3> QED BY <1>3, <3>1
  <2>6. /\ Earns(incidents'[k], streak'[s], s \in today')
        /\ Spaces(incidents'[k], attempted'[s])
        /\ incidents'[k].good <= wellFor'[s]
    <3>1. /\ Earns(incidents[k], streak[s], s \in today)
          /\ Spaces(incidents[k], attempted[s])
          /\ incidents[k].good <= wellFor[s]
      BY <1>1, <1>5 DEF MemoryHolds
    <3>2. Earns(incidents'[k], streak'[s], s \in today')
      BY <1>12, <2>4, <2>5, <3>1 DEF Earns
    <3>3. Spaces(incidents'[k], attempted'[s]) BY <1>2, <2>4, <3>1 DEF Spaces
    <3>4. incidents'[k].good <= wellFor'[s]
      <4>1. wellFor[s] \in 0 .. 3 BY <1>1, <1>5 DEF HistoryHolds
      <4>2. wellFor'[s] = IF wellFor[s] = 3 THEN 3 ELSE wellFor[s] + 1
        BY <1>1, <1>3, <1>5 DEF HistoryHolds
      <4> QED BY <2>3, <2>4, <3>1, <4>1, <4>2
    <3> QED BY <3>2, <3>3, <3>4
  <2>7. ASSUME NEW x \in DOMAIN incidents'
        PROVE  /\ Earns(incidents'[x], streak'[x[1]], x[1] \in today')
               /\ Spaces(incidents'[x], attempted'[x[1]])
               /\ incidents'[x].good <= wellFor'[x[1]]
    <3>1. CASE x = k BY <2>6, <3>1
    <3>2. CASE x # k BY <1>10, <2>2, <3>2
    <3> QED BY <3>1, <3>2
  <2>8. ASSUME NEW t \in Sources, heard'[t] # Never PROVE Tells(incidents, t)'
    <3>1. KeyOf(t) \in DOMAIN incidents /\ incidents[KeyOf(t)].notified \in 0 .. heard[t]
      BY <1>1, <1>2, <2>5, <2>8 DEF MemoryHolds, Tells
    <3>2. incidents'[KeyOf(t)].notified = incidents[KeyOf(t)].notified BY <2>2, <2>4, <3>1
    <3> QED BY <2>2, <2>5, <3>1, <3>2 DEF Tells, KeyOf
  <2>9. IsDict(incidents') BY <1>4, <2>2, <2>4 DEF IsDict
  <2>10. MemoryHolds(incidents)'
    BY <2>7, <2>8, <2>9 DEF MemoryHolds, IsDict, Earns, Spaces
  <2>11. \A x \in DOMAIN incidents' : incidents'[x].sameDay = TRUE
    BY <1>1, <1>2, <1>5, <2>2, <2>4 DEF TickHolds, OneDay
  <2>12. TickHolds'
    BY <1>1, <1>2, <1>3, <2>2, <2>11
       DEF TickHolds, TicksAreOver, OneDay, SendingIsNoted, DownIsSaved
  <2> QED BY <1>6, <1>8, <2>10, <2>12, InvNext
<1> QED BY <1>11, <1>12

\* The save at the end of a tick.
LEMMA FinishKeeps ==
    ASSUME Assumptions, AInv, Finish
    PROVE  AInv'
<1>1. TickHolds /\ HistoryHolds /\ MemoryHolds(incidents) /\ FileHolds(file) BY InvInParts
<1>2. /\ phase = "problems" /\ problems = {} /\ rest = {} /\ incidents' = incidents
      /\ crashes' = crashes /\ streak' = streak /\ attempted' = attempted /\ heard' = heard
      /\ today' = today /\ wellFor' = wellFor
  BY DEF Finish
<1>3. CASE Save(incidents) /\ phase' = "idle" /\ UNCHANGED tick
  <2>1. /\ file' = incidents' /\ unsaved' = {} /\ faults' = faults
        /\ problems' = problems /\ rest' = rest /\ taken' = taken
    BY <1>2, <1>3 DEF Save, tick
  <2>2. TickHolds'
    BY <1>1, <1>2, <1>3, <2>1 DEF TickHolds, TicksAreOver, OneDay, SendingIsNoted, DownIsSaved
  <2>3. HistoryHolds' BY <1>1, <1>2, <2>1 DEF HistoryHolds
  <2>4. MemoryHolds(incidents)' BY <1>1, <1>2 DEF MemoryHolds, Tells
  <2> QED BY <1>3, <2>1, <2>2, <2>3, <2>4, FileSaved, InvNext
<1>4. CASE SaveRaises
  <2>1. TickHolds' /\ phase' # "down" /\ file' = file /\ unsaved' = unsaved
    BY <1>1, <1>2, <1>4, TickIsOver DEF SaveRaises
  <2>2. HistoryHolds' BY <1>1, <1>2, <2>1 DEF HistoryHolds
  <2>3. MemoryHolds(incidents)' BY <1>1, <1>2 DEF MemoryHolds, Tells
  <2>4. FileHolds(file)' BY <1>1, <1>2, <2>1, FileKept
  <2> QED BY <2>1, <2>2, <2>3, <2>4, InvNext
<1> QED BY <1>3, <1>4 DEF Finish

\* The process dies, and only the file remains.
LEMMA CrashKeeps ==
    ASSUME Assumptions, AInv, Crash
    PROVE  AInv'
<1>1. TickHolds /\ HistoryHolds /\ MemoryHolds(incidents) /\ FileHolds(file) BY InvInParts
<1>2. /\ phase' = "down" /\ incidents' = Empty
      /\ problems' = {} /\ rest' = {} /\ taken' = NoProblem
      /\ streak' = [s \in Sources |-> Never]
      /\ heard' = [s \in Sources |-> IF s \in unsaved THEN Never ELSE heard[s]]
      /\ unsaved' = {}
      /\ today' = today \union
            {k[1] : k \in {x \in DOMAIN file : file[x].notified # Never /\ file[x].sameDay}}
      /\ wellFor' = [s \in Sources |-> IF Recorded(s) THEN wellFor[s] ELSE 3]
      /\ file' = file /\ faults' = faults /\ attempted' = attempted
      /\ crashes < MaxCrashes /\ crashes' = crashes + 1
  BY DEF Crash
<1>3. IsDict(incidents) /\ IsDict(file) BY <1>1 DEF MemoryHolds, FileHolds
<1>4. \A k \in DOMAIN file : k[1] \in Sources /\ k \in Key /\ file[k] \in Incident
  BY <1>3, KeysName DEF IsDict
<1>5. TickHolds'
  <2>1. crashes' \in 0 .. MaxCrashes BY <1>1, <1>2, Intervals DEF TickHolds
  <2> QED BY <1>1, <1>2, <2>1, EmptyDict
          DEF TickHolds, TicksAreOver, OneDay, SendingIsNoted, DownIsSaved
<1>6. HistoryHolds'
  <2>1. Never \in Never .. Confirm /\ Never \in Never .. Repeat BY Intervals
  <2>2. today' \subseteq Sources BY <1>1, <1>2, <1>4 DEF HistoryHolds
  <2>3. streak' \in [Sources -> Never .. Confirm] /\ heard' \in [Sources -> Never .. Repeat]
    BY <1>1, <1>2, <2>1 DEF HistoryHolds
  <2>4. wellFor' \in [Sources -> 0 .. 3] BY <1>1, <1>2 DEF HistoryHolds
  <2> QED BY <1>1, <1>2, <2>2, <2>3, <2>4 DEF HistoryHolds
<1>7. MemoryHolds(incidents)' BY <1>2, EmptyDict DEF MemoryHolds, IsDict
<1>8. FileHolds(file)'
  <2>1. \A s \in Sources : heard'[s] # Never => Tells(file, s)'
    <3>1. \A s \in Sources : heard'[s] # Never => s \notin unsaved /\ heard'[s] = heard[s]
      BY <1>2
    <3> QED BY <1>1, <1>2, <3>1 DEF FileHolds, Tells
  <2>2. ASSUME NEW k \in DOMAIN file, file[k].sameDay = TRUE, file[k].notified # Never
        PROVE  k[1] \in today'
    BY <1>2, <2>2
  <2>3. ASSUME NEW k \in DOMAIN file PROVE file[k].good <= wellFor'[k[1]]
    <3>1. k[1] \in Sources /\ file[k].good \in 0 .. 2 BY <1>4 DEF Incident
    <3>2. CASE Recorded(k[1])
      <4> DEFINE of(dict) == [x \in {y \in DOMAIN dict : y[1] = k[1]} |-> dict[x].good]
      <4>1. of(file) = of(incidents) BY <3>2 DEF Recorded
      <4>2. DOMAIN of(file) = DOMAIN of(incidents) BY <4>1
      <4>3. k \in DOMAIN of(file) /\ of(file)[k] = file[k].good OBVIOUS
      <4>4. k \in DOMAIN incidents /\ of(incidents)[k] = incidents[k].good BY <4>2, <4>3
      <4>5. file[k].good = incidents[k].good BY <4>1, <4>3, <4>4
      <4>6. incidents[k].good <= wellFor[k[1]] BY <1>1, <4>4 DEF MemoryHolds
      <4> QED BY <1>2, <3>1, <3>2, <4>5, <4>6
    <3>3. CASE ~Recorded(k[1])
      <4>1. wellFor'[k[1]] = 3 BY <1>2, <3>1, <3>3
      <4> QED BY <3>1, <4>1
    <3> QED BY <3>2, <3>3
  <2> QED BY <1>1, <1>2, <2>1, <2>2, <2>3 DEF FileHolds, Spaces
<1> QED BY <1>5, <1>6, <1>7, <1>8, InvNext

\* What has aged together is still as the invariant wants it.
LEMMA AgedHolds ==
    ASSUME Assumptions, HistoryHolds, NEW by \in {1, Repeat}, NEW sameDay \in BOOLEAN,
           NEW dict, IsDict(dict), \A k \in DOMAIN dict : Spaces(dict[k], attempted[k[1]])
    PROVE  /\ IsDict(AgedBy(by, sameDay, dict))
           /\ DOMAIN AgedBy(by, sameDay, dict) = DOMAIN dict
           /\ \A k \in DOMAIN dict :
                Spaces(AgedBy(by, sameDay, dict)[k], Older(attempted[k[1]], by, Retry))
<1>1. by \in Nat BY Intervals
<1>2. IsDict(AgedBy(by, sameDay, dict)) BY <1>1, AgedEntries
<1>3. DOMAIN AgedBy(by, sameDay, dict) = DOMAIN dict BY <1>1, AgedEntries
<1>4. ASSUME NEW k \in DOMAIN dict
      PROVE  Spaces(AgedBy(by, sameDay, dict)[k], Older(attempted[k[1]], by, Retry))
  <2>1. AgedBy(by, sameDay, dict)[k] = Aged(dict[k], by, sameDay) BY <1>1, AgedEntries
  <2>2. dict[k] \in Incident /\ k[1] \in Sources BY KeysName DEF IsDict
  <2>3. attempted[k[1]] \in Never .. Retry BY <2>2 DEF HistoryHolds
  <2>4. Spaces(dict[k], attempted[k[1]]) OBVIOUS
  <2>5. Spaces(Aged(dict[k], by, sameDay), Older(attempted[k[1]], by, Retry))
    BY <2>2, <2>3, <2>4, SpacesLater
  <2> QED BY <2>1, <2>5
<1> QED BY <1>2, <1>3, <1>4

\* An entry that has aged.
LEMMA AgedEntry ==
    ASSUME NEW by, NEW sameDay, NEW dict, NEW k \in DOMAIN dict
    PROVE  AgedBy(by, sameDay, dict)[k] = Aged(dict[k], by, sameDay)
BY DEF AgedBy, Aged

\* A source that somebody was told of remains known.
LEMMA AgedTells ==
    ASSUME Assumptions, HistoryHolds, NEW by \in Nat, NEW sameDay \in BOOLEAN,
           NEW dict, IsDict(dict), NEW s \in Sources, Tells(dict, s)
    PROVE  /\ KeyOf(s) \in DOMAIN AgedBy(by, sameDay, dict)
           /\ AgedBy(by, sameDay, dict)[KeyOf(s)].notified \in 0 .. Older(heard[s], by, Repeat)
<1> DEFINE k == KeyOf(s)
<1>1. k \in DOMAIN dict /\ dict[k].notified \in 0 .. heard[s] BY DEF Tells
<1>2. heard[s] \in Never .. Repeat BY DEF HistoryHolds
<1>3. dict[k].notified \in Never .. Repeat /\ dict[k].notified # Never
  BY <1>1, <1>2, Intervals
<1>4. AgedBy(by, sameDay, dict)[k].notified = Older(dict[k].notified, by, Repeat)
  <2>1. dict[k] \in Incident BY <1>1 DEF IsDict
  <2>2. AgedBy(by, sameDay, dict)[k] = Aged(dict[k], by, sameDay) BY <1>1, AgedEntry
  <2>3. Aged(dict[k], by, sameDay).notified = Older(dict[k].notified, by, Repeat)
    BY <2>1, AgedIs
  <2> QED BY <2>2, <2>3
<1>5. DOMAIN AgedBy(by, sameDay, dict) = DOMAIN dict BY AgedEntries
<1>6. Older(dict[k].notified, by, Repeat) \in 0 .. Older(heard[s], by, Repeat)
  <2>1. Repeat \in Nat /\ Never = -1 BY Intervals
  <2> HIDE DEF k
  <2> QED BY <1>1, <1>2, <1>3, <2>1 DEF Older
<1> QED BY <1>1, <1>4, <1>5, <1>6

\* Time passes for the incidents, the file and the history alike.
LEMMA ElapseKeeps ==
    ASSUME Assumptions, AInv, Elapse
    PROVE  AInv'
<1>1. TickHolds /\ HistoryHolds /\ MemoryHolds(incidents) /\ FileHolds(file) BY InvInParts
<1>2. /\ phase \in {"idle", "down"} /\ phase' = phase
      /\ incidents' = AgedBy(1, TRUE, incidents) /\ file' = AgedBy(1, TRUE, file)
      /\ streak' = [s \in Sources |-> Older(streak[s], 1, Confirm)]
      /\ attempted' = [s \in Sources |-> Older(attempted[s], 1, Retry)]
      /\ heard' = [s \in Sources |-> Older(heard[s], 1, Repeat)]
      /\ problems' = problems /\ rest' = rest /\ taken' = taken
      /\ crashes' = crashes /\ faults' = faults
      /\ unsaved' = unsaved /\ today' = today /\ wellFor' = wellFor
  BY DEF Elapse, tick, bounds
<1>3. /\ IsDict(incidents) /\ IsDict(file)
      /\ \A k \in DOMAIN incidents : Spaces(incidents[k], attempted[k[1]])
      /\ \A k \in DOMAIN file : Spaces(file[k], attempted[k[1]])
  BY <1>1 DEF MemoryHolds, FileHolds
<1>4. 1 \in {1, Repeat} /\ 1 \in Nat /\ TRUE \in BOOLEAN OBVIOUS
<1>5. /\ IsDict(incidents') /\ DOMAIN incidents' = DOMAIN incidents
      /\ \A k \in DOMAIN incidents : Spaces(incidents'[k], Older(attempted[k[1]], 1, Retry))
  BY <1>1, <1>2, <1>3, <1>4, AgedHolds
<1>6. /\ IsDict(file') /\ DOMAIN file' = DOMAIN file
      /\ \A k \in DOMAIN file : Spaces(file'[k], Older(attempted[k[1]], 1, Retry))
  BY <1>1, <1>2, <1>3, <1>4, AgedHolds
<1>7. \A k \in Key : k[1] \in Sources /\ attempted'[k[1]] = Older(attempted[k[1]], 1, Retry)
                     /\ streak'[k[1]] = Older(streak[k[1]], 1, Confirm)
  BY <1>2, KeysName
<1>8. TickHolds'
  <2>1. phase = "down" => incidents' = Empty
    <3>1. phase = "down" => DOMAIN incidents = {} BY <1>1, EmptyDict DEF TickHolds
    <3> QED BY <1>2, <3>1 DEF AgedBy, Empty
  <2> QED BY <1>1, <1>2, <1>5, <2>1
          DEF TickHolds, TicksAreOver, OneDay, SendingIsNoted, DownIsSaved
<1>9. HistoryHolds'
  <2>1. \A s \in Sources :
           /\ Older(streak[s], 1, Confirm) \in Never .. Confirm
           /\ Older(attempted[s], 1, Retry) \in Never .. Retry
           /\ Older(heard[s], 1, Repeat) \in Never .. Repeat
    BY <1>1, AgesGrow, Intervals DEF HistoryHolds
  <2> QED BY <1>1, <1>2, <2>1 DEF HistoryHolds
<1>10. MemoryHolds(incidents)'
  <2>1. ASSUME NEW k \in DOMAIN incidents
        PROVE  /\ Earns(incidents'[k], streak'[k[1]], k[1] \in today')
               /\ Spaces(incidents'[k], attempted'[k[1]])
               /\ incidents'[k].good <= wellFor'[k[1]]
    <3>1. k \in Key /\ incidents[k] \in Incident BY <1>3 DEF IsDict
    <3>2. /\ Earns(incidents[k], streak[k[1]], k[1] \in today)
          /\ incidents[k].good <= wellFor[k[1]]
      BY <1>1 DEF MemoryHolds
    <3>3. /\ incidents'[k] = Aged(incidents[k], 1, TRUE)
          /\ incidents'[k].good = incidents[k].good
      <4>1. AgedBy(1, TRUE, incidents)[k] = Aged(incidents[k], 1, TRUE)
        BY DEF AgedBy, Aged
      <4>2. Aged(incidents[k], 1, TRUE).good = incidents[k].good BY <1>4, <3>1, AgedIs
      <4> QED BY <1>2, <4>1, <4>2
    <3>4. streak[k[1]] \in Never .. Confirm BY <1>1, <1>7, <3>1 DEF HistoryHolds
    <3>5. Earns(Aged(incidents[k], 1, TRUE), Older(streak[k[1]], 1, Confirm), k[1] \in today)
      BY <3>1, <3>2, <3>4, EarnsLater
    <3> QED BY <1>2, <1>5, <1>7, <3>1, <3>2, <3>3, <3>5
  <2>2. ASSUME phase # "down", NEW s \in Sources, heard'[s] # Never
        PROVE  Tells(incidents, s)'
    <3>1. heard'[s] = Older(heard[s], 1, Repeat) BY <1>2
    <3>2. heard[s] # Never BY <2>2, <3>1 DEF Older
    <3>3. Tells(incidents, s) BY <1>1, <2>2, <3>2 DEF MemoryHolds
    <3>4. /\ KeyOf(s) \in DOMAIN incidents'
          /\ incidents'[KeyOf(s)].notified \in 0 .. Older(heard[s], 1, Repeat)
      BY <1>1, <1>2, <1>3, <1>4, <3>3, AgedTells
    <3> QED BY <3>1, <3>4 DEF Tells, KeyOf
  <2> QED BY <1>2, <1>5, <2>1, <2>2 DEF MemoryHolds, IsDict, Earns, Spaces
<1>11. FileHolds(file)'
  <2>1. ASSUME NEW k \in DOMAIN file
        PROVE  /\ Spaces(file'[k], attempted'[k[1]])
               /\ phase = "down" =>
                    /\ file'[k].sameDay = TRUE /\ file'[k].notified # Never => k[1] \in today'
                    /\ file'[k].good <= wellFor'[k[1]]
    <3>1. k \in Key /\ file[k] \in Incident BY <1>3 DEF IsDict
    <3>2. /\ file'[k].notified = Older(file[k].notified, 1, Repeat)
          /\ file'[k].good = file[k].good
          /\ file'[k].sameDay = (file[k].sameDay /\ TRUE)
      <4>1. file'[k] = Aged(file[k], 1, TRUE) BY <1>2 DEF AgedBy, Aged
      <4>2. Aged(file[k], 1, TRUE).notified = Older(file[k].notified, 1, Repeat)
        BY <1>4, <3>1, AgedIs
      <4>3. Aged(file[k], 1, TRUE).good = file[k].good BY <1>4, <3>1, AgedIs
      <4>4. Aged(file[k], 1, TRUE).sameDay = (file[k].sameDay /\ TRUE)
        BY <1>4, <3>1, AgedIs
      <4> QED BY <4>1, <4>2, <4>3, <4>4
    <3>3. file'[k].sameDay = TRUE => file[k].sameDay = TRUE
      <4>1. file[k].sameDay \in BOOLEAN BY <3>1 DEF Incident
      <4> QED BY <3>2, <4>1
    <3>4. file'[k].notified # Never => file[k].notified # Never BY <3>2 DEF Older
    <3>5. Spaces(file'[k], attempted'[k[1]]) BY <1>6, <1>7, <3>1
    <3>6. phase = "down" =>
            /\ file[k].sameDay = TRUE /\ file[k].notified # Never => k[1] \in today
            /\ file[k].good <= wellFor[k[1]]
      BY <1>1 DEF FileHolds
    <3> QED BY <1>2, <3>2, <3>3, <3>4, <3>5, <3>6
  <2>2. ASSUME NEW s \in Sources, heard'[s] # Never, s \notin unsaved'
        PROVE  Tells(file, s)'
    <3>1. heard'[s] = Older(heard[s], 1, Repeat) BY <1>2
    <3>2. heard[s] # Never BY <2>2, <3>1 DEF Older
    <3>3. Tells(file, s) BY <1>1, <1>2, <2>2, <3>2 DEF FileHolds
    <3>4. /\ KeyOf(s) \in DOMAIN file'
          /\ file'[KeyOf(s)].notified \in 0 .. Older(heard[s], 1, Repeat)
      BY <1>1, <1>2, <1>3, <1>4, <3>3, AgedTells
    <3> QED BY <3>1, <3>4 DEF Tells, KeyOf
  <2> QED BY <1>2, <1>6, <2>1, <2>2 DEF FileHolds, IsDict, Spaces
<1> QED BY <1>8, <1>9, <1>10, <1>11, InvNext

\* A night makes every incident one of another day.
LEMMA NewDayKeeps ==
    ASSUME Assumptions, AInv, NewDay
    PROVE  AInv'
<1>1. TickHolds /\ HistoryHolds /\ MemoryHolds(incidents) /\ FileHolds(file) BY InvInParts
<1>2. /\ phase \in {"idle", "down"} /\ phase' = phase
      /\ incidents' = AgedBy(Repeat, FALSE, incidents) /\ file' = AgedBy(Repeat, FALSE, file)
      /\ streak' = [s \in Sources |-> Never]
      /\ attempted' = [s \in Sources |-> Older(attempted[s], Repeat, Retry)]
      /\ heard' = [s \in Sources |-> Older(heard[s], Repeat, Repeat)]
      /\ problems' = problems /\ rest' = rest /\ taken' = taken
      /\ crashes' = crashes /\ faults' = faults
      /\ unsaved' = unsaved /\ today' = {} /\ wellFor' = wellFor
  BY DEF NewDay, tick, bounds
<1>3. /\ IsDict(incidents) /\ IsDict(file)
      /\ \A k \in DOMAIN incidents : Spaces(incidents[k], attempted[k[1]])
      /\ \A k \in DOMAIN file : Spaces(file[k], attempted[k[1]])
  BY <1>1 DEF MemoryHolds, FileHolds
<1>4. Repeat \in {1, Repeat} /\ Repeat \in Nat /\ FALSE \in BOOLEAN BY Intervals
<1>5. /\ IsDict(incidents') /\ DOMAIN incidents' = DOMAIN incidents
      /\ \A k \in DOMAIN incidents : Spaces(incidents'[k], Older(attempted[k[1]], Repeat, Retry))
  BY <1>1, <1>2, <1>3, <1>4, AgedHolds
<1>6. /\ IsDict(file') /\ DOMAIN file' = DOMAIN file
      /\ \A k \in DOMAIN file : Spaces(file'[k], Older(attempted[k[1]], Repeat, Retry))
  BY <1>1, <1>2, <1>3, <1>4, AgedHolds
<1>7. \A k \in Key : k[1] \in Sources /\ attempted'[k[1]] = Older(attempted[k[1]], Repeat, Retry)
  BY <1>2, KeysName
<1>8. ASSUME NEW dict, IsDict(dict), NEW k \in DOMAIN dict
      PROVE  /\ AgedBy(Repeat, FALSE, dict)[k].sameDay = FALSE
             /\ AgedBy(Repeat, FALSE, dict)[k].good = dict[k].good
  <2>1. dict[k] \in Incident BY <1>8 DEF IsDict
  <2>2. AgedBy(Repeat, FALSE, dict)[k] = Aged(dict[k], Repeat, FALSE) BY <1>8, AgedEntry
  <2>3. Aged(dict[k], Repeat, FALSE).good = dict[k].good BY <1>4, <2>1, AgedIs
  <2>4. Aged(dict[k], Repeat, FALSE).sameDay = (dict[k].sameDay /\ FALSE)
    BY <1>4, <2>1, AgedIs
  <2> QED BY <2>2, <2>3, <2>4
<1>9. TickHolds'
  <2>1. phase = "down" => incidents' = Empty
    <3>1. phase = "down" => DOMAIN incidents = {} BY <1>1, EmptyDict DEF TickHolds
    <3> QED BY <1>2, <3>1 DEF AgedBy, Empty
  <2> QED BY <1>1, <1>2, <1>5, <2>1
          DEF TickHolds, TicksAreOver, OneDay, SendingIsNoted, DownIsSaved
<1>10. HistoryHolds'
  <2>1. Never \in Never .. Confirm BY Intervals
  <2>2. \A s \in Sources : Older(attempted[s], Repeat, Retry) \in Never .. Retry
    BY <1>1, <1>4, AgesGrow, Intervals DEF HistoryHolds
  <2>3. \A s \in Sources : Older(heard[s], Repeat, Repeat) \in Never .. Repeat
    BY <1>1, <1>4, AgesGrow, Intervals DEF HistoryHolds
  <2> QED BY <1>1, <1>2, <2>1, <2>2, <2>3 DEF HistoryHolds
<1>11. MemoryHolds(incidents)'
  <2>1. ASSUME NEW k \in DOMAIN incidents
        PROVE  /\ Earns(incidents'[k], streak'[k[1]], k[1] \in today')
               /\ Spaces(incidents'[k], attempted'[k[1]])
               /\ incidents'[k].good <= wellFor'[k[1]]
    <3>1. k \in Key BY <1>3 DEF IsDict
    <3>2. incidents[k].good <= wellFor[k[1]] BY <1>1 DEF MemoryHolds
    <3>3. incidents'[k].sameDay = FALSE /\ incidents'[k].good = incidents[k].good
      BY <1>2, <1>3, <1>8
    <3>4. Earns(incidents'[k], streak'[k[1]], k[1] \in today') BY <3>3 DEF Earns
    <3>5. Spaces(incidents'[k], attempted'[k[1]]) BY <1>5, <1>7, <3>1
    <3> QED BY <1>2, <3>2, <3>3, <3>4, <3>5
  <2>2. ASSUME phase # "down", NEW s \in Sources, heard'[s] # Never
        PROVE  Tells(incidents, s)'
    <3>1. heard'[s] = Older(heard[s], Repeat, Repeat) BY <1>2
    <3>2. heard[s] # Never BY <2>2, <3>1 DEF Older
    <3>3. Tells(incidents, s) BY <1>1, <2>2, <3>2 DEF MemoryHolds
    <3>4. /\ KeyOf(s) \in DOMAIN incidents'
          /\ incidents'[KeyOf(s)].notified \in 0 .. Older(heard[s], Repeat, Repeat)
      BY <1>1, <1>2, <1>3, <1>4, <3>3, AgedTells
    <3> QED BY <3>1, <3>4 DEF Tells, KeyOf
  <2> QED BY <1>2, <1>5, <2>1, <2>2 DEF MemoryHolds, IsDict, Earns, Spaces
<1>12. FileHolds(file)'
  <2>1. ASSUME NEW k \in DOMAIN file
        PROVE  /\ Spaces(file'[k], attempted'[k[1]])
               /\ file'[k].sameDay = FALSE
               /\ phase = "down" => file'[k].good <= wellFor'[k[1]]
    <3>1. k \in Key BY <1>3 DEF IsDict
    <3>2. file'[k].sameDay = FALSE /\ file'[k].good = file[k].good
      BY <1>2, <1>3, <1>8
    <3>3. Spaces(file'[k], attempted'[k[1]]) BY <1>6, <1>7, <3>1
    <3>4. phase = "down" => file[k].good <= wellFor[k[1]] BY <1>1 DEF FileHolds
    <3> QED BY <1>2, <3>2, <3>3, <3>4
  <2>2. ASSUME NEW s \in Sources, heard'[s] # Never, s \notin unsaved'
        PROVE  Tells(file, s)'
    <3>1. heard'[s] = Older(heard[s], Repeat, Repeat) BY <1>2
    <3>2. heard[s] # Never BY <2>2, <3>1 DEF Older
    <3>3. Tells(file, s) BY <1>1, <1>2, <2>2, <3>2 DEF FileHolds
    <3>4. /\ KeyOf(s) \in DOMAIN file'
          /\ file'[KeyOf(s)].notified \in 0 .. Older(heard[s], Repeat, Repeat)
      BY <1>1, <1>2, <1>3, <1>4, <3>3, AgedTells
    <3> QED BY <3>1, <3>4 DEF Tells, KeyOf
  <2> QED BY <1>2, <1>6, <2>1, <2>2 DEF FileHolds, IsDict, Spaces
<1> QED BY <1>9, <1>10, <1>11, <1>12, InvNext

-----------------------------------------------------------------------------
(* The invariant.                                                          *)

\* It holds at first.
LEMMA InvInit == ASSUME Assumptions, Init PROVE AInv
<1>1. /\ phase = "down" /\ incidents = Empty /\ file = Empty
      /\ problems = {} /\ rest = {} /\ taken = NoProblem /\ crashes = 0 /\ faults = 0
      /\ streak = [s \in Sources |-> Never] /\ attempted = [s \in Sources |-> Never]
      /\ heard = [s \in Sources |-> Never]
      /\ unsaved = {} /\ today = {} /\ wellFor = [s \in Sources |-> 0]
  BY DEF Init
<1>2. TickHolds
  BY <1>1, Intervals DEF TickHolds, TicksAreOver, OneDay, SendingIsNoted, DownIsSaved
<1>3. HistoryHolds BY <1>1, Intervals DEF HistoryHolds
<1>4. MemoryHolds(incidents) BY <1>1, EmptyDict DEF MemoryHolds
<1>5. FileHolds(file) BY <1>1, EmptyDict DEF FileHolds
<1> QED BY <1>2, <1>3, <1>4, <1>5, InvInParts

\* What a tick has observed are problems.
LEMMA SeenAreProblems ==
    ASSUME NEW seen \in Observations
    PROVE  {<<s, seen[s]>> : s \in DOMAIN seen} \in SUBSET Problem
<1>1. PICK S \in SUBSET Sources : seen \in [S -> Reasons] BY DEF Observations
<1> QED BY <1>1 DEF Problem

\* Every step keeps it.
LEMMA InvStep == ASSUME Assumptions, AInv, [Next]_vars PROVE AInv'
<1>1. CASE UNCHANGED vars
  <2>1. TickHolds /\ HistoryHolds /\ MemoryHolds(incidents) /\ FileHolds(file) BY InvInParts
  <2>2. /\ phase' = phase /\ incidents' = incidents /\ file' = file /\ problems' = problems
        /\ rest' = rest /\ taken' = taken /\ crashes' = crashes /\ faults' = faults
        /\ streak' = streak /\ attempted' = attempted /\ heard' = heard /\ unsaved' = unsaved
        /\ today' = today /\ wellFor' = wellFor
    BY <1>1 DEF vars, tick, bounds, history
  <2>3. TickHolds'
    BY <2>1, <2>2 DEF TickHolds, TicksAreOver, OneDay, SendingIsNoted, DownIsSaved
  <2>4. HistoryHolds' BY <2>1, <2>2 DEF HistoryHolds
  <2>5. MemoryHolds(incidents)' BY <2>1, <2>2 DEF MemoryHolds, Tells
  <2>6. FileHolds(file)' BY <2>1, <2>2 DEF FileHolds, Tells
  <2> QED BY <2>3, <2>4, <2>5, <2>6, InvNext
<1>2. ASSUME NEW paused \in SUBSET Sources, NEW seen \in Observations,
             Reconcile(paused, {<<s, seen[s]>> : s \in DOMAIN seen})
      PROVE  AInv'
  BY <1>2, SeenAreProblems, ReconcileKeeps
<1>3. CASE Start BY <1>3, StartKeeps
<1>14. CASE StartUnread BY <1>14, StartUnreadKeeps
<1>4. CASE Pause BY <1>4, PauseKeeps
<1>5. CASE Note BY <1>5, NoteKeeps
<1>6. CASE Attempt BY <1>6, AttemptKeeps
<1>7. CASE Sent BY <1>7, SentKeeps
<1>8. CASE NotSent BY <1>8, NotSentKeeps
<1>9. CASE Clear BY <1>9, ClearKeeps
<1>10. CASE Finish BY <1>10, FinishKeeps
<1>11. CASE Crash BY <1>11, CrashKeeps
<1>12. CASE Elapse BY <1>12, ElapseKeeps
<1>13. CASE NewDay BY <1>13, NewDayKeeps
<1> QED
  BY <1>1, <1>2, <1>3, <1>4, <1>5, <1>6, <1>7, <1>8, <1>9, <1>10, <1>11, <1>12, <1>13,
     <1>14 DEF Next

\* The invariant holds in every state of the health monitor's alerts.
THEOREM AlertsInvariance == Spec => []AInv
<1>1. Init => AInv BY AlertAssumption, InvInit DEF Assumptions
<1>2. AInv /\ [Next]_vars => AInv' BY AlertAssumption, InvStep DEF Assumptions
<1> QED BY <1>1, <1>2, PTL DEF Spec

\* Every variable stays in its domain.
THEOREM AlertsTypeCorrect == Spec => []TypeOK
<1>1. AInv => TypeOK BY DEF AInv
<1> QED BY <1>1, AlertsInvariance, PTL

-----------------------------------------------------------------------------
(* Steps.                                                                  *)

\* Only a due attempt alerts.
LEMMA AlertIsDue ==
    ASSUME Assumptions, AInv, [Next]_vars, NEW s \in Sources, Alerts(s)
    PROVE  /\ KeyOf(s) \in Key /\ Due(Current(KeyOf(s)))
           /\ streak' = [streak EXCEPT ![s] = IF @ = Never THEN 0 ELSE @]
<1>1. phase = "problems" /\ phase' = "sending" /\ taken'[1] = s BY DEF Alerts
<1>2. Attempt
  BY <1>1
  DEF Next, Start, StartUnread, Pause, Reconcile, BeginProblems, PauseRaises, SaveRaises,
      TickRaises, Note, Sent, NotSent, Clear, Finish, Crash, Elapse, NewDay, vars
<1>3. PICK p \in problems :
        /\ Due(Current(SourceIncidentKey(p))) /\ Observed(p[1])
        /\ taken' = p \/ SaveRaises
  BY <1>2 DEF Attempt
<1>4. p[1] = s BY <1>1, <1>3 DEF SaveRaises, TickRaises
<1>5. p \in Problem BY InvInParts DEF TickHolds
<1> QED BY <1>3, <1>4, <1>5, ProblemsName DEF Observed

\* What is due is an incident that the process has had for some time, of this day.
LEMMA DueIsKnown ==
    ASSUME Assumptions, AInv, phase = "problems", NEW s \in Sources, Due(Current(KeyOf(s)))
    PROVE  LET i == incidents[KeyOf(s)] IN
           /\ KeyOf(s) \in DOMAIN incidents
           /\ i \in Incident /\ i.sameDay = TRUE
           /\ i.notified # Never \/ i.opened >= Confirm
           /\ i.notified = Never \/ i.notified >= Repeat
           /\ i.attempt = Never \/ i.attempt >= Retry
           /\ Earns(i, streak[s], s \in today) /\ Spaces(i, attempted[s])
<1> DEFINE k == KeyOf(s)
<1>1. TickHolds /\ HistoryHolds /\ MemoryHolds(incidents) /\ FileHolds(file) BY InvInParts
<1>2. k \in Key /\ k[1] = s BY KeysName
<1>3. IsDict(incidents) BY <1>1 DEF MemoryHolds
<1> HIDE DEF k
<1>4. /\ Current(k).notified # Never \/ Current(k).opened >= Confirm
      /\ Current(k).notified = Never \/ Current(k).notified >= Repeat
      /\ Current(k).attempt = Never \/ Current(k).attempt >= Retry
  BY DEF Due, k
<1>5. k \in DOMAIN incidents
  <2> SUFFICES ASSUME k \notin DOMAIN incidents PROVE FALSE OBVIOUS
  <2>1. Current(k).opened = 0 /\ Current(k).notified = Never BY <1>2, <1>3, CurrentIs
  <2> QED BY <1>4, <2>1, Intervals
<1>6. /\ Current(k).opened = incidents[k].opened
      /\ Current(k).notified = incidents[k].notified
      /\ Current(k).attempt = incidents[k].attempt
  BY <1>2, <1>3, <1>5, CurrentIs
<1>7. incidents[k].sameDay = TRUE BY <1>1, <1>5 DEF TickHolds, OneDay
<1>8. incidents[k] \in Incident BY <1>3, <1>5 DEF IsDict
<1>9. Earns(incidents[k], streak[s], s \in today) /\ Spaces(incidents[k], attempted[s])
  BY <1>1, <1>2, <1>5 DEF MemoryHolds
<1> QED BY <1>4, <1>5, <1>6, <1>7, <1>8, <1>9 DEF k

\* What an alert needs, it has: the incident is no older than the problem.
LEMMA EarnedStep ==
    ASSUME Assumptions, AInv, [Next]_vars, NEW s \in Sources, Alerts(s)
    PROVE  streak'[s] >= Confirm \/ s \in today
<1> DEFINE i == incidents[KeyOf(s)]
<1>1. /\ i \in Incident /\ i.sameDay = TRUE
      /\ i.notified # Never \/ i.opened >= Confirm
      /\ Earns(i, streak[s], s \in today)
  BY AlertIsDue, DueIsKnown DEF Alerts
<1>2. streak \in [Sources -> Never .. Confirm] BY InvInParts DEF HistoryHolds
<1>3. streak'[s] = IF streak[s] = Never THEN 0 ELSE streak[s] BY <1>2, AlertIsDue
<1> HIDE DEF i
<1>4. CASE i.notified = Never
  <2>1. i.opened >= Confirm /\ i.opened <= streak[s] /\ i.opened \in 0 .. Confirm
    BY <1>1, <1>4 DEF Earns, Incident
  <2>2. streak[s] \in Never .. Confirm BY <1>2
  <2> QED BY <1>3, <2>1, <2>2, Intervals
<1>5. CASE i.notified # Never BY <1>1, <1>5 DEF Earns
<1> QED BY <1>4, <1>5

\* The incident's own ages are no older than the last alert and attempt.
LEMMA SpacedStep ==
    ASSUME Assumptions, AInv, [Next]_vars, NEW s \in Sources, Alerts(s)
    PROVE  /\ heard[s] = Never \/ heard[s] >= Repeat
           /\ attempted[s] = Never \/ attempted[s] >= Retry
<1> DEFINE i == incidents[KeyOf(s)]
<1>1. /\ i \in Incident
      /\ i.notified # Never \/ i.opened >= Confirm
      /\ i.notified = Never \/ i.notified >= Repeat
      /\ i.attempt = Never \/ i.attempt >= Retry
      /\ Spaces(i, attempted[s])
  BY AlertIsDue, DueIsKnown DEF Alerts
<1>2. heard[s] \in Never .. Repeat /\ attempted[s] \in Never .. Retry
  BY InvInParts DEF HistoryHolds
<1>3. heard[s] # Never => i.notified \in 0 .. heard[s]
  BY InvInParts DEF MemoryHolds, Tells, Alerts
<1> HIDE DEF i
<1>4. heard[s] = Never \/ heard[s] >= Repeat
  <2> SUFFICES ASSUME heard[s] # Never PROVE heard[s] >= Repeat OBVIOUS
  <2>1. i.notified \in 0 .. heard[s] BY <1>3
  <2>2. i.notified >= Repeat BY <1>1, <2>1, Intervals
  <2> QED BY <1>2, <2>1, <2>2, Intervals
<1>5. attempted[s] = Never \/ attempted[s] >= Retry
  <2> SUFFICES ASSUME attempted[s] # Never PROVE attempted[s] >= Retry OBVIOUS
  <2>1. i.opened \in 0 .. Confirm /\ i.attempt \in Never .. Retry BY <1>1 DEF Incident
  <2>2. CASE i.attempt = Never
    <3>1. i.opened >= Confirm BY <1>1, <2>2 DEF Spaces
    <3>2. i.opened <= attempted[s] \/ Retry <= attempted[s] BY <1>1, <2>2 DEF Spaces
    <3> QED BY <1>2, <2>1, <3>1, <3>2, Intervals
  <2>3. CASE i.attempt # Never
    <3>1. i.attempt >= Retry /\ i.attempt <= attempted[s] BY <1>1, <2>3 DEF Spaces
    <3> QED BY <1>2, <2>1, <3>1, Intervals
  <2> QED BY <2>2, <2>3
<1> QED BY <1>4, <1>5

\* Only the third good observation ends an incident that was told.
LEMMA RecoveredStep ==
    ASSUME Assumptions, AInv, [Next]_vars, NEW k \in DOMAIN incidents,
           phase = "problems", phase' = "problems", k \notin DOMAIN incidents',
           incidents[k].notified # Never
    PROVE  wellFor'[k[1]] = 3
<1>1. TickHolds /\ HistoryHolds /\ MemoryHolds(incidents) /\ FileHolds(file) BY InvInParts
<1>2. ~Note
  <2> SUFFICES ASSUME Note PROVE FALSE OBVIOUS
  <2>1. PICK p \in problems :
          incidents' = With(incidents, SourceIncidentKey(p), Current(SourceIncidentKey(p)))
    BY DEF Note
  <2> QED BY <2>1 DEF With
<1>3. Clear
  BY <1>2
  DEF Next, Start, StartUnread, Pause, Reconcile, BeginProblems, PauseRaises, SaveRaises,
      TickRaises, Attempt, Sent, NotSent, Finish, Crash, Elapse, NewDay, vars
<1>4. PICK x \in rest :
        /\ incidents' =
             IF incidents[x].notified = Never \/ HasRecovered(x) THEN Without(incidents, {x})
             ELSE [incidents EXCEPT ![x].good = @ + 1]
        /\ wellFor' = [wellFor EXCEPT ![x[1]] = IF @ = 3 THEN 3 ELSE @ + 1]
  BY <1>3 DEF Clear
<1>5. x = k /\ HasRecovered(k) BY <1>4 DEF Without
<1>6. k[1] \in Sources /\ incidents[k] \in Incident
  BY <1>1, KeysName DEF MemoryHolds, IsDict
<1>7. wellFor \in [Sources -> 0 .. 3] BY <1>1 DEF HistoryHolds
<1>8. wellFor'[k[1]] = IF wellFor[k[1]] = 3 THEN 3 ELSE wellFor[k[1]] + 1
  BY <1>4, <1>5, <1>6, <1>7
<1>9. incidents[k].good <= wellFor[k[1]] BY <1>1 DEF MemoryHolds
<1>10. incidents[k].good \in 0 .. 2 /\ incidents[k].good + 1 >= 3
  BY <1>5, <1>6 DEF Incident, HasRecovered
<1>11. wellFor[k[1]] \in 0 .. 3 BY <1>6, <1>7
<1> QED BY <1>8, <1>9, <1>10, <1>11

\* Nobody is alerted of a source before its problem has been confirmed by one process,
\* on this day and without interruption, unless somebody was told of it today.
THEOREM AlertIsEarned == Spec => AlertEarned
<1>1. AInv /\ [Next]_vars =>
        [\A s \in Sources : Alerts(s) => streak'[s] >= Confirm \/ s \in today]_vars
  BY AlertAssumption, EarnedStep DEF Assumptions
<1> QED BY <1>1, AlertsInvariance, PTL DEF Spec, AlertEarned

\* Alerts of an incident that is remembered keep their distance, and so do attempts,
\* crashes or not, and whether or not the incident was forgotten: _load, reconcile.
THEOREM AlertsKeepDistance == Spec => AlertsSpaced
<1>1. AInv /\ [Next]_vars =>
        [\A s \in Sources : Alerts(s) =>
           /\ heard[s] = Never \/ heard[s] >= Repeat
           /\ attempted[s] = Never \/ attempted[s] >= Retry]_vars
  BY AlertAssumption, SpacedStep DEF Assumptions
<1> QED BY <1>1, AlertsInvariance, PTL DEF Spec, AlertsSpaced

\* A recovery is announced after three good observations in a row.
THEOREM RecoveryIsEarned == Spec => RecoveryEarned
<1>1. AInv /\ [Next]_vars =>
        [\A k \in DOMAIN incidents :
           phase = "problems" /\ phase' = "problems"
           /\ k \notin DOMAIN incidents' /\ incidents[k].notified # Never
               => wellFor'[k[1]] = 3]_vars
  BY AlertAssumption, RecoveredStep DEF Assumptions
<1> QED BY <1>1, AlertsInvariance, PTL DEF Spec, RecoveryEarned
=============================================================================
