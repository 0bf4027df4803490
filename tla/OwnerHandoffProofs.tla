------------------------- MODULE OwnerHandoffProofs -------------------------
(***************************************************************************)
(* Proofs about OwnerHandoff: for any number of Agents, generations,       *)
(* markers, starts and faults, the previous supervisor and the Hub's units *)
(* never run side by side, a marker is consumed once, a holder can recover *)
(* and an invalidated generation stays so.                                 *)
(*                                                                         *)
(* The lock alone gives none of this, since the files are read before it   *)
(* is taken.  What the invariant adds is that the Agents which have passed *)
(* the reading agree with the files, and so with each other, on the        *)
(* generation: a marker is only prepared while none of them runs.          *)
(***************************************************************************)
EXTENDS OwnerHandoff, TLAPS

\* The Agent has found a state or a marker that lets it go on.
Cleared(a) == at[a] \notin {"down", "off", "reading", "validating"}

Activating(a) == at[a] \in {"writing", "removing"}

\* An Agent that has not recovered, between reading the marker and consuming it.
Consuming(a) == at[a] \in {"checking", "locking", "writing", "removing"} /\ ~recovered[a]

\* An Agent that relies on the state file.
Relies(a) ==
    Holding(a) \/ at[a] = "removing" \/ (at[a] \in {"checking", "locking"} /\ recovered[a])

\* What has a generation has one that was prepared.
Configured ==
    /\ state = NoState \/ state.gen \in Generations
    /\ state.active => state.gen \in Generations
    /\ marker = NoMarker \/ marker.gen \in Generations
    /\ \A a \in Agents : at[a] # "down" => config[a] \in Lease

\* While the previous supervisor runs, nothing of the Hub is loading or loaded.
Separate == old => ~service /\ late = {} /\ \A a \in Agents : ~Mutating(a)

\* The lock is in the hands of the Agent that activates or holds.
Locked == \A a \in Agents : Holding(a) \/ Activating(a) => lock = a

\* Only an Agent that goes by the marker reads it, and writes.
Writers ==
    \A a \in Agents : at[a] = "validating" \/ Activating(a) => ~recovered[a]

\* Tokens are numbered as they are made, and the marker's has not been consumed.
Tokens ==
    /\ marker.token <= markers
    /\ \A lease \in receipts : lease.token <= markers
    /\ \A t \in spent : t <= markers
    /\ marker.token \notin spent

\* The marker that an Agent has read is still the one that is there.
OwnMarker ==
    \A a \in Agents : Consuming(a) => marker = NoMarker \/ marker.token = config[a].token

\* The marker, the state and the Agents that go by them agree on the generation.
Agreement ==
    /\ state.active => marker = NoMarker \/ marker.gen = state.gen
    /\ \A a \in Agents : Cleared(a) =>
          /\ state.active => state.gen = config[a].gen
          /\ marker = NoMarker \/ marker.gen = config[a].gen
    /\ \A a, b \in Agents : Cleared(a) /\ Cleared(b) => config[a].gen = config[b].gen

\* Who relies on the state file finds it active.
Reliable == \A a \in Agents : Relies(a) => erased \/ state.active

\* Generations that were invalidated are behind the state, the marker and every
\* Agent that goes by them.
Behind ==
    /\ state = NoState => revoked = {}
    /\ marker # NoMarker => state.gen <= marker.gen
    /\ \A r \in revoked :
          /\ r <= state.gen
          /\ marker # NoMarker => r <= marker.gen
          /\ \A a \in Agents : Cleared(a) => r <= config[a].gen

\* A marker of the state's own generation is about to be consumed, or torn.
Consumable ==
    marker # NoMarker =>
        \/ state.gen < marker.gen
        \/ marker.gen \in torn
        \/ \E a \in Agents : at[a] \in {"removing", "cleaning"} /\ config[a].gen = marker.gen

Free(g) == g \in torn \/ g \notin revoked

\* No generation in use has been invalidated, but for the torn ones.
Unrevoked ==
    /\ state.active => Free(state.gen)
    /\ marker # NoMarker => Free(marker.gen)
    /\ \A a \in Agents : Cleared(a) => Free(config[a].gen)

IInv ==
    /\ TypeOK /\ Configured /\ Separate /\ Locked /\ Writers /\ Tokens /\ OwnMarker
    /\ Agreement /\ Reliable /\ Behind /\ Consumable /\ Unrevoked

-----------------------------------------------------------------------------
\* Generations are positive numbers.
LEMMA Numbers == \A g \in Generations : g \in Nat /\ 0 < g
BY HandoffAssumption

LEMMA StateNumber == IInv => state.gen \in Nat
<1>1. TypeOK => state.gen \in Generations \union {0} BY DEF TypeOK
<1> QED BY <1>1, Numbers DEF IInv

LEMMA ConfigNumber == IInv => \A a \in Agents : config[a].gen \in Nat
<1>1. TypeOK => \A a \in Agents : config[a].gen \in Generations \union {0}
  BY DEF TypeOK, Lease, NoLease
<1> QED BY <1>1, Numbers DEF IInv

LEMMA MarkerNumber == IInv /\ marker # NoMarker => marker.gen \in Nat /\ 0 < marker.gen
<1>1. Configured /\ marker # NoMarker => marker.gen \in Generations BY DEF Configured
<1> QED BY <1>1, Numbers DEF IInv

\* What was invalidated is a number, and not ahead of the state.
LEMMA RevokedNumbers == IInv => \A r \in revoked : r \in Nat /\ r <= state.gen
<1>1. TypeOK => revoked \subseteq Generations BY DEF TypeOK
<1> QED BY <1>1, Numbers DEF IInv, Behind

LEMMA PrepareMarkerKeeps ==
    ASSUME IInv, NEW g \in Generations, PrepareMarker(g) PROVE IInv'
<1> USE DEF IInv, files, world, agents, bounds, history
<1>1. TypeOK' BY HandoffAssumption DEF PrepareMarker, NobodyRuns, MayFollow, MayReplace, Lease, TypeOK, Places, Configured, NoLease, NoMarker, NoState
<1>2. Configured' BY HandoffAssumption DEF PrepareMarker, NobodyRuns, MayFollow, MayReplace, Lease, TypeOK, Places, Configured, NoLease, NoMarker, NoState
<1>3. Separate' BY DEF PrepareMarker, NobodyRuns, MayFollow, MayReplace, Lease, TypeOK, Places, Separate, Mutating
<1>4. Locked' BY HandoffAssumption DEF PrepareMarker, NobodyRuns, MayFollow, MayReplace, Lease, TypeOK, Places, Locked, Holding, Mutating, Activating
<1>5. Writers' BY DEF PrepareMarker, NobodyRuns, MayFollow, MayReplace, Lease, TypeOK, Writers, Activating
<1>6. Tokens' BY DEF PrepareMarker, NobodyRuns, MayFollow, MayReplace, Lease, TypeOK, Configured, Tokens, OwnMarker, Consuming, Writers, Activating, NoMarker
<1>7. OwnMarker' BY DEF PrepareMarker, NobodyRuns, MayFollow, MayReplace, Lease, TypeOK, OwnMarker, Consuming, Writers, Activating, NoMarker
<1>8. Agreement' BY DEF PrepareMarker, NobodyRuns, MayFollow, MayReplace, Lease, TypeOK, Agreement, Cleared, NoMarker, NoState
<1>9. Reliable' BY DEF PrepareMarker, NobodyRuns, MayFollow, MayReplace, Lease, TypeOK, Reliable, Relies, Holding, Mutating, Writers, Activating
<1>10. Behind'
  <2>1. state.gen \in Nat /\ g \in Nat /\ 0 < g
    BY StateNumber, Numbers
  <2>2. state.gen < g
    BY <2>1 DEF PrepareMarker, MayFollow, NoState
  <2>3. /\ marker'.gen = g /\ state' = state /\ revoked' = revoked /\ torn' = torn
        /\ at' = at /\ \A a \in Agents : at[a] = "down"
    BY DEF PrepareMarker, NobodyRuns
  <2>4. \A r \in revoked : r \in Nat /\ r <= state.gen
    BY RevokedNumbers
  <2> QED BY <2>1, <2>2, <2>3, <2>4 DEF Behind, Cleared, NoMarker
<1>11. Consumable'
  <2>1. state.gen \in Nat /\ g \in Nat /\ 0 < g
    BY StateNumber, Numbers
  <2>2. state.gen < g
    BY <2>1 DEF PrepareMarker, MayFollow, NoState
  <2>3. /\ marker'.gen = g /\ state' = state /\ revoked' = revoked /\ torn' = torn
        /\ at' = at /\ \A a \in Agents : at[a] = "down"
    BY DEF PrepareMarker, NobodyRuns
  <2> QED BY <2>2, <2>3 DEF Consumable
<1>12. Unrevoked'
  <2>1. state.gen \in Nat /\ g \in Nat /\ 0 < g
    BY StateNumber, Numbers
  <2>2. state.gen < g
    BY <2>1 DEF PrepareMarker, MayFollow, NoState
  <2>3. /\ marker'.gen = g /\ state' = state /\ revoked' = revoked /\ torn' = torn
        /\ at' = at /\ \A a \in Agents : at[a] = "down"
    BY DEF PrepareMarker, NobodyRuns
  <2>4. g \notin revoked
    <3>1. \A r \in revoked : r \in Nat /\ r <= state.gen
      BY RevokedNumbers
    <3> QED BY <2>1, <2>2, <3>1
  <2> QED BY <2>3, <2>4 DEF Unrevoked, Free, Cleared
<1> QED BY <1>1, <1>2, <1>3, <1>4, <1>5, <1>6, <1>7, <1>8, <1>9, <1>10, <1>11, <1>12

LEMMA InvalidateStateKeeps ==
    ASSUME IInv, InvalidateState PROVE IInv'
<1> USE DEF IInv, files, world, agents, bounds, history
<1>1. TypeOK' BY HandoffAssumption DEF InvalidateState, NobodyRuns, TypeOK, Places, Configured, Lease, NoLease, NoMarker, NoState
<1>2. Configured' BY HandoffAssumption DEF InvalidateState, NobodyRuns, TypeOK, Places, Configured, Lease, NoLease, NoMarker, NoState
<1>3. Separate' BY DEF InvalidateState, NobodyRuns, TypeOK, Places, Separate, Mutating
<1>4. Locked' BY HandoffAssumption DEF InvalidateState, NobodyRuns, TypeOK, Places, Locked, Holding, Mutating, Activating
<1>5. Writers' BY DEF InvalidateState, NobodyRuns, TypeOK, Writers, Activating
<1>6. Tokens' BY DEF InvalidateState, NobodyRuns, TypeOK, Configured, Tokens, OwnMarker, Consuming, Writers, Activating, NoMarker, Lease
<1>7. OwnMarker' BY DEF InvalidateState, NobodyRuns, TypeOK, OwnMarker, Consuming, Writers, Activating, NoMarker
<1>8. Agreement' BY DEF InvalidateState, NobodyRuns, TypeOK, Agreement, Cleared, NoMarker, NoState
<1>9. Reliable' BY DEF InvalidateState, NobodyRuns, TypeOK, Reliable, Relies, Holding, Mutating, Writers, Activating
<1>10. Behind'
  <2>1. /\ state'.gen = state.gen /\ revoked' = revoked \union {state.gen}
        /\ marker' = marker /\ at' = at /\ \A a \in Agents : at[a] = "down"
    BY DEF InvalidateState, NobodyRuns, TypeOK
  <2>2. state'.gen # 0
    BY <2>1, Numbers DEF InvalidateState, Configured
  <2>3. state.gen \in Nat
    BY StateNumber
  <2> QED BY <2>1, <2>2, <2>3 DEF Behind, Cleared, NoState
<1>11. Consumable' BY DEF InvalidateState, NobodyRuns, TypeOK, Configured, Consumable, Agreement, Behind, Cleared, NoMarker, NoState
<1>12. Unrevoked'
  <2>1. /\ ~state'.active /\ revoked' = revoked \union {state.gen} /\ torn' = torn
        /\ marker' = marker /\ at' = at /\ \A a \in Agents : at[a] = "down"
    BY DEF InvalidateState, NobodyRuns, TypeOK
  <2>2. marker # NoMarker => marker.gen \in torn \/ state.gen < marker.gen
    BY <2>1 DEF Consumable
  <2>3. state.gen \in Nat
    BY StateNumber
  <2> QED BY <2>1, <2>2, <2>3 DEF Unrevoked, Free, Cleared
<1> QED BY <1>1, <1>2, <1>3, <1>4, <1>5, <1>6, <1>7, <1>8, <1>9, <1>10, <1>11, <1>12

LEMMA ExpireKeeps ==
    ASSUME IInv, Expire PROVE IInv'
<1> USE DEF IInv, files, world, agents, bounds, history
<1>1. TypeOK' BY HandoffAssumption DEF Expire, TypeOK, Places, Configured, Lease, NoLease, NoMarker, NoState
<1>2. Configured' BY HandoffAssumption DEF Expire, TypeOK, Places, Configured, Lease, NoLease, NoMarker, NoState
<1>3. Separate' BY DEF Expire, TypeOK, Places, Separate, Mutating
<1>4. Locked' BY HandoffAssumption DEF Expire, TypeOK, Places, Locked, Holding, Mutating, Activating
<1>5. Writers' BY DEF Expire, TypeOK, Writers, Activating
<1>6. Tokens' BY DEF Expire, TypeOK, Configured, Tokens, OwnMarker, Consuming, Writers, Activating, NoMarker, Lease
<1>7. OwnMarker' BY DEF Expire, TypeOK, OwnMarker, Consuming, Writers, Activating, NoMarker
<1>8. Agreement' BY DEF Expire, TypeOK, Agreement, Cleared, NoMarker, NoState
<1>9. Reliable' BY DEF Expire, TypeOK, Reliable, Relies, Holding, Mutating, Writers, Activating
<1>10. Behind' BY DEF Expire, TypeOK, Configured, Behind, Agreement, Cleared, NoMarker, NoState, Lease
<1>11. Consumable' BY DEF Expire, TypeOK, Configured, Consumable, Agreement, Behind, Cleared, NoMarker, NoState
<1>12. Unrevoked' BY DEF Expire, TypeOK, Configured, Unrevoked, Free, Agreement, Behind, Consumable, Cleared, NoMarker, NoState
<1> QED BY <1>1, <1>2, <1>3, <1>4, <1>5, <1>6, <1>7, <1>8, <1>9, <1>10, <1>11, <1>12

LEMMA StartKeeps ==
    ASSUME IInv, NEW a \in Agents, Start(a) PROVE IInv'
<1> USE DEF IInv, files, world, agents, bounds, history
<1>1. TypeOK' BY HandoffAssumption DEF Start, Goes, Lease, TypeOK, Places, Configured, NoLease, NoMarker, NoState
<1>2. Configured' BY HandoffAssumption DEF Start, Goes, Lease, TypeOK, Places, Configured, NoLease, NoMarker, NoState
<1>3. Separate' BY DEF Start, Goes, Lease, TypeOK, Places, Separate, Mutating
<1>4. Locked' BY HandoffAssumption DEF Start, Goes, Lease, TypeOK, Places, Locked, Holding, Mutating, Activating
<1>5. Writers' BY DEF Start, Goes, Lease, TypeOK, Writers, Activating
<1>6. Tokens' BY DEF Start, Goes, Lease, TypeOK, Configured, Tokens, OwnMarker, Consuming, Writers, Activating, NoMarker
<1>7. OwnMarker' BY DEF Start, Goes, Lease, TypeOK, OwnMarker, Consuming, Writers, Activating, NoMarker
<1>8. Agreement' BY DEF Start, Goes, Lease, TypeOK, Agreement, Cleared, NoMarker, NoState
<1>9. Reliable' BY DEF Start, Goes, Lease, TypeOK, Reliable, Relies, Holding, Mutating, Writers, Activating
<1>10. Behind' BY DEF Start, Goes, Lease, TypeOK, Configured, Behind, Agreement, Cleared, NoMarker, NoState
<1>11. Consumable' BY DEF Start, Goes, Lease, TypeOK, Configured, Consumable, Agreement, Behind, Cleared, NoMarker, NoState
<1>12. Unrevoked' BY DEF Start, Goes, Lease, TypeOK, Configured, Unrevoked, Free, Agreement, Behind, Consumable, Cleared, NoMarker, NoState
<1> QED BY <1>1, <1>2, <1>3, <1>4, <1>5, <1>6, <1>7, <1>8, <1>9, <1>10, <1>11, <1>12

LEMMA ReadStateKeeps ==
    ASSUME IInv, NEW a \in Agents, ReadState(a) PROVE IInv'
<1> USE DEF IInv, files, world, agents, bounds, history
<1>1. TypeOK' BY HandoffAssumption DEF ReadState, Goes, Recovers, TypeOK, Places, Configured, Lease, NoLease, NoMarker, NoState
<1>2. Configured' BY HandoffAssumption DEF ReadState, Goes, Recovers, TypeOK, Places, Configured, Lease, NoLease, NoMarker, NoState
<1>3. Separate' BY DEF ReadState, Goes, Recovers, TypeOK, Places, Separate, Mutating
<1>4. Locked' BY HandoffAssumption DEF ReadState, Goes, Recovers, TypeOK, Places, Locked, Holding, Mutating, Activating
<1>5. Writers' BY DEF ReadState, Goes, Recovers, TypeOK, Writers, Activating
<1>6. Tokens' BY DEF ReadState, Goes, Recovers, TypeOK, Configured, Tokens, OwnMarker, Consuming, Writers, Activating, NoMarker, Lease
<1>7. OwnMarker' BY DEF ReadState, Goes, Recovers, TypeOK, OwnMarker, Consuming, Writers, Activating, NoMarker
<1>8. Agreement' BY DEF ReadState, Goes, Recovers, TypeOK, Agreement, Cleared, NoMarker, NoState
<1>9. Reliable' BY DEF ReadState, Goes, Recovers, TypeOK, Reliable, Relies, Holding, Mutating, Writers, Activating
<1>10. Behind' BY DEF ReadState, Goes, Recovers, TypeOK, Configured, Behind, Agreement, Cleared, NoMarker, NoState, Lease
<1>11. Consumable' BY DEF ReadState, Goes, Recovers, TypeOK, Configured, Consumable, Agreement, Behind, Cleared, NoMarker, NoState
<1>12. Unrevoked' BY DEF ReadState, Goes, Recovers, TypeOK, Configured, Unrevoked, Free, Agreement, Behind, Consumable, Cleared, NoMarker, NoState
<1> QED BY <1>1, <1>2, <1>3, <1>4, <1>5, <1>6, <1>7, <1>8, <1>9, <1>10, <1>11, <1>12

LEMMA ReadMarkerKeeps ==
    ASSUME IInv, NEW a \in Agents, ReadMarker(a) PROVE IInv'
<1> USE DEF IInv, files, world, agents, bounds, history
<1>1. TypeOK' BY HandoffAssumption DEF ReadMarker, Goes, Valid, TypeOK, Places, Configured, Lease, NoLease, NoMarker, NoState
<1>2. Configured' BY HandoffAssumption DEF ReadMarker, Goes, Valid, TypeOK, Places, Configured, Lease, NoLease, NoMarker, NoState
<1>3. Separate' BY DEF ReadMarker, Goes, Valid, TypeOK, Places, Separate, Mutating
<1>4. Locked' BY HandoffAssumption DEF ReadMarker, Goes, Valid, TypeOK, Places, Locked, Holding, Mutating, Activating
<1>5. Writers' BY DEF ReadMarker, Goes, Valid, TypeOK, Writers, Activating
<1>6. Tokens' BY DEF ReadMarker, Goes, Valid, TypeOK, Configured, Tokens, OwnMarker, Consuming, Writers, Activating, NoMarker, Lease
<1>7. OwnMarker' BY DEF ReadMarker, Goes, Valid, TypeOK, OwnMarker, Consuming, Writers, Activating, NoMarker
<1>8. Agreement' BY DEF ReadMarker, Goes, Valid, TypeOK, Agreement, Cleared, NoMarker, NoState
<1>9. Reliable' BY DEF ReadMarker, Goes, Valid, TypeOK, Reliable, Relies, Holding, Mutating, Writers, Activating
<1>10. Behind' BY DEF ReadMarker, Goes, Valid, TypeOK, Configured, Behind, Agreement, Cleared, NoMarker, NoState, Lease
<1>11. Consumable' BY DEF ReadMarker, Goes, Valid, TypeOK, Configured, Consumable, Agreement, Behind, Cleared, NoMarker, NoState
<1>12. Unrevoked' BY DEF ReadMarker, Goes, Valid, TypeOK, Configured, Unrevoked, Free, Agreement, Behind, Consumable, Cleared, NoMarker, NoState
<1> QED BY <1>1, <1>2, <1>3, <1>4, <1>5, <1>6, <1>7, <1>8, <1>9, <1>10, <1>11, <1>12

LEMMA CheckOldKeeps ==
    ASSUME IInv, NEW a \in Agents, CheckOld(a) PROVE IInv'
<1> USE DEF IInv, files, world, agents, bounds, history
<1>1. TypeOK' BY HandoffAssumption DEF CheckOld, Goes, Absent, TypeOK, Places, Configured, Lease, NoLease, NoMarker, NoState
<1>2. Configured' BY HandoffAssumption DEF CheckOld, Goes, Absent, TypeOK, Places, Configured, Lease, NoLease, NoMarker, NoState
<1>3. Separate' BY DEF CheckOld, Goes, Absent, TypeOK, Places, Separate, Mutating
<1>4. Locked' BY HandoffAssumption DEF CheckOld, Goes, Absent, TypeOK, Places, Locked, Holding, Mutating, Activating
<1>5. Writers' BY DEF CheckOld, Goes, Absent, TypeOK, Writers, Activating
<1>6. Tokens' BY DEF CheckOld, Goes, Absent, TypeOK, Configured, Tokens, OwnMarker, Consuming, Writers, Activating, NoMarker, Lease
<1>7. OwnMarker' BY DEF CheckOld, Goes, Absent, TypeOK, OwnMarker, Consuming, Writers, Activating, NoMarker
<1>8. Agreement' BY DEF CheckOld, Goes, Absent, TypeOK, Agreement, Cleared, NoMarker, NoState
<1>9. Reliable' BY DEF CheckOld, Goes, Absent, TypeOK, Reliable, Relies, Holding, Mutating, Writers, Activating
<1>10. Behind' BY DEF CheckOld, Goes, Absent, TypeOK, Configured, Behind, Agreement, Cleared, NoMarker, NoState, Lease
<1>11. Consumable' BY DEF CheckOld, Goes, Absent, TypeOK, Configured, Consumable, Agreement, Behind, Cleared, NoMarker, NoState
<1>12. Unrevoked' BY DEF CheckOld, Goes, Absent, TypeOK, Configured, Unrevoked, Free, Agreement, Behind, Consumable, Cleared, NoMarker, NoState
<1> QED BY <1>1, <1>2, <1>3, <1>4, <1>5, <1>6, <1>7, <1>8, <1>9, <1>10, <1>11, <1>12

LEMMA TryLockKeeps ==
    ASSUME IInv, NEW a \in Agents, TryLock(a) PROVE IInv'
<1> USE DEF IInv, files, world, agents, bounds, history
<1>1. TypeOK' BY HandoffAssumption DEF TryLock, Goes, TypeOK, Places, Configured, Lease, NoLease, NoMarker, NoState
<1>2. Configured' BY HandoffAssumption DEF TryLock, Goes, TypeOK, Places, Configured, Lease, NoLease, NoMarker, NoState
<1>3. Separate' BY DEF TryLock, Goes, TypeOK, Places, Separate, Mutating
<1>4. Locked' BY HandoffAssumption DEF TryLock, Goes, TypeOK, Places, Locked, Holding, Mutating, Activating
<1>5. Writers' BY DEF TryLock, Goes, TypeOK, Writers, Activating
<1>6. Tokens' BY DEF TryLock, Goes, TypeOK, Configured, Tokens, OwnMarker, Consuming, Writers, Activating, NoMarker, Lease
<1>7. OwnMarker' BY DEF TryLock, Goes, TypeOK, OwnMarker, Consuming, Writers, Activating, NoMarker
<1>8. Agreement' BY DEF TryLock, Goes, TypeOK, Agreement, Cleared, NoMarker, NoState
<1>9. Reliable' BY DEF TryLock, Goes, TypeOK, Reliable, Relies, Holding, Mutating, Writers, Activating
<1>10. Behind' BY DEF TryLock, Goes, TypeOK, Configured, Behind, Agreement, Cleared, NoMarker, NoState, Lease
<1>11. Consumable' BY DEF TryLock, Goes, TypeOK, Configured, Consumable, Agreement, Behind, Cleared, NoMarker, NoState
<1>12. Unrevoked' BY DEF TryLock, Goes, TypeOK, Configured, Unrevoked, Free, Agreement, Behind, Consumable, Cleared, NoMarker, NoState
<1> QED BY <1>1, <1>2, <1>3, <1>4, <1>5, <1>6, <1>7, <1>8, <1>9, <1>10, <1>11, <1>12

LEMMA WriteStateKeeps ==
    ASSUME IInv, NEW a \in Agents, WriteState(a) PROVE IInv'
<1> USE DEF IInv, files, world, agents, bounds, history
<1>1. TypeOK' BY HandoffAssumption DEF WriteState, Goes, TypeOK, Places, Configured, Lease, NoLease, NoMarker, NoState
<1>2. Configured' BY HandoffAssumption DEF WriteState, Goes, TypeOK, Places, Configured, Lease, NoLease, NoMarker, NoState
<1>3. Separate' BY DEF WriteState, Goes, TypeOK, Places, Separate, Mutating
<1>4. Locked' BY HandoffAssumption DEF WriteState, Goes, TypeOK, Places, Locked, Holding, Mutating, Activating
<1>5. Writers' BY DEF WriteState, Goes, TypeOK, Writers, Activating
<1>6. Tokens' BY DEF WriteState, Goes, TypeOK, Configured, Tokens, OwnMarker, Consuming, Writers, Activating, NoMarker, Lease
<1>7. OwnMarker' BY DEF WriteState, Goes, TypeOK, OwnMarker, Consuming, Writers, Activating, NoMarker
<1>8. Agreement' BY DEF WriteState, Goes, TypeOK, Agreement, Cleared, NoMarker, NoState
<1>9. Reliable' BY DEF WriteState, Goes, TypeOK, Reliable, Relies, Holding, Mutating, Writers, Activating
<1>10. Behind'
  <2>1. /\ state'.gen = config[a].gen /\ state'.active /\ marker' = marker
        /\ revoked' = revoked /\ config' = config /\ Cleared(a)
        /\ \A b \in Agents : Cleared(b)' => Cleared(b)
    BY DEF WriteState, Goes, Cleared, TypeOK
  <2>2. config[a].gen \in Nat
    BY ConfigNumber
  <2>3. marker # NoMarker => config[a].gen <= marker.gen
    BY <2>1, <2>2 DEF Agreement
  <2> QED BY <2>1, <2>2, <2>3 DEF Behind, NoState
<1>11. Consumable' BY DEF WriteState, Goes, TypeOK, Configured, Consumable, Agreement, Behind, Cleared, NoMarker, NoState
<1>12. Unrevoked' BY DEF WriteState, Goes, TypeOK, Configured, Unrevoked, Free, Agreement, Behind, Consumable, Cleared, NoMarker, NoState
<1> QED BY <1>1, <1>2, <1>3, <1>4, <1>5, <1>6, <1>7, <1>8, <1>9, <1>10, <1>11, <1>12

LEMMA RemoveMarkerKeeps ==
    ASSUME IInv, NEW a \in Agents, RemoveMarker(a) PROVE IInv'
<1> USE DEF IInv, files, world, agents, bounds, history
<1>1. TypeOK'
  <2>1. config[a].token \in 1 .. MaxMarkers
    BY DEF RemoveMarker, Configured, Lease
  <2>2. NoMarker \in [gen : Generations \union {0}, token : 0 .. MaxMarkers, fresh : BOOLEAN]
    BY HandoffAssumption DEF NoMarker
  <2> QED BY <2>1, <2>2 DEF RemoveMarker, Goes, TypeOK, Places
<1>2. Configured' BY HandoffAssumption DEF RemoveMarker, Goes, TypeOK, Places, Configured, Lease, NoLease, NoMarker, NoState
<1>3. Separate' BY DEF RemoveMarker, Goes, TypeOK, Places, Separate, Mutating
<1>4. Locked' BY HandoffAssumption DEF RemoveMarker, Goes, TypeOK, Places, Locked, Holding, Mutating, Activating
<1>5. Writers' BY DEF RemoveMarker, Goes, TypeOK, Writers, Activating
<1>6. Tokens' BY DEF RemoveMarker, Goes, TypeOK, Configured, Tokens, OwnMarker, Consuming, Writers, Activating, NoMarker, Lease
<1>7. OwnMarker' BY DEF RemoveMarker, Goes, TypeOK, OwnMarker, Consuming, Writers, Activating, NoMarker
<1>8. Agreement' BY DEF RemoveMarker, Goes, TypeOK, Agreement, Cleared, NoMarker, NoState
<1>9. Reliable' BY DEF RemoveMarker, Goes, TypeOK, Reliable, Relies, Holding, Mutating, Writers, Activating
<1>10. Behind' BY DEF RemoveMarker, Goes, TypeOK, Configured, Behind, Agreement, Cleared, NoMarker, NoState, Lease
<1>11. Consumable' BY DEF RemoveMarker, Goes, TypeOK, Configured, Consumable, Agreement, Behind, Cleared, NoMarker, NoState
<1>12. Unrevoked' BY DEF RemoveMarker, Goes, TypeOK, Configured, Unrevoked, Free, Agreement, Behind, Consumable, Cleared, NoMarker, NoState
<1> QED BY <1>1, <1>2, <1>3, <1>4, <1>5, <1>6, <1>7, <1>8, <1>9, <1>10, <1>11, <1>12

LEMMA FailActivationKeeps ==
    ASSUME IInv, NEW a \in Agents, FailActivation(a) PROVE IInv'
<1> USE DEF IInv, files, world, agents, bounds, history
<1>1. TypeOK' BY HandoffAssumption DEF FailActivation, Goes, TypeOK, Places, Configured, Lease, NoLease, NoMarker, NoState
<1>2. Configured' BY HandoffAssumption DEF FailActivation, Goes, TypeOK, Places, Configured, Lease, NoLease, NoMarker, NoState
<1>3. Separate' BY DEF FailActivation, Goes, TypeOK, Places, Separate, Mutating
<1>4. Locked' BY HandoffAssumption DEF FailActivation, Goes, TypeOK, Places, Locked, Holding, Mutating, Activating
<1>5. Writers' BY DEF FailActivation, Goes, TypeOK, Writers, Activating
<1>6. Tokens' BY DEF FailActivation, Goes, TypeOK, Configured, Tokens, OwnMarker, Consuming, Writers, Activating, NoMarker, Lease
<1>7. OwnMarker' BY DEF FailActivation, Goes, TypeOK, OwnMarker, Consuming, Writers, Activating, NoMarker
<1>8. Agreement' BY DEF FailActivation, Goes, TypeOK, Agreement, Cleared, NoMarker, NoState
<1>9. Reliable' BY DEF FailActivation, Goes, TypeOK, Reliable, Relies, Holding, Mutating, Writers, Activating
<1>10. Behind' BY DEF FailActivation, Goes, TypeOK, Configured, Behind, Agreement, Cleared, NoMarker, NoState, Lease
<1>11. Consumable' BY DEF FailActivation, Goes, TypeOK, Configured, Consumable, Agreement, Behind, Cleared, NoMarker, NoState
<1>12. Unrevoked' BY DEF FailActivation, Goes, TypeOK, Configured, Unrevoked, Free, Agreement, Behind, Consumable, Cleared, NoMarker, NoState
<1> QED BY <1>1, <1>2, <1>3, <1>4, <1>5, <1>6, <1>7, <1>8, <1>9, <1>10, <1>11, <1>12

LEMMA EraseStateKeeps ==
    ASSUME IInv, NEW a \in Agents, EraseState(a) PROVE IInv'
<1> USE DEF IInv, files, world, agents, bounds, history
<1>1. TypeOK' BY HandoffAssumption DEF EraseState, Goes, TypeOK, Places, Configured, Lease, NoLease, NoMarker, NoState
<1>2. Configured' BY HandoffAssumption DEF EraseState, Goes, TypeOK, Places, Configured, Lease, NoLease, NoMarker, NoState
<1>3. Separate' BY DEF EraseState, Goes, TypeOK, Places, Separate, Mutating
<1>4. Locked' BY HandoffAssumption DEF EraseState, Goes, TypeOK, Places, Locked, Holding, Mutating, Activating
<1>5. Writers' BY DEF EraseState, Goes, TypeOK, Writers, Activating
<1>6. Tokens' BY DEF EraseState, Goes, TypeOK, Configured, Tokens, OwnMarker, Consuming, Writers, Activating, NoMarker, Lease
<1>7. OwnMarker' BY DEF EraseState, Goes, TypeOK, OwnMarker, Consuming, Writers, Activating, NoMarker
<1>8. Agreement' BY DEF EraseState, Goes, TypeOK, Agreement, Cleared, NoMarker, NoState
<1>9. Reliable' BY DEF EraseState, Goes, TypeOK, Reliable, Relies, Holding, Mutating, Writers, Activating
<1>10. Behind'
  <2>1. state'.gen = 0 /\ marker' = marker /\ revoked' = {}
    BY DEF EraseState, NoState
  <2>2. marker # NoMarker => marker.gen \in Nat
    BY MarkerNumber
  <2> QED BY <2>1, <2>2 DEF Behind
<1>11. Consumable'
  <2>1. state'.gen = 0 /\ marker' = marker
    BY DEF EraseState, NoState
  <2>2. marker # NoMarker => marker.gen \in Nat \ {0}
    BY MarkerNumber
  <2> QED BY <2>1, <2>2 DEF Consumable
<1>12. Unrevoked' BY DEF EraseState, Goes, TypeOK, Configured, Unrevoked, Free, Agreement, Behind, Consumable, Cleared, NoMarker, NoState
<1> QED BY <1>1, <1>2, <1>3, <1>4, <1>5, <1>6, <1>7, <1>8, <1>9, <1>10, <1>11, <1>12

LEMMA ExecuteKeeps ==
    ASSUME IInv, NEW a \in Agents, Execute(a) PROVE IInv'
<1> USE DEF IInv, files, world, agents, bounds, history
<1>1. TypeOK' BY HandoffAssumption DEF Execute, Goes, LoseLease, Absent, TypeOK, Places, Configured, Lease, NoLease, NoMarker, NoState
<1>2. Configured' BY HandoffAssumption DEF Execute, Goes, LoseLease, Absent, TypeOK, Places, Configured, Lease, NoLease, NoMarker, NoState
<1>3. Separate' BY DEF Execute, Goes, LoseLease, Absent, TypeOK, Places, Separate, Mutating
<1>4. Locked' BY HandoffAssumption DEF Execute, Goes, LoseLease, Absent, TypeOK, Places, Locked, Holding, Mutating, Activating
<1>5. Writers' BY DEF Execute, Goes, LoseLease, Absent, TypeOK, Writers, Activating
<1>6. Tokens' BY DEF Execute, Goes, LoseLease, Absent, TypeOK, Configured, Tokens, OwnMarker, Consuming, Writers, Activating, NoMarker, Lease
<1>7. OwnMarker' BY DEF Execute, Goes, LoseLease, Absent, TypeOK, OwnMarker, Consuming, Writers, Activating, NoMarker
<1>8. Agreement' BY DEF Execute, Goes, LoseLease, Absent, TypeOK, Agreement, Cleared, NoMarker, NoState
<1>9. Reliable' BY DEF Execute, Goes, LoseLease, Absent, TypeOK, Reliable, Relies, Holding, Mutating, Writers, Activating
<1>10. Behind' BY DEF Execute, Goes, LoseLease, Absent, TypeOK, Configured, Behind, Agreement, Cleared, NoMarker, NoState, Lease
<1>11. Consumable' BY DEF Execute, Goes, LoseLease, Absent, TypeOK, Configured, Consumable, Agreement, Behind, Cleared, NoMarker, NoState
<1>12. Unrevoked' BY DEF Execute, Goes, LoseLease, Absent, TypeOK, Configured, Unrevoked, Free, Agreement, Behind, Consumable, Cleared, NoMarker, NoState
<1> QED BY <1>1, <1>2, <1>3, <1>4, <1>5, <1>6, <1>7, <1>8, <1>9, <1>10, <1>11, <1>12

LEMMA ContinueAfterPreflightKeeps ==
    ASSUME IInv, NEW a \in Agents, ContinueAfterPreflight(a) PROVE IInv'
<1> USE DEF IInv, files, world, agents, bounds, history
<1>1. TypeOK' BY HandoffAssumption DEF ContinueAfterPreflight, Goes, LoseLease, Absent, TypeOK, Places, Configured, Lease, NoLease, NoMarker, NoState
<1>2. Configured' BY HandoffAssumption DEF ContinueAfterPreflight, Goes, LoseLease, Absent, TypeOK, Places, Configured, Lease, NoLease, NoMarker, NoState
<1>3. Separate' BY DEF ContinueAfterPreflight, Goes, LoseLease, Absent, TypeOK, Places, Separate, Mutating
<1>4. Locked' BY HandoffAssumption DEF ContinueAfterPreflight, Goes, LoseLease, Absent, TypeOK, Places, Locked, Holding, Mutating, Activating
<1>5. Writers' BY DEF ContinueAfterPreflight, Goes, LoseLease, Absent, TypeOK, Writers, Activating
<1>6. Tokens' BY DEF ContinueAfterPreflight, Goes, LoseLease, Absent, TypeOK, Configured, Tokens, OwnMarker, Consuming, Writers, Activating, NoMarker, Lease
<1>7. OwnMarker' BY DEF ContinueAfterPreflight, Goes, LoseLease, Absent, TypeOK, OwnMarker, Consuming, Writers, Activating, NoMarker
<1>8. Agreement' BY DEF ContinueAfterPreflight, Goes, LoseLease, Absent, TypeOK, Agreement, Cleared, NoMarker, NoState
<1>9. Reliable' BY DEF ContinueAfterPreflight, Goes, LoseLease, Absent, TypeOK, Reliable, Relies, Holding, Mutating, Writers, Activating
<1>10. Behind' BY DEF ContinueAfterPreflight, Goes, LoseLease, Absent, TypeOK, Configured, Behind, Agreement, Cleared, NoMarker, NoState, Lease
<1>11. Consumable' BY DEF ContinueAfterPreflight, Goes, LoseLease, Absent, TypeOK, Configured, Consumable, Agreement, Behind, Cleared, NoMarker, NoState
<1>12. Unrevoked' BY DEF ContinueAfterPreflight, Goes, LoseLease, Absent, TypeOK, Configured, Unrevoked, Free, Agreement, Behind, Consumable, Cleared, NoMarker, NoState
<1> QED BY <1>1, <1>2, <1>3, <1>4, <1>5, <1>6, <1>7, <1>8, <1>9, <1>10, <1>11, <1>12

LEMMA EffectKeeps ==
    ASSUME IInv, NEW a \in Agents, Effect(a) PROVE IInv'
<1> USE DEF IInv, files, world, agents, bounds, history
<1>1. TypeOK' BY HandoffAssumption DEF Effect, Goes, Mutating, TypeOK, Places, Configured, Lease, NoLease, NoMarker, NoState
<1>2. Configured' BY HandoffAssumption DEF Effect, Goes, Mutating, TypeOK, Places, Configured, Lease, NoLease, NoMarker, NoState
<1>3. Separate' BY DEF Effect, Goes, Mutating, TypeOK, Places, Separate
<1>4. Locked' BY HandoffAssumption DEF Effect, Goes, Mutating, TypeOK, Places, Locked, Holding, Activating
<1>5. Writers' BY DEF Effect, Goes, Mutating, TypeOK, Writers, Activating
<1>6. Tokens' BY DEF Effect, Goes, Mutating, TypeOK, Configured, Tokens, OwnMarker, Consuming, Writers, Activating, NoMarker, Lease
<1>7. OwnMarker' BY DEF Effect, Goes, Mutating, TypeOK, OwnMarker, Consuming, Writers, Activating, NoMarker
<1>8. Agreement' BY DEF Effect, Goes, Mutating, TypeOK, Agreement, Cleared, NoMarker, NoState
<1>9. Reliable' BY DEF Effect, Goes, Mutating, TypeOK, Reliable, Relies, Holding, Writers, Activating
<1>10. Behind' BY DEF Effect, Goes, Mutating, TypeOK, Configured, Behind, Agreement, Cleared, NoMarker, NoState, Lease
<1>11. Consumable' BY DEF Effect, Goes, Mutating, TypeOK, Configured, Consumable, Agreement, Behind, Cleared, NoMarker, NoState
<1>12. Unrevoked' BY DEF Effect, Goes, Mutating, TypeOK, Configured, Unrevoked, Free, Agreement, Behind, Consumable, Cleared, NoMarker, NoState
<1> QED BY <1>1, <1>2, <1>3, <1>4, <1>5, <1>6, <1>7, <1>8, <1>9, <1>10, <1>11, <1>12

LEMMA DeadlineKeeps ==
    ASSUME IInv, NEW a \in Agents, Deadline(a) PROVE IInv'
<1> USE DEF IInv, files, world, agents, bounds, history
<1>1. TypeOK' BY HandoffAssumption DEF Deadline, Goes, Mutating, TypeOK, Places, Configured, Lease, NoLease, NoMarker, NoState
<1>2. Configured' BY HandoffAssumption DEF Deadline, Goes, Mutating, TypeOK, Places, Configured, Lease, NoLease, NoMarker, NoState
<1>3. Separate' BY DEF Deadline, Goes, Mutating, TypeOK, Places, Separate
<1>4. Locked' BY HandoffAssumption DEF Deadline, Goes, Mutating, TypeOK, Places, Locked, Holding, Activating
<1>5. Writers' BY DEF Deadline, Goes, Mutating, TypeOK, Writers, Activating
<1>6. Tokens' BY DEF Deadline, Goes, Mutating, TypeOK, Configured, Tokens, OwnMarker, Consuming, Writers, Activating, NoMarker, Lease
<1>7. OwnMarker' BY DEF Deadline, Goes, Mutating, TypeOK, OwnMarker, Consuming, Writers, Activating, NoMarker
<1>8. Agreement' BY DEF Deadline, Goes, Mutating, TypeOK, Agreement, Cleared, NoMarker, NoState
<1>9. Reliable' BY DEF Deadline, Goes, Mutating, TypeOK, Reliable, Relies, Holding, Writers, Activating
<1>10. Behind' BY DEF Deadline, Goes, Mutating, TypeOK, Configured, Behind, Agreement, Cleared, NoMarker, NoState, Lease
<1>11. Consumable' BY DEF Deadline, Goes, Mutating, TypeOK, Configured, Consumable, Agreement, Behind, Cleared, NoMarker, NoState
<1>12. Unrevoked' BY DEF Deadline, Goes, Mutating, TypeOK, Configured, Unrevoked, Free, Agreement, Behind, Consumable, Cleared, NoMarker, NoState
<1> QED BY <1>1, <1>2, <1>3, <1>4, <1>5, <1>6, <1>7, <1>8, <1>9, <1>10, <1>11, <1>12

LEMMA LeaveKeeps ==
    ASSUME IInv, NEW a \in Agents, Leave(a) PROVE IInv'
<1> USE DEF IInv, files, world, agents, bounds, history
<1>1. TypeOK'
  <2>1. config[a].gen \in Generations
    BY DEF Leave, Configured, Lease
  <2>2. torn' \subseteq Generations /\ late' \subseteq {"starting", "stopping"}
    BY <2>1 DEF Leave, Mutating, TypeOK
  <2>3. lock' \in Agents \union {"nobody"} /\ at' \in [Agents -> Places]
    BY DEF Leave, Goes, TypeOK, Places
  <2> QED BY <2>2, <2>3 DEF Leave, TypeOK
<1>2. Configured' BY HandoffAssumption DEF Leave, Goes, Mutating, TypeOK, Places, Configured, Lease, NoLease, NoMarker, NoState
<1>3. Separate' BY DEF Leave, Goes, Mutating, TypeOK, Places, Separate
<1>4. Locked' BY HandoffAssumption DEF Leave, Goes, Mutating, TypeOK, Places, Locked, Holding, Activating
<1>5. Writers' BY DEF Leave, Goes, Mutating, TypeOK, Writers, Activating
<1>6. Tokens' BY DEF Leave, Goes, Mutating, TypeOK, Configured, Tokens, OwnMarker, Consuming, Writers, Activating, NoMarker, Lease
<1>7. OwnMarker' BY DEF Leave, Goes, Mutating, TypeOK, OwnMarker, Consuming, Writers, Activating, NoMarker
<1>8. Agreement' BY DEF Leave, Goes, Mutating, TypeOK, Agreement, Cleared, NoMarker, NoState
<1>9. Reliable' BY DEF Leave, Goes, Mutating, TypeOK, Reliable, Relies, Holding, Writers, Activating
<1>10. Behind' BY DEF Leave, Goes, Mutating, TypeOK, Configured, Behind, Agreement, Cleared, NoMarker, NoState, Lease
<1>11. Consumable' BY DEF Leave, Goes, Mutating, TypeOK, Configured, Consumable, Agreement, Behind, Cleared, NoMarker, NoState
<1>12. Unrevoked' BY DEF Leave, Goes, Mutating, TypeOK, Configured, Unrevoked, Free, Agreement, Behind, Consumable, Cleared, NoMarker, NoState
<1> QED BY <1>1, <1>2, <1>3, <1>4, <1>5, <1>6, <1>7, <1>8, <1>9, <1>10, <1>11, <1>12

LEMMA LateEffectKeeps ==
    ASSUME IInv, LateEffect PROVE IInv'
<1> USE DEF IInv, files, world, agents, bounds, history
<1>1. TypeOK' BY HandoffAssumption DEF LateEffect, TypeOK, Places, Configured, Lease, NoLease, NoMarker, NoState
<1>2. Configured' BY HandoffAssumption DEF LateEffect, TypeOK, Places, Configured, Lease, NoLease, NoMarker, NoState
<1>3. Separate' BY DEF LateEffect, TypeOK, Places, Separate, Mutating
<1>4. Locked' BY HandoffAssumption DEF LateEffect, TypeOK, Places, Locked, Holding, Mutating, Activating
<1>5. Writers' BY DEF LateEffect, TypeOK, Writers, Activating
<1>6. Tokens' BY DEF LateEffect, TypeOK, Configured, Tokens, OwnMarker, Consuming, Writers, Activating, NoMarker, Lease
<1>7. OwnMarker' BY DEF LateEffect, TypeOK, OwnMarker, Consuming, Writers, Activating, NoMarker
<1>8. Agreement' BY DEF LateEffect, TypeOK, Agreement, Cleared, NoMarker, NoState
<1>9. Reliable' BY DEF LateEffect, TypeOK, Reliable, Relies, Holding, Mutating, Writers, Activating
<1>10. Behind' BY DEF LateEffect, TypeOK, Configured, Behind, Agreement, Cleared, NoMarker, NoState, Lease
<1>11. Consumable' BY DEF LateEffect, TypeOK, Configured, Consumable, Agreement, Behind, Cleared, NoMarker, NoState
<1>12. Unrevoked' BY DEF LateEffect, TypeOK, Configured, Unrevoked, Free, Agreement, Behind, Consumable, Cleared, NoMarker, NoState
<1> QED BY <1>1, <1>2, <1>3, <1>4, <1>5, <1>6, <1>7, <1>8, <1>9, <1>10, <1>11, <1>12

LEMMA StopOldKeeps ==
    ASSUME IInv, StopOld PROVE IInv'
<1> USE DEF IInv, files, world, agents, bounds, history
<1>1. TypeOK' BY HandoffAssumption DEF StopOld, TypeOK, Places, Configured, Lease, NoLease, NoMarker, NoState
<1>2. Configured' BY HandoffAssumption DEF StopOld, TypeOK, Places, Configured, Lease, NoLease, NoMarker, NoState
<1>3. Separate' BY DEF StopOld, TypeOK, Places, Separate, Mutating
<1>4. Locked' BY HandoffAssumption DEF StopOld, TypeOK, Places, Locked, Holding, Mutating, Activating
<1>5. Writers' BY DEF StopOld, TypeOK, Writers, Activating
<1>6. Tokens' BY DEF StopOld, TypeOK, Configured, Tokens, OwnMarker, Consuming, Writers, Activating, NoMarker, Lease
<1>7. OwnMarker' BY DEF StopOld, TypeOK, OwnMarker, Consuming, Writers, Activating, NoMarker
<1>8. Agreement' BY DEF StopOld, TypeOK, Agreement, Cleared, NoMarker, NoState
<1>9. Reliable' BY DEF StopOld, TypeOK, Reliable, Relies, Holding, Mutating, Writers, Activating
<1>10. Behind' BY DEF StopOld, TypeOK, Configured, Behind, Agreement, Cleared, NoMarker, NoState, Lease
<1>11. Consumable' BY DEF StopOld, TypeOK, Configured, Consumable, Agreement, Behind, Cleared, NoMarker, NoState
<1>12. Unrevoked' BY DEF StopOld, TypeOK, Configured, Unrevoked, Free, Agreement, Behind, Consumable, Cleared, NoMarker, NoState
<1> QED BY <1>1, <1>2, <1>3, <1>4, <1>5, <1>6, <1>7, <1>8, <1>9, <1>10, <1>11, <1>12

LEMMA StartOldKeeps ==
    ASSUME IInv, StartOld PROVE IInv'
<1> USE DEF IInv, files, world, agents, bounds, history
<1>1. TypeOK' BY HandoffAssumption DEF StartOld, Mutating, TypeOK, Places, Configured, Lease, NoLease, NoMarker, NoState
<1>2. Configured' BY HandoffAssumption DEF StartOld, Mutating, TypeOK, Places, Configured, Lease, NoLease, NoMarker, NoState
<1>3. Separate' BY DEF StartOld, Mutating, TypeOK, Places, Separate
<1>4. Locked' BY HandoffAssumption DEF StartOld, Mutating, TypeOK, Places, Locked, Holding, Activating
<1>5. Writers' BY DEF StartOld, Mutating, TypeOK, Writers, Activating
<1>6. Tokens' BY DEF StartOld, Mutating, TypeOK, Configured, Tokens, OwnMarker, Consuming, Writers, Activating, NoMarker, Lease
<1>7. OwnMarker' BY DEF StartOld, Mutating, TypeOK, OwnMarker, Consuming, Writers, Activating, NoMarker
<1>8. Agreement' BY DEF StartOld, Mutating, TypeOK, Agreement, Cleared, NoMarker, NoState
<1>9. Reliable' BY DEF StartOld, Mutating, TypeOK, Reliable, Relies, Holding, Writers, Activating
<1>10. Behind' BY DEF StartOld, Mutating, TypeOK, Configured, Behind, Agreement, Cleared, NoMarker, NoState, Lease
<1>11. Consumable' BY DEF StartOld, Mutating, TypeOK, Configured, Consumable, Agreement, Behind, Cleared, NoMarker, NoState
<1>12. Unrevoked' BY DEF StartOld, Mutating, TypeOK, Configured, Unrevoked, Free, Agreement, Behind, Consumable, Cleared, NoMarker, NoState
<1> QED BY <1>1, <1>2, <1>3, <1>4, <1>5, <1>6, <1>7, <1>8, <1>9, <1>10, <1>11, <1>12


-----------------------------------------------------------------------------
\* The invariant holds at first, and every step keeps it.
LEMMA InitHolds == Init => IInv
<1> SUFFICES ASSUME Init PROVE IInv OBVIOUS
<1> USE DEF Init
<1>1. TypeOK
  <2>1. {MaxMarkers, MaxStarts, MaxFaults} \subseteq Nat
    BY HandoffAssumption
  <2>2. 0 \in 0 .. MaxMarkers /\ 0 \in 0 .. MaxStarts /\ 0 \in 0 .. MaxFaults
    BY <2>1
  <2> QED BY <2>2 DEF TypeOK, Places, NoLease, NoMarker, NoState
<1>11. Configured
  BY DEF Configured, NoMarker, NoState
<1>2. Separate /\ Locked /\ Writers /\ OwnMarker /\ Reliable
  BY DEF Separate, Locked, Writers, OwnMarker, Reliable, Relies, Holding, Mutating,
         Activating, Consuming
<1>3. Tokens
  BY DEF Tokens, NoMarker
<1>4. Agreement /\ Behind /\ Consumable /\ Unrevoked
  BY DEF Agreement, Behind, Consumable, Unrevoked, Cleared, NoMarker, NoState
<1> QED BY <1>1, <1>11, <1>2, <1>3, <1>4 DEF IInv

LEMMA StepKeeps == IInv /\ [Next]_vars => IInv'
<1> SUFFICES ASSUME IInv, [Next]_vars PROVE IInv' OBVIOUS
<1>1. CASE UNCHANGED vars
  BY <1>1 DEF vars, files, world, agents, bounds, history, IInv, TypeOK, Configured,
     Separate, Locked, Writers, Tokens, OwnMarker, Agreement, Reliable, Behind, Consumable,
     Unrevoked, Free, Relies, Holding, Mutating, Activating, Consuming, Cleared
<1>2. CASE \E g \in Generations : PrepareMarker(g)
  BY <1>2, PrepareMarkerKeeps
<1>3. CASE InvalidateState \/ Expire
  BY <1>3, InvalidateStateKeeps, ExpireKeeps
<1>4. CASE \E a \in Agents : Acquire(a)
  BY <1>4, StartKeeps, ReadStateKeeps, ReadMarkerKeeps, CheckOldKeeps, TryLockKeeps,
     WriteStateKeeps, RemoveMarkerKeeps, FailActivationKeeps, EraseStateKeeps DEF Acquire
<1>5. CASE \E a \in Agents : Act(a)
  BY <1>5, ExecuteKeeps, ContinueAfterPreflightKeeps, EffectKeeps, DeadlineKeeps, LeaveKeeps
     DEF Act
<1>6. CASE LateEffect \/ StopOld \/ StartOld
  BY <1>6, LateEffectKeeps, StopOldKeeps, StartOldKeeps
<1> QED BY <1>1, <1>2, <1>3, <1>4, <1>5, <1>6 DEF Next

THEOREM Invariance == Spec => []IInv
<1> QED BY InitHolds, StepKeeps, PTL DEF Spec

\* Every variable stays in its domain: TypeOK of the run.
THEOREM HandoffTypeCorrect == Spec => []TypeOK
<1>1. IInv => TypeOK BY DEF IInv
<1> QED BY <1>1, Invariance, PTL

\* The previous supervisor and the Hub's units never run side by side: what
\* legacySupervisorAbsent is asked three times for.
THEOREM Exclusive == Spec => []NoDoubleOwner
<1>1. IInv => NoDoubleOwner BY DEF IInv, Separate, NoDoubleOwner, TypeOK
<1> QED BY <1>1, Invariance, PTL

\* A holder finds an active state of its own generation, unless a failed
\* activation has removed it since.
THEOREM Recoverable == Spec => []HolderCanRecover
<1>1. IInv => HolderCanRecover
  <2> SUFFICES ASSUME IInv, NEW a \in Agents, Holding(a), ~erased
               PROVE  state = [gen |-> config[a].gen, active |-> TRUE]
    BY DEF HolderCanRecover
  <2>1. state.active /\ state.gen = config[a].gen
    BY DEF IInv, Reliable, Relies, Agreement, Cleared, Holding, Mutating
  <2> QED BY <2>1 DEF IInv, TypeOK
<1> QED BY <1>1, Invariance, PTL

\* An invalidated generation is not held again, unless its activation was torn.
THEOREM NeverHeldAgain == Spec => []RevokedStaysRevoked
<1>1. IInv => RevokedStaysRevoked
  BY DEF IInv, RevokedStaysRevoked, Unrevoked, Free, Cleared, Holding, Mutating
<1> QED BY <1>1, Invariance, PTL

\* A marker is consumed once: the second of two Agents that have read it finds
\* it gone when it comes to remove it.
THEOREM ConsumedOnce == Spec => MarkerUsedOnce
<1>1. IInv /\ [Next]_vars =>
        [\A a \in Agents :
            at[a] = "removing" /\ at'[a] = "held" => config[a].token \notin spent]_vars
  <2> SUFFICES ASSUME IInv, Next, NEW a \in Agents, at[a] = "removing", at'[a] = "held"
               PROVE  config[a].token \notin spent
    OBVIOUS
  <2>1. RemoveMarker(a)
    <3>1. at \in [Agents -> Places]
      BY DEF IInv, TypeOK
    <3>2. at' # at
      OBVIOUS
    <3>3. ASSUME NEW b \in Agents, NEW place, Goes(b, place) PROVE b = a /\ place = "held"
      BY <3>1, <3>3 DEF Goes
    <3>4. PICK b \in Agents : Acquire(b) \/ Act(b)
      BY <3>2 DEF Next, PrepareMarker, InvalidateState, Expire, LateEffect, StopOld, StartOld,
                  agents
    <3>5. b = a
      BY <3>3, <3>4 DEF Acquire, Act, Start, ReadState, ReadMarker, CheckOld, TryLock,
         WriteState, RemoveMarker, FailActivation, EraseState, Execute,
         ContinueAfterPreflight, Effect, Deadline, Leave, LoseLease
    <3>6. ~Goes(a, "down") /\ ~Goes(a, "cleaning")
      BY <3>3
    <3> QED
      BY <3>4, <3>5, <3>6 DEF Acquire, Act, Start, ReadState, ReadMarker, CheckOld, TryLock,
         WriteState, FailActivation, EraseState, Execute, ContinueAfterPreflight, Effect,
         Deadline, Leave, Mutating
  <2>2. Consuming(a)
    BY DEF IInv, Writers, Activating, Consuming
  <2>3. marker.token = config[a].token
    BY <2>1, <2>2 DEF RemoveMarker, IInv, OwnMarker
  <2> QED BY <2>3 DEF IInv, Tokens
<1> QED BY <1>1, Invariance, PTL DEF Spec, MarkerUsedOnce
=============================================================================
