----------------------- MODULE UploadSupervisorProofs -----------------------
(***************************************************************************)
(* Machine-checked proofs about the supervisor of the Upload component, for*)
(* every configuration, every set of process identifiers and every bound.  *)
(***************************************************************************)
EXTENDS UploadSupervisor, FiniteSetTheorems, WellFoundedInduction, TLAPS

(***************************************************************************)
(* The inductive invariant.                                                *)
(***************************************************************************)

\* A supervisor that is not there has no workers.
DownIsEmpty == sup = "down" => procs = NoProcs /\ at = 0

\* The supervisor's processes are its workers', alive or to be reaped ...
OwnsItsProcesses ==
    \A n \in Workers : procs[n] # 0 =>
        /\ n \in Configured
        /\ proc[procs[n]].job = n /\ proc[procs[n]].life # "free"
        /\ procs[n] \notin orphans

\* ... and the others are orphans, which nobody reaps.
OthersAreOrphans ==
    /\ \A p \in Pids : proc[p].life # "free" => p \in orphans \/ procs[proc[p].job] = p
    /\ \A p \in orphans : Running(p)

\* Workers that had an orphan when the supervisor began.
OrphansAreNoted ==
    sup # "down" => \A p \in orphans : proc[p].job \in haunted

\* A process that has exited with zero has earned the key it was launched for.
ZeroIsEarned ==
    \A n \in Workers :
        procs[n] # 0 /\ proc[procs[n]].life = "zero" => key[n] \in earned

\* What the file records the supervisor knows, but for runs by hand.
SavedIsKnown ==
    sup # "down" => \A k \in saved : k \in completed \/ k.day = 0

\* A success that is counted since a launch is the worker's own, or is in a file
\* that names another process.
SuccessIsOwn ==
    \A n, m \in Data : procs[n] # 0 /\ n \in health[m].since =>
        IF m = n THEN n \in acked \union haunted ELSE health[m].pid # procs[n]

\* The exits and the launches after them, the newest last: each launch has its
\* exit in front of it, and since the launch before.
Falling(R) == \A i \in DOMAIN R : R[i] < Window /\ \A k \in DOMAIN R : i < k => R[k] <= R[i]
Lags(A, R) ==
    \A j \in 0 .. Len(R) - 2 : j < Len(A) /\ A[Len(A) - j] <= R[Len(R) - 1 - j]
Leads(A, R) ==
    \A j \in 0 .. Len(R) - 1 : j < Len(A) /\ A[Len(A) - j] <= R[Len(R) - j]

\* A burst shorter than Burst leaves room for a launch; a longer one puts it off
\* until all launches are forgotten.
Rated(A, R, w, st) ==
    /\ Falling(R) /\ Len(R) <= Burst
    /\ Lags(A, R)
    /\ st \in {"recovering", "fault"} => Leads(A, R)
    /\ st = "recovering" => Len(A) < Burst
    /\ st = "fault" => \A i \in DOMAIN R : R[i] + w >= Window

Rates == \A n \in Workers : Rated(attempts[n], relaunched[n], wait[n], state[n])

DayCounts == day \in 1 .. Days

UInv ==
    /\ TypeOK /\ DayCounts
    /\ DownIsEmpty /\ OwnsItsProcesses /\ OthersAreOrphans /\ OrphansAreNoted
    /\ CompletionEarned /\ ZeroIsEarned /\ SavedIsKnown
    /\ SuccessIsOwn
    /\ Rates

\* The assumption on the constants, as a fact that stays folded until it is needed.
Assumptions == SupervisorAssumption

-----------------------------------------------------------------------------
(* Exits and launches.                                                     *)

\* Every set of numbers has a least element.
LEMMA LeastNumber ==
    ASSUME NEW T \in SUBSET Nat, T # {}
    PROVE  \E x \in T : \A y \in T : x <= y
<1> DEFINE R == OpToRel(<, Nat)
<1>1. IsWellFoundedOn(R, Nat) BY NatLessThanWellFounded
<1>2. \A x, y \in Nat : y < x => <<y, x>> \in R BY DEF OpToRel
<1> HIDE DEF R
<1>3. PICK x \in T : \A y \in T : ~(<<y, x>> \in R) BY <1>1, WFMin
<1>4. \A y \in T : y \in Nat /\ ~(y < x) BY <1>2, <1>3
<1> QED BY <1>3, <1>4

\* Min finds it.
LEMMA MinIsLeast ==
    ASSUME NEW T \in SUBSET Nat, T # {}
    PROVE  Min(T) \in T
<1>1. PICK x \in T : \A y \in T : x <= y BY LeastNumber
<1> QED BY <1>1 DEF Min

\* Max finds the greatest element of a bounded set.
LEMMA MaxIsGreatest ==
    ASSUME NEW n \in Nat, NEW T \in SUBSET (0 .. n), T # {}
    PROVE  Max(T) \in T /\ \A y \in T : y <= Max(T)
<1> DEFINE D == {d \in Nat : n - d \in T}
<1>1. \A x \in T : x \in Nat /\ n - x \in Nat /\ n - (n - x) = x
  <2>1. \A x \in T : x \in 0 .. n OBVIOUS
  <2> QED BY <2>1
<1>2. D \in SUBSET Nat /\ \A x \in T : n - x \in D BY <1>1
<1>3. D # {} BY <1>2
<1> HIDE DEF D
<1>4. PICK d \in D : \A e \in D : d <= e BY <1>2, <1>3, LeastNumber
<1>5. n - d \in T /\ d \in Nat BY <1>4 DEF D
<1>6. \A y \in T : y <= n - d
  <2>1. \A y \in T : d <= n - y /\ y \in Nat BY <1>1, <1>2, <1>4
  <2> QED BY <1>5, <2>1
<1>7. \E x \in T : \A y \in T : x >= y BY <1>1, <1>5, <1>6
<1> QED BY <1>1, <1>7 DEF Max

\* What a list of ages holds.
LEMMA ElementIn ==
    ASSUME NEW T, NEW s \in Seq(T)
    PROVE  Len(s) \in Nat /\ DOMAIN s = 1 .. Len(s) /\ \A i \in 1 .. Len(s) : s[i] \in T
OBVIOUS

\* A function on 1 .. l is a list of length l.
LEMMA ListOf ==
    ASSUME NEW T, NEW l \in Nat, NEW f \in [1 .. l -> T]
    PROVE  f \in Seq(T) /\ Len(f) = l
OBVIOUS

\* Ages are numbers.
LEMMA AgesAreNumbers ==
    ASSUME NEW s \in Seq(0 .. Window)
    PROVE  Len(s) \in Nat /\ DOMAIN s = 1 .. Len(s) /\ \A i \in 1 .. Len(s) : s[i] \in Nat
<1>1. Len(s) \in Nat /\ DOMAIN s = 1 .. Len(s) /\ \A i \in 1 .. Len(s) : s[i] \in 0 .. Window
  BY ElementIn
<1> QED BY <1>1

\* The window and the burst are not empty.
LEMMA BurstIsPositive ==
    ASSUME Assumptions
    PROVE  Window \in Nat /\ 0 < Window /\ Burst \in Nat /\ 0 < Burst
<1>1. Window \in Nat \ {0} /\ Delays \in Seq(Nat) BY DEF Assumptions, SupervisorAssumption
<1>2. Len(Delays) \in Nat BY <1>1
<1> QED BY <1>1, <1>2 DEF Burst

\* What one more tick keeps.
LEMMA Later ==
    /\ \A x, y \in Nat : x <= y => x + 1 <= y + 1
    /\ \A x, y, z \in Nat : x <= y /\ y + 1 < z => x + 1 < z
OBVIOUS

\* A tick drops the first ages, and those that are left are below Window.
LEMMA AgeDrops ==
    ASSUME Assumptions, NEW s \in Seq(0 .. Window)
    PROVE  \E g \in 0 .. Len(s) :
             /\ Age(s) = [i \in 1 .. Len(s) - g |-> s[g + i] + 1]
             /\ \A i \in g + 1 .. Len(s) : s[i] + 1 < Window
             /\ g > 0 => s[g] + 1 >= Window
<1> DEFINE T == {0} \union {i \in DOMAIN s : s[i] + 1 >= Window}
<1> DEFINE g == Max(T)
<1>1. Len(s) \in Nat /\ DOMAIN s = 1 .. Len(s) /\ Window \in Nat
  BY DEF Assumptions, SupervisorAssumption
<1>2. T \in SUBSET (0 .. Len(s)) /\ T # {}
  BY <1>1
<1>3. Age(s) = [i \in 1 .. Len(s) - g |-> s[g + i] + 1] BY DEF Age
<1>4. T = {0} \union {i \in 1 .. Len(s) : s[i] + 1 >= Window} BY <1>1
<1> HIDE DEF T
<1>5. g \in T /\ \A y \in T : y <= g BY <1>1, <1>2, MaxIsGreatest
<1> HIDE DEF g
<1>6. g \in 0 .. Len(s) BY <1>2, <1>5
<1>7. ASSUME NEW i \in g + 1 .. Len(s) PROVE s[i] + 1 < Window
  <2>1. i \in 1 .. Len(s) /\ ~(i <= g) BY <1>1, <1>6
  <2>2. ~(s[i] + 1 >= Window) BY <1>4, <1>5, <2>1
  <2>3. s[i] \in Nat BY <2>1, AgesAreNumbers
  <2> QED BY <1>1, <2>2, <2>3
<1>8. g > 0 => s[g] + 1 >= Window
  <2>1. g > 0 => g \notin {0} BY <1>6
  <2> QED BY <1>4, <1>5, <2>1
<1> QED BY <1>3, <1>6, <1>7, <1>8

\* A tick makes a list of ages no longer.
LEMMA AgeTyped ==
    ASSUME Assumptions, NEW s \in Seq(0 .. Window)
    PROVE  /\ Age(s) \in Seq(0 .. Window)
           /\ Len(Age(s)) <= Len(s)
<1>1. PICK g \in 0 .. Len(s) :
             /\ Age(s) = [i \in 1 .. Len(s) - g |-> s[g + i] + 1]
             /\ \A i \in g + 1 .. Len(s) : s[i] + 1 < Window
  BY AgeDrops
<1>2. Len(s) \in Nat /\ Len(s) - g \in Nat /\ Window \in Nat
  BY DEF Assumptions, SupervisorAssumption
<1>3. ASSUME NEW i \in 1 .. Len(s) - g PROVE s[g + i] + 1 \in 0 .. Window
  <2>1. g + i \in g + 1 .. Len(s) /\ g + i \in 1 .. Len(s) BY <1>2
  <2>2. s[g + i] + 1 < Window BY <1>1, <2>1
  <2>3. s[g + i] \in Nat BY <2>1, AgesAreNumbers
  <2>4. PICK x \in Nat : x = s[g + i] BY <1>2, <2>3
  <2>5. x + 1 \in 0 .. Window BY <1>2, <2>2, <2>4
  <2> QED BY <2>4, <2>5
<1>4. PICK k \in Nat : k = Len(s) - g BY <1>2
<1>5. Age(s) \in [1 .. k -> 0 .. Window]
  <2>1. Age(s) = [i \in 1 .. k |-> s[g + i] + 1] BY <1>1, <1>4
  <2> QED BY <1>3, <1>4, <2>1
<1>6. Age(s) \in Seq(0 .. Window) /\ Len(Age(s)) = k BY <1>5, ListOf
<1>7. k <= Len(s)
  <2>1. PICK l \in Nat : l = Len(s) BY <1>2
  <2> QED BY <1>4, <2>1
<1> QED BY <1>6, <1>7

\* A tick ages exits and launches alike, so that no launch outlives its exit.
LEMMA RateTicks ==
    ASSUME Assumptions,
           NEW A \in Seq(0 .. Window), NEW R \in Seq(0 .. Window),
           NEW w \in Nat, NEW st, Rated(A, R, w, st)
    PROVE  Rated(Age(A), Age(R), IF w = 0 THEN 0 ELSE w - 1, st)
<1>1. PICK a \in 0 .. Len(A) :
             /\ Age(A) = [i \in 1 .. Len(A) - a |-> A[a + i] + 1]
             /\ \A i \in a + 1 .. Len(A) : A[i] + 1 < Window
             /\ a > 0 => A[a] + 1 >= Window
  BY AgeDrops
<1>2. PICK r \in 0 .. Len(R) :
             /\ Age(R) = [i \in 1 .. Len(R) - r |-> R[r + i] + 1]
             /\ \A i \in r + 1 .. Len(R) : R[i] + 1 < Window
  BY AgeDrops
<1>3. PICK la \in Nat, lr \in Nat : la = Len(A) /\ lr = Len(R) BY AgesAreNumbers
<1>4. /\ a \in Nat /\ r \in Nat /\ a <= la /\ r <= lr /\ Window \in Nat /\ Burst \in Nat
      /\ \A i \in 1 .. la : A[i] \in Nat
      /\ \A i \in 1 .. lr : R[i] \in Nat
      /\ DOMAIN R = 1 .. lr
  BY <1>3, AgesAreNumbers, BurstIsPositive
<1>5. PICK ka \in Nat, kr \in Nat : ka = la - a /\ kr = lr - r BY <1>4
<1>6. /\ Len(Age(A)) = ka /\ Len(Age(R)) = kr /\ DOMAIN Age(R) = 1 .. kr
      /\ \A i \in 1 .. ka : Age(A)[i] = A[a + i] + 1
      /\ \A i \in 1 .. kr : Age(R)[i] = R[r + i] + 1
  <2>1. Age(A) = [i \in 1 .. ka |-> A[a + i] + 1] /\ Age(R) = [i \in 1 .. kr |-> R[r + i] + 1]
    BY <1>1, <1>2, <1>3, <1>5
  <2> QED BY <2>1
<1>7. \A i \in 1 .. kr : r + i \in 1 .. lr /\ r + i \in r + 1 .. lr BY <1>4, <1>5
<1>8. \A i \in 1 .. kr : R[r + i] + 1 < Window BY <1>2, <1>3, <1>7
<1>9. Falling(Age(R))
  <2>1. ASSUME NEW i \in 1 .. kr, NEW k \in 1 .. kr, i < k
        PROVE  Age(R)[k] <= Age(R)[i]
    <3>1. r + i < r + k BY <1>3, <1>4, <2>1
    <3>2. r + i \in 1 .. lr /\ r + k \in 1 .. lr BY <1>7
    <3>3. PICK x \in Nat, y \in Nat : x = R[r + i] /\ y = R[r + k] BY <1>4, <3>2
    <3>4. R[r + k] <= R[r + i] BY <1>4, <3>1, <3>2 DEF Rated, Falling
    <3>5. y <= x BY <3>3, <3>4
    <3>6. y + 1 <= x + 1 BY <3>5, Later
    <3> QED BY <1>6, <3>3, <3>6
  <2>2. ASSUME NEW i \in 1 .. kr PROVE Age(R)[i] < Window
    <3>1. Age(R)[i] = R[r + i] + 1 BY <1>6
    <3> QED BY <1>8, <3>1
  <2> QED BY <1>6, <2>1, <2>2 DEF Falling
<1>10. Len(Age(R)) <= Burst BY <1>3, <1>4, <1>5, <1>6 DEF Rated
<1>11. ASSUME NEW x \in 1 .. la, NEW y \in r + 1 .. lr, A[x] <= R[y] PROVE A[x] + 1 < Window
  <2>1. y \in 1 .. lr /\ A[x] \in Nat /\ R[y] \in Nat BY <1>4
  <2>2. R[y] + 1 < Window BY <1>2, <1>3
  <2>3. Window \in Nat BY <1>4
  <2> QED BY <1>11, <2>1, <2>2, <2>3, Later
\* Where the launches of a suffix are kept, so are the exits before them.
<1>12. ASSUME NEW d \in {0, 1}, lr > 0 \/ d = 0,
              \A j \in 0 .. lr - 1 - d : j < la /\ A[la - j] <= R[lr - d - j]
       PROVE  \A j \in 0 .. kr - 1 - d :
                 j < ka /\ Age(A)[ka - j] <= Age(R)[kr - d - j]
  <2>1. ASSUME NEW j \in 0 .. kr - 1 - d
        PROVE  j < ka /\ Age(A)[ka - j] <= Age(R)[kr - d - j]
    <3>1. /\ j \in Nat /\ j \in 0 .. lr - 1 - d /\ kr - d - j \in 1 .. kr
          /\ r + (kr - d - j) = lr - d - j
      BY <1>4, <1>5
    <3>2. j < la /\ A[la - j] <= R[lr - d - j] BY <1>12, <3>1
    <3>3. la - j \in 1 .. la /\ lr - d - j \in r + 1 .. lr BY <1>4, <1>5, <3>1, <3>2
    <3>4. j < ka
      <4>1. SUFFICES ASSUME ~(j < ka) PROVE FALSE OBVIOUS
      <4>2. a > 0 /\ la - a \in 0 .. j /\ la - a \in Nat BY <1>4, <1>5, <3>1, <3>2, <4>1
      <4>3. la - a \in 0 .. lr - 1 - d BY <1>4, <3>1, <4>2
      <4>4. A[la - (la - a)] <= R[lr - d - (la - a)] /\ la - (la - a) = a
        <5>1. PICK m \in 0 .. lr - 1 - d : m = la - a BY <4>3
        <5>2. A[la - m] <= R[lr - d - m] BY <1>12
        <5>3. la - m = a BY <1>4, <5>1
        <5> QED BY <5>1, <5>2, <5>3
      <4>5. lr - d - (la - a) \in r + 1 .. lr /\ a \in 1 .. la
        BY <1>4, <1>5, <3>1, <3>3, <4>2
      <4>6. A[a] + 1 < Window BY <1>11, <4>4, <4>5
      <4> QED BY <1>1, <1>4, <4>2, <4>5, <4>6
    <3>5. ka - j \in 1 .. ka /\ a + (ka - j) = la - j BY <1>4, <1>5, <3>1, <3>4
    <3>6. Age(A)[ka - j] = A[la - j] + 1 /\ Age(R)[kr - d - j] = R[lr - d - j] + 1
      BY <1>6, <3>1, <3>5
    <3>7. A[la - j] \in Nat /\ R[lr - d - j] \in Nat
      BY <1>4, <1>7, <3>1, <3>3
    <3>8. A[la - j] + 1 <= R[lr - d - j] + 1 BY <3>2, <3>7, Later
    <3> QED BY <3>4, <3>6, <3>8
  <2> QED BY <2>1
<1>13. Leads(A, R) => Leads(Age(A), Age(R))
  <2>1. SUFFICES ASSUME Leads(A, R) PROVE Leads(Age(A), Age(R)) OBVIOUS
  <2>2. PICK d \in {0, 1} : d = 0 OBVIOUS
  <2>3. lr - 1 - d = lr - 1 /\ lr - d = lr /\ kr - 1 - d = kr - 1 /\ kr - d = kr
    BY <1>3, <1>5, <2>2
  <2>4. \A j \in 0 .. lr - 1 - d : j < la /\ A[la - j] <= R[lr - d - j]
    BY <1>3, <2>1, <2>3 DEF Leads
  <2>5. \A j \in 0 .. kr - 1 - d : j < ka /\ Age(A)[ka - j] <= Age(R)[kr - d - j]
    BY <1>12, <2>2, <2>4
  <2> QED BY <1>6, <2>3, <2>5 DEF Leads
<1>14. Lags(Age(A), Age(R))
  <2>1. CASE lr = 0 BY <1>4, <1>5, <1>6, <2>1 DEF Lags
  <2>2. CASE lr > 0
    <3>1. \A j \in 0 .. lr - 1 - 1 : j < la /\ A[la - j] <= R[lr - 1 - j]
      BY <1>3 DEF Rated, Lags
    <3>2. \A j \in 0 .. kr - 1 - 1 : j < ka /\ Age(A)[ka - j] <= Age(R)[kr - 1 - j]
      BY <1>12, <2>2, <3>1
    <3> QED BY <1>6, <3>2 DEF Lags
  <2> QED BY <2>1, <2>2
<1>15. st = "recovering" => Len(Age(A)) < Burst
  BY <1>3, <1>4, <1>5, <1>6 DEF Rated
<1>16. ASSUME st = "fault", NEW i \in DOMAIN Age(R)
       PROVE  Age(R)[i] + (IF w = 0 THEN 0 ELSE w - 1) >= Window
  <2>1. i \in 1 .. kr /\ r + i \in 1 .. lr /\ R[r + i] \in Nat BY <1>4, <1>6, <1>7, <1>16
  <2>2. R[r + i] + w >= Window /\ R[r + i] + 1 < Window
    BY <1>4, <1>8, <1>16, <2>1 DEF Rated
  <2>3. w # 0 BY <1>4, <2>1, <2>2
  <2> QED BY <1>4, <1>6, <2>1, <2>2, <2>3
<1> QED BY <1>9, <1>10, <1>13, <1>14, <1>15, <1>16 DEF Rated

\* After an exit, the launches have theirs in front of them again.
LEMMA RateExits ==
    ASSUME Assumptions,
           NEW A \in Seq(0 .. Window), NEW R \in Seq(0 .. Window),
           NEW w \in Nat, NEW st, Rated(A, R, w, st)
    PROVE  Rated(Append(A, 0), R, Backoff(Len(A) + 1),
                 IF Len(A) + 1 >= Burst THEN "fault" ELSE "recovering")
<1> DEFINE B == Append(A, 0)
<1>1. PICK la \in Nat, lr \in Nat : la = Len(A) /\ lr = Len(R) BY AgesAreNumbers
<1>2. /\ Window \in Nat /\ Burst \in Nat /\ DOMAIN R = 1 .. lr
      /\ \A i \in 1 .. la : A[i] \in Nat
      /\ \A i \in 1 .. lr : R[i] \in Nat
  BY <1>1, AgesAreNumbers, BurstIsPositive
<1>3. Len(B) = la + 1 /\ B[la + 1] = 0 /\ \A i \in 1 .. la : B[i] = A[i]
  BY <1>1
<1> HIDE DEF B
<1>4. ASSUME NEW j \in 0 .. lr - 1 PROVE j < la + 1 /\ B[la + 1 - j] <= R[lr - j]
  <2>1. lr - j \in 1 .. lr /\ j \in Nat BY <1>1
  <2>2. CASE j = 0 BY <1>1, <1>2, <1>3, <2>1, <2>2
  <2>3. CASE j # 0
    <3>1. j - 1 \in 0 .. lr - 2 BY <1>1, <2>1, <2>3
    <3>2. j - 1 < la /\ A[la - (j - 1)] <= R[lr - 1 - (j - 1)]
      BY <1>1, <3>1 DEF Rated, Lags
    <3>3. la - (j - 1) = la + 1 - j /\ lr - 1 - (j - 1) = lr - j /\ la + 1 - j \in 1 .. la
      BY <1>1, <2>1, <2>3, <3>2
    <3> QED BY <1>3, <2>1, <3>2, <3>3
  <2> QED BY <2>2, <2>3
<1>5. Leads(B, R) BY <1>1, <1>3, <1>4 DEF Leads
<1>6. Lags(B, R)
  <2>1. ASSUME NEW j \in 0 .. lr - 2 PROVE j < la + 1 /\ B[la + 1 - j] <= R[lr - 1 - j]
    <3>1. j \in 0 .. lr - 1 /\ lr - j \in 1 .. lr /\ lr - 1 - j \in 1 .. lr
          /\ lr - 1 - j < lr - j /\ j \in Nat
      BY <1>1
    <3>2. j < la + 1 /\ B[la + 1 - j] <= R[lr - j] BY <1>4, <3>1
    <3>3. R[lr - j] <= R[lr - 1 - j] BY <1>2, <3>1 DEF Rated, Falling
    <3>4. B[la + 1 - j] \in Nat
      <4>1. la + 1 - j \in 1 .. la + 1 BY <1>1, <3>1, <3>2
      <4>2. \A i \in 1 .. la + 1 : i \in 1 .. la \/ i = la + 1 BY <1>1
      <4>3. \A i \in 1 .. la : B[i] \in Nat BY <1>2, <1>3
      <4>4. B[la + 1] \in Nat BY <1>3
      <4> QED BY <4>1, <4>2, <4>3, <4>4
    <3>5. R[lr - j] \in Nat /\ R[lr - 1 - j] \in Nat BY <1>2, <3>1
    <3>6. \A x, y, z \in Nat : x <= y /\ y <= z => x <= z OBVIOUS
    <3> QED BY <3>2, <3>3, <3>4, <3>5, <3>6
  <2> QED BY <1>1, <1>3, <2>1 DEF Lags
<1>7. la + 1 >= Burst => \A i \in DOMAIN R : R[i] + Backoff(la + 1) >= Window
  BY <1>1, <1>2 DEF Backoff
<1> QED BY <1>1, <1>2, <1>3, <1>5, <1>6, <1>7 DEF Rated, B

\* A launch that nothing puts off any more leaves at most Burst of them.
LEMMA RateLaunches ==
    ASSUME Assumptions,
           NEW A \in Seq(0 .. Window), NEW R \in Seq(0 .. Window),
           NEW st \in {"recovering", "fault"}, Rated(A, R, 0, st)
    PROVE  Rated(A, Append(R, 0), 0, "running")
<1> DEFINE S == Append(R, 0)
<1>1. PICK la \in Nat, lr \in Nat : la = Len(A) /\ lr = Len(R) BY AgesAreNumbers
<1>2. /\ Window \in Nat /\ 0 < Window /\ Burst \in Nat /\ 0 < Burst
      /\ DOMAIN R = 1 .. lr
      /\ \A i \in 1 .. lr : R[i] \in Nat
  BY <1>1, AgesAreNumbers, BurstIsPositive
<1>3. /\ Len(S) = lr + 1 /\ DOMAIN S = 1 .. lr + 1
      /\ S[lr + 1] = 0 /\ \A i \in 1 .. lr : S[i] = R[i]
  BY <1>1
<1> HIDE DEF S
<1>4. Falling(S)
  <2>1. ASSUME NEW i \in 1 .. lr + 1
        PROVE  S[i] < Window /\ \A k \in 1 .. lr + 1 : i < k => S[k] <= S[i]
    <3>1. CASE i = lr + 1 BY <1>1, <1>2, <1>3, <3>1
    <3>2. CASE i # lr + 1
      <4>1. i \in 1 .. lr BY <1>1, <3>2
      <4>2. S[i] < Window /\ S[i] \in Nat BY <1>2, <1>3, <4>1 DEF Rated, Falling
      <4>3. ASSUME NEW k \in 1 .. lr + 1, i < k PROVE S[k] <= S[i]
        <5>1. CASE k = lr + 1 BY <1>3, <4>2, <5>1
        <5>2. CASE k # lr + 1
          <6>1. k \in 1 .. lr BY <1>1, <5>2
          <6>2. R[k] <= R[i] BY <1>2, <4>1, <4>3, <6>1 DEF Rated, Falling
          <6> QED BY <1>3, <4>1, <6>1, <6>2
        <5> QED BY <5>1, <5>2
      <4> QED BY <4>2, <4>3
    <3> QED BY <3>1, <3>2
  <2> QED BY <1>3, <2>1 DEF Falling
<1>5. lr < Burst
  <2>1. CASE st = "fault"
    <3>1. ASSUME lr > 0 PROVE FALSE
      <4>1. 1 \in DOMAIN R /\ R[1] \in Nat BY <1>1, <1>2, <3>1
      <4>2. R[1] + 0 >= Window /\ R[1] < Window BY <2>1, <4>1 DEF Rated, Falling
      <4> QED BY <1>2, <4>1, <4>2
    <3> QED BY <1>1, <1>2, <3>1
  <2>2. CASE st = "recovering"
    <3>1. la < Burst /\ Leads(A, R) BY <1>1, <2>2 DEF Rated
    <3>2. ASSUME lr > 0 PROVE lr <= la
      <4>1. lr - 1 \in 0 .. lr - 1 BY <1>1, <3>2
      <4>2. lr - 1 < la BY <1>1, <3>1, <4>1 DEF Leads
      <4> QED BY <1>1, <4>2
    <3> QED BY <1>1, <1>2, <3>1, <3>2
  <2> QED BY <2>1, <2>2
<1>6. Lags(A, S)
  <2>1. Leads(A, R) BY DEF Rated
  <2>2. ASSUME NEW j \in 0 .. lr - 1 PROVE j < la /\ A[la - j] <= S[lr - j]
    <3>1. lr - j \in 1 .. lr BY <1>1
    <3> QED BY <1>1, <1>3, <2>1, <3>1 DEF Leads
  <2>3. Len(S) - 2 = lr - 1 /\ \A j \in 0 .. lr - 1 : Len(S) - 1 - j = lr - j
    BY <1>1, <1>3
  <2> QED BY <1>1, <2>2, <2>3 DEF Lags
<1> QED BY <1>1, <1>2, <1>3, <1>4, <1>5, <1>6 DEF Rated, S

\* Any other change of the state, and of what is left to wait.
LEMMA RateElse ==
    ASSUME NEW A, NEW R, NEW w, NEW st, Rated(A, R, w, st),
           NEW v, NEW tt, tt \notin {"recovering", "fault"}
    PROVE  Rated(A, R, v, tt)
BY DEF Rated

\* A worker that is run by hand, and one of a new supervisor, starts afresh.
LEMMA RateReset ==
    ASSUME Assumptions, NEW w, NEW st
    PROVE  Rated(<<>>, <<>>, w, st)
<1>1. Burst \in Nat /\ 0 < Burst BY BurstIsPositive
<1>2. Len(<<>>) = 0 /\ DOMAIN <<>> = {} OBVIOUS
<1> QED BY <1>1, <1>2 DEF Rated, Falling, Lags, Leads

-----------------------------------------------------------------------------
(* What each kind of step does.                                            *)

\* The configuration that is read lists workers.
LEMMA ConfigLists ==
    ASSUME Assumptions, TypeOK
    PROVE  /\ config.order \in Seq(Workers) /\ Configured \subseteq Workers
           /\ Len(config.order) \in Nat /\ DOMAIN config.order = 1 .. Len(config.order)
<1>1. config \in Config
  <2>1. NoConfig \in Config BY DEF NoConfig, Config
  <2> QED BY <2>1 DEF TypeOK, Assumptions, SupervisorAssumption, Accepted
<1>2. config.order \in Seq(Workers) BY <1>1 DEF Config
<1>3. Len(config.order) \in Nat /\ DOMAIN config.order = 1 .. Len(config.order)
      /\ \A i \in 1 .. Len(config.order) : config.order[i] \in Workers
  BY <1>2, ElementIn
<1> QED BY <1>2, <1>3 DEF Configured, ToSet

\* The names under which runs by hand go.
LEMMA NamesAreKeys ==
    ASSUME Assumptions, NEW n \in Workers
    PROVE  NameKey(n) \in Keys /\ NameKey(n).day = 0
BY DEF NameKey, Keys, Assumptions, SupervisorAssumption

\* What is due is a key, and of a day only if it was not completed.
LEMMA DueKeys ==
    ASSUME Assumptions, TypeOK, DayCounts, NEW n \in Workers, NEW k \in Due(n)
    PROVE  /\ k \in Keys
           /\ n \in config.daily => k.day # 0 /\ k \notin completed
<1> DEFINE open == {c \in Clocks : c <= part /\ DayKey(n, day, c) \notin completed}
<1>1. LastPart \in Nat /\ Days \in Nat /\ Clocks \subseteq 1 .. LastPart
  BY DEF Assumptions, SupervisorAssumption
<1>2. CASE n \in config.daily
  <2>1. k \in {DayKey(n, day, Min(open)) : c \in IF day \in Weekend THEN {} ELSE open}
    BY <1>2 DEF Due
  <2>2. open # {} /\ k = DayKey(n, day, Min(open)) BY <2>1
  <2>3. open \in SUBSET Nat
    <3>1. \A c \in Clocks : c \in Nat BY <1>1
    <3> QED BY <3>1
  <2>4. Min(open) \in open BY <2>2, <2>3, MinIsLeast
  <2> HIDE DEF open
  <2>5. PICK c \in open : c = Min(open) BY <2>4
  <2>6. c \in Clocks /\ DayKey(n, day, c) \notin completed BY <2>5 DEF open
  <2>7. c \in 0 .. LastPart /\ day \in 0 .. Days /\ day # 0 BY <1>1, <2>6 DEF DayCounts
  <2> QED BY <2>2, <2>5, <2>6, <2>7 DEF DayKey, Keys
<1>3. CASE n \notin config.daily
  <2>1. k = NameKey(n) BY <1>3 DEF Due
  <2> QED BY <1>3, <2>1, NamesAreKeys
<1> QED BY <1>2, <1>3

\* A supervisor that goes leaves nothing in memory.
LEMMA EmptyTyped ==
    /\ NoProcs \in [Workers -> Pids \union {0}]
    /\ NoState \in [Workers -> {"unknown", "running", "stopped", "disabled", "completed",
                                "fault", "recovering", "idle"}]
    /\ Empty \in [Workers -> Seq(0 .. Window)]
    /\ NoProcs \in [Workers -> Nat]
<1>1. <<>> \in Seq(0 .. Window) OBVIOUS
<1>2. Empty \in [Workers -> Seq(0 .. Window)] BY <1>1 DEF Empty
<1> QED BY <1>2 DEF NoProcs, NoState

\* Without a process a worker goes by its name.
LEMMA NoKeyTyped == ASSUME Assumptions PROVE NoKey \in [Workers -> Keys]
BY NamesAreKeys DEF NoKey

-----------------------------------------------------------------------------
(* Types.                                                                  *)

States == {"unknown", "running", "stopped", "disabled", "completed", "fault", "recovering",
           "idle"}
Commands == [action : {"restart"}, job : Workers] \union {Stop}
Owned == [job : Workers, life : {"running", "zero", "failed"}] \union {FreePid}
HealthFile == [pid : Pids \union {0}, ok : BOOLEAN, since : SUBSET Data]

TypeOfControl ==
    /\ sup \in {"down", "draining", "visiting", "saving", "closing"}
    /\ config \in Configs \union {NoConfig}
    /\ at \in 0 .. Len(config.order) + 1 /\ stopping \in BOOLEAN
    /\ events \in Seq(Commands) /\ Len(events) <= QueueMax
    /\ claim \in {"none", "ready", "degraded"}
    /\ part \in 0 .. LastPart /\ day \in Nat /\ sent \in Nat /\ runs \in Nat
TypeOfMemory ==
    /\ procs \in [Workers -> Pids \union {0}] /\ key \in [Workers -> Keys]
    /\ state \in [Workers -> States]
    /\ completed \subseteq Keys /\ saved \subseteq Keys /\ earned \subseteq Keys
TypeOfRates ==
    /\ attempts \in [Workers -> Seq(0 .. Window)] /\ relaunched \in [Workers -> Seq(0 .. Window)]
    /\ wait \in [Workers -> Nat]
TypeOfWorld ==
    /\ proc \in [Pids -> Owned] /\ health \in [Data -> HealthFile]
    /\ orphans \subseteq Pids /\ haunted \subseteq Workers /\ acked \subseteq Workers

\* The type invariant in four parts, of what is changed together.
LEMMA TypeInParts == TypeOK <=> TypeOfControl /\ TypeOfMemory /\ TypeOfRates /\ TypeOfWorld
BY DEF TypeOK, TypeOfControl, TypeOfMemory, TypeOfRates, TypeOfWorld, States, Commands, Owned,
       HealthFile

\* The same of the state after a step.
LEMMA TypePartsNext ==
    TypeOfControl' /\ TypeOfMemory' /\ TypeOfRates' /\ TypeOfWorld' => TypeOK'
BY DEF TypeOK, TypeOfControl, TypeOfMemory, TypeOfRates, TypeOfWorld, States, Commands, Owned,
       HealthFile

\* The first state is of the types.
LEMMA InitTyped == ASSUME Assumptions, Init PROVE TypeOK
<1>1. TypeOfControl
  <2>1. <<>> \in Seq(Commands) /\ Len(<<>>) = 0 OBVIOUS
  <2>2. Len(NoConfig.order) = 0 BY DEF NoConfig
  <2>3. LastPart \in Nat /\ QueueMax \in Nat BY DEF Assumptions, SupervisorAssumption
  <2>4. 0 \in 0 .. Len(NoConfig.order) + 1 /\ 0 \in 0 .. LastPart /\ 0 <= QueueMax
    BY <2>2, <2>3
  <2> QED BY <2>1, <2>4 DEF Init, TypeOfControl
<1>2. TypeOfMemory BY NoKeyTyped, EmptyTyped DEF Init, TypeOfMemory, States
<1>3. TypeOfRates BY EmptyTyped DEF Init, TypeOfRates
<1>4. TypeOfWorld BY DEF Init, TypeOfWorld, Owned, HealthFile, NoFile
<1> QED BY <1>1, <1>2, <1>3, <1>4, TypeInParts

\* The processes of a launch, and of a worker that was reaped.
LEMMA ReapedTyped ==
    ASSUME Assumptions, TypeOfMemory, TypeOfWorld, NEW n \in Workers
    PROVE  Reaped(n) \in [Pids -> Owned]
BY DEF TypeOfMemory, TypeOfWorld, Reaped, Owned

\* A launch keeps the types ...
LEMMA LaunchTyped ==
    ASSUME Assumptions, TypeOfMemory, TypeOfWorld, NEW n \in Workers, NEW k \in Keys,
           NEW others \in [Pids -> Owned], Launch(n, k, others)
    PROVE  /\ procs' \in [Workers -> Pids \union {0}] /\ key' \in [Workers -> Keys]
           /\ state' \in [Workers -> States]
           /\ proc' \in [Pids -> Owned] /\ health' \in [Data -> HealthFile]
           /\ acked' \subseteq Workers
<1>1. PICK p \in Pids :
        /\ proc' = [others EXCEPT ![p] = [job |-> n, life |-> "running"]]
        /\ procs' = [procs EXCEPT ![n] = p]
        /\ key' = [key EXCEPT ![n] = k]
        /\ state' = [state EXCEPT ![n] = "running"]
        /\ health' = [m \in Data |-> [health[m] EXCEPT !.since = @ \ {n}]]
        /\ acked' = acked \ {n}
  BY DEF Launch
<1>2. proc' \in [Pids -> Owned] BY <1>1 DEF Owned
<1>3. health' \in [Data -> HealthFile]
  <2>1. \A m \in Data : [health[m] EXCEPT !.since = @ \ {n}] \in HealthFile
    BY DEF TypeOfWorld, HealthFile
  <2> QED BY <1>1, <2>1
<1> QED BY <1>1, <1>2, <1>3 DEF TypeOfMemory, TypeOfWorld, States

\* ... and so does one that fails.
LEMMA LaunchFailsTyped ==
    ASSUME Assumptions, TypeOfMemory, TypeOfWorld, NEW n \in Workers,
           NEW others \in [Pids -> Owned], LaunchFails(n, others)
    PROVE  /\ procs' \in [Workers -> Pids \union {0}] /\ key' \in [Workers -> Keys]
           /\ proc' \in [Pids -> Owned] /\ health' \in [Data -> HealthFile]
           /\ acked' \subseteq Workers
BY DEF LaunchFails, TypeOfMemory, TypeOfWorld

\* Every step keeps the types of the loop's control and of the clock.
LEMMA ControlTyped ==
    ASSUME Assumptions, TypeOK, DayCounts, DownIsEmpty, [Next]_vars
    PROVE  TypeOfControl' /\ DayCounts'
<1>0. TypeOfControl /\ TypeOfMemory BY TypeInParts
<1>1. /\ LastPart \in Nat /\ Days \in Nat /\ QueueMax \in Nat
      /\ day \in Nat /\ day <= Days /\ part \in Nat /\ part <= LastPart
      /\ Len(config.order) \in Nat /\ Len(NoConfig.order) = 0
  BY <1>0, ConfigLists
  DEF Assumptions, SupervisorAssumption, DayCounts, TypeOfControl, NoConfig
<1>2. <<>> \in Seq(Commands) /\ Len(<<>>) = 0 OBVIOUS
<1>3. events # <<>> => Tail(events) \in Seq(Commands) /\ Len(Tail(events)) <= QueueMax
  BY <1>0, <1>1 DEF TypeOfControl
<1> USE <1>0, <1>1 DEF TypeOfControl, DayCounts
<1>4. CASE Start
  <2>1. at = 0 BY <1>4 DEF Start, DownIsEmpty
  <2>2. \A c \in Configs : Len(c.order) \in Nat
    <3>1. \A c \in Configs : c.order \in Seq(Workers)
      BY DEF Assumptions, SupervisorAssumption, Accepted, Config
    <3> QED BY <3>1, ElementIn
  <2>3. at' = 0 /\ config' \in Configs BY <1>4, <2>1 DEF Start
  <2>4. at' \in 0 .. Len(config'.order) + 1 BY <2>2, <2>3
  <2> QED BY <1>4, <2>3, <2>4 DEF Start, files, clock
<1>5. CASE ClosePipe BY <1>5 DEF ClosePipe, memory, clock
<1>6. ASSUME NEW cmd \in Commands, Write(cmd) PROVE TypeOfControl' /\ DayCounts'
  <2>1. Append(events, cmd) \in Seq(Commands) /\ Len(Append(events, cmd)) = Len(events) + 1
    OBVIOUS
  <2>2. events' \in Seq(Commands) /\ Len(events') <= QueueMax
    <3>1. CASE Len(events) < QueueMax
      <4>1. events' = Append(events, cmd) BY <1>6, <3>1 DEF Write
      <4>2. PICK l \in Nat : l = Len(events) OBVIOUS
      <4> QED BY <2>1, <3>1, <4>1, <4>2
    <3>2. CASE ~(Len(events) < QueueMax) BY <1>6, <3>2 DEF Write
    <3> QED BY <3>1, <3>2
  <2> QED BY <1>6, <2>2 DEF Write, memory, clock
<1>7. CASE Kill \/ Shutdown
  <2>1. Gone BY <1>7 DEF Kill, Shutdown
  <2>2. /\ sup' = "down" /\ at' = 0 /\ stopping' = FALSE /\ events' = <<>> /\ claim' = "none"
        /\ config' = NoConfig
        /\ UNCHANGED <<part, day, sent, runs>>
    BY <2>1 DEF Gone, files, clock
  <2>3. at' \in 0 .. Len(config'.order) + 1 BY <2>2
  <2>4. 0 <= QueueMax OBVIOUS
  <2> QED BY <1>2, <2>2, <2>3, <2>4
<1>8. CASE BeginPass BY <1>8 DEF BeginPass, memory, clock
<1>9. CASE TakeStop \/ TakeUnknown
  BY <1>3, <1>9 DEF TakeStop, TakeUnknown, memory, clock
<1>10. CASE TakeRestart
  BY <1>3, <1>10 DEF TakeRestart, LaunchFails, clock
<1>11. CASE Save \/ WriteFails \/ Publish
  <2>1. /\ sup' \in {"visiting", "closing", "draining"} /\ at' \in {0, at}
        /\ claim' \in {claim, "ready", "degraded"}
        /\ UNCHANGED <<stopping, events, config, part, day, sent, runs>>
    BY <1>11 DEF Save, WriteFails, Publish, memory, clock
  <2> QED BY <2>1
<1>12. ASSUME NEW n \in Workers, Step(n) PROVE TypeOfControl' /\ DayCounts'
  <2>1. Visiting(n) /\ at \in 1 .. Len(config.order)
    BY <1>12, ConfigLists
    DEF Step, VisitDisabled, VisitBusy, VisitCompleted, VisitFailed, VisitLaunches, VisitIdle,
        Visiting
  <2>2. at + 1 \in 0 .. Len(config.order) + 1 BY <2>1
  <2> QED
    BY <1>12, <2>2
    DEF Step, VisitDisabled, VisitBusy, VisitCompleted, VisitFailed, VisitLaunches, VisitIdle,
        LaunchFails, memory, clock
<1>13. CASE NextPart BY <1>13 DEF NextPart, control, memory
<1>14. CASE \/ Tick
            \/ \E p \in Pids : \E life \in {"zero", "failed"} : Exit(p, life)
            \/ \E p \in Pids : \E kind \in {"success", "failure", "heartbeat"} : Report(p, kind)
  <2>1. UNCHANGED <<control, config, clock, sent, runs>>
    BY <1>14 DEF Tick, Exit, Report, memory
  <2> QED BY <2>1 DEF control, clock
<1>15. CASE UNCHANGED vars BY <1>15 DEF vars, control, memory, clock
<1>16. Stop \in Commands /\ \A n \in Workers : Restart(n) \in Commands
  BY DEF Commands, Restart
<1> QED
  BY <1>4, <1>5, <1>6, <1>7, <1>8, <1>9, <1>10, <1>11, <1>12, <1>13, <1>14, <1>15, <1>16
  DEF Next, Supervise, Agent, World


\* A process that is not free is a worker's.
LEMMA WorksForSomebody ==
    ASSUME TypeOfWorld, NEW p \in Pids, proc[p].life # "free"
    PROVE  /\ proc[p] \in [job : Workers, life : {"running", "zero", "failed"}]
           /\ proc[p].job \in Workers
<1>1. proc[p] \in Owned BY DEF TypeOfWorld
<1>2. proc[p] # FreePid
  <2>1. FreePid.life = "free" BY DEF FreePid
  <2> QED BY <2>1
<1>3. proc[p] \in [job : Workers, life : {"running", "zero", "failed"}]
  BY <1>1, <1>2 DEF Owned
<1> QED BY <1>3

\* A step that leaves processes, files and schedule alone.
LEMMA StillTyped ==
    ASSUME TypeOfMemory, TypeOfWorld,
           UNCHANGED <<procs, key, completed, saved, earned>>,
           UNCHANGED <<proc, health, orphans, haunted, acked>>,
           state' \in [Workers -> States]
    PROVE  TypeOfMemory' /\ TypeOfWorld'
BY DEF TypeOfMemory, TypeOfWorld

\* Every step keeps the types of the workers, their processes and their files.
LEMMA RestTyped ==
    ASSUME Assumptions, TypeOK, DayCounts, OthersAreOrphans, [Next]_vars
    PROVE  TypeOfMemory' /\ TypeOfWorld'
<1>1. TypeOfControl /\ TypeOfMemory /\ TypeOfWorld BY TypeInParts
<1>2. CASE Start
  <2>1. \A p \in orphans : proc[p].job \in Workers
    BY <1>1, WorksForSomebody DEF TypeOfWorld, OthersAreOrphans, Running
  <2>2. haunted' = {proc[p].job : p \in orphans} /\ completed' = saved
        /\ UNCHANGED <<procs, key, state, files, proc, orphans, earned, acked>>
    BY <1>2 DEF Start
  <2>3. haunted' \subseteq Workers BY <2>1, <2>2
  <2> QED BY <1>1, <2>2, <2>3 DEF files, TypeOfMemory, TypeOfWorld
<1>3. ASSUME NEW cmd, Write(cmd) PROVE TypeOfMemory' /\ TypeOfWorld'
  BY <1>1, <1>3, StillTyped DEF Write, memory, files, history, TypeOfMemory
<1>4. CASE ClosePipe \/ BeginPass \/ TakeStop \/ TakeUnknown \/ WriteFails \/ Publish
           \/ NextPart \/ UNCHANGED vars
  <2>1. UNCHANGED <<memory, files, proc, history>>
    BY <1>4 DEF ClosePipe, BeginPass, TakeStop, TakeUnknown, WriteFails, Publish, NextPart, vars
  <2> QED BY <1>1, <2>1, StillTyped DEF memory, files, history, TypeOfMemory
<1>5. CASE Kill \/ Shutdown
  <2>1. Gone BY <1>5 DEF Kill, Shutdown
  <2>2. procs' = NoProcs /\ key' = NoKey /\ state' = NoState /\ completed' = {}
        /\ acked' = {} /\ haunted' = {} /\ UNCHANGED <<saved, health, earned>>
    BY <2>1 DEF Gone, files
  <2>3. proc' \in [Pids -> Owned] /\ orphans' \subseteq Pids
    BY <1>1, <1>5 DEF Kill, Shutdown, TypeOfWorld, Owned
  <2> QED
    BY <1>1, <2>2, <2>3, NoKeyTyped, EmptyTyped DEF TypeOfMemory, TypeOfWorld, States
<1>6. CASE TakeRestart
  <2> DEFINE n == Head(events).job
  <2>1. n \in Workers BY <1>6, ConfigLists DEF TakeRestart
  <2>2. UNCHANGED <<saved, orphans, haunted, earned>> BY <1>6 DEF TakeRestart
  <2>3. completed' \subseteq Keys BY <1>1, <1>6 DEF TakeRestart, TypeOfMemory
  <2>4. Reaped(n) \in [Pids -> Owned] /\ NameKey(n) \in Keys
    BY <1>1, <2>1, ReapedTyped, NamesAreKeys
  <2>5. \/ Launch(n, NameKey(n), Reaped(n))
        \/ /\ LaunchFails(n, Reaped(n))
           /\ state' = [state EXCEPT ![n] = IF procs[n] = 0 THEN @ ELSE "stopped"]
    BY <1>6 DEF TakeRestart
  <2> HIDE DEF n
  <2>6. /\ procs' \in [Workers -> Pids \union {0}] /\ key' \in [Workers -> Keys]
        /\ proc' \in [Pids -> Owned] /\ health' \in [Data -> HealthFile]
        /\ acked' \subseteq Workers
    BY <1>1, <2>1, <2>4, <2>5, LaunchTyped, LaunchFailsTyped
  <2>7. state' \in [Workers -> States]
    <3>1. CASE Launch(n, NameKey(n), Reaped(n)) BY <1>1, <2>1, <2>4, <3>1, LaunchTyped
    <3>2. CASE state' = [state EXCEPT ![n] = IF procs[n] = 0 THEN @ ELSE "stopped"]
      BY <1>1, <2>1, <3>2 DEF TypeOfMemory, States
    <3> QED BY <2>5, <3>1, <3>2
  <2> QED BY <1>1, <2>2, <2>3, <2>6, <2>7 DEF TypeOfMemory, TypeOfWorld
<1>7. CASE Save BY <1>1, <1>7 DEF Save, memory, history, TypeOfMemory, TypeOfWorld
<1>8. ASSUME NEW n \in Workers, VisitDisabled(n) \/ VisitBusy(n) \/ VisitIdle(n)
      PROVE  TypeOfMemory' /\ TypeOfWorld'
  <2>1. state' \in [Workers -> States]
    BY <1>1, <1>8 DEF VisitDisabled, VisitBusy, VisitIdle, memory, TypeOfMemory, States
  <2> QED
    BY <1>1, <1>8, <2>1, StillTyped
    DEF VisitDisabled, VisitBusy, VisitIdle, memory, files, history
<1>9. ASSUME NEW n \in Workers, VisitCompleted(n) \/ VisitFailed(n)
      PROVE  TypeOfMemory' /\ TypeOfWorld'
  <2>1. UNCHANGED <<saved, health, history>> /\ proc' = Reaped(n)
    BY <1>9 DEF VisitCompleted, VisitFailed, files
  <2>2. Reaped(n) \in [Pids -> Owned] /\ NameKey(n) \in Keys /\ key[n] \in Keys
    BY <1>1, ReapedTyped, NamesAreKeys DEF TypeOfMemory
  <2>3. /\ procs' \in [Workers -> Pids \union {0}] /\ key' \in [Workers -> Keys]
        /\ state' \in [Workers -> States] /\ completed' \subseteq Keys
    BY <1>1, <1>9, <2>2 DEF VisitCompleted, VisitFailed, Completes, TypeOfMemory, States
  <2> QED BY <1>1, <2>1, <2>2, <2>3 DEF history, TypeOfMemory, TypeOfWorld
<1>10. ASSUME NEW n \in Workers, VisitLaunches(n)
       PROVE  TypeOfMemory' /\ TypeOfWorld'
  <2>1. UNCHANGED <<completed, saved, orphans, haunted, earned>>
    BY <1>10 DEF VisitLaunches
  <2>2. PICK k \in Due(n) : Launch(n, k, proc) \/ (LaunchFails(n, proc) /\ state' = state)
    BY <1>10 DEF VisitLaunches
  <2>3. k \in Keys /\ proc \in [Pids -> Owned] BY <1>1, DueKeys DEF TypeOfWorld
  <2>4. /\ procs' \in [Workers -> Pids \union {0}] /\ key' \in [Workers -> Keys]
        /\ proc' \in [Pids -> Owned] /\ health' \in [Data -> HealthFile]
        /\ acked' \subseteq Workers
    BY <1>1, <2>2, <2>3, LaunchTyped, LaunchFailsTyped
  <2>5. state' \in [Workers -> States]
    BY <1>1, <2>2, <2>3, LaunchTyped DEF TypeOfMemory
  <2> QED BY <1>1, <2>1, <2>4, <2>5 DEF TypeOfMemory, TypeOfWorld
<1>11. CASE Tick
  BY <1>1, <1>11, StillTyped DEF Tick, files, TypeOfMemory
<1>12. ASSUME NEW p \in Pids, NEW life \in {"zero", "failed"}, Exit(p, life)
       PROVE  TypeOfMemory' /\ TypeOfWorld'
  <2>1. UNCHANGED <<memory, files, haunted, acked>> BY <1>12 DEF Exit
  <2>2. proc[p] \in [job : Workers, life : {"running", "zero", "failed"}]
    BY <1>1, <1>12, WorksForSomebody DEF Exit, Running
  <2>3. proc' \in [Pids -> Owned] /\ orphans' \subseteq Pids
    BY <1>1, <1>12, <2>2 DEF Exit, TypeOfWorld, Owned
  <2>4. earned' \subseteq Keys
    BY <1>1, <1>12, <2>2 DEF Exit, TypeOfMemory
  <2> QED BY <1>1, <2>1, <2>3, <2>4 DEF memory, files, TypeOfMemory, TypeOfWorld
<1>13. ASSUME NEW p \in Pids, NEW kind \in {"success", "failure", "heartbeat"}, Report(p, kind)
       PROVE  TypeOfMemory' /\ TypeOfWorld'
  <2>1. UNCHANGED <<memory, saved, proc, orphans, haunted, earned>> BY <1>13 DEF Report
  <2>2. PICK n \in Data : n = proc[p].job BY <1>13 DEF Report
  <2>3. n \in Workers BY DEF Assumptions, SupervisorAssumption
  <2> DEFINE merged == [health[n] EXCEPT !.pid = p, !.ok = kind # "failure"]
  <2>4. merged \in HealthFile /\ [merged EXCEPT !.since = Data] \in HealthFile
    <3>1. health[n] \in HealthFile BY <1>1 DEF TypeOfWorld
    <3>2. merged \in HealthFile BY <3>1 DEF HealthFile
    <3> HIDE DEF merged
    <3>3. [merged EXCEPT !.since = Data] \in HealthFile BY <3>2 DEF HealthFile
    <3> QED BY <3>2, <3>3
  <2>5. health' = [health EXCEPT ![n] =
                     IF kind = "success" THEN [merged EXCEPT !.since = Data] ELSE merged]
        /\ acked' \subseteq acked \union {n}
    BY <1>13, <2>2 DEF Report
  <2> HIDE DEF merged
  <2>6. health' \in [Data -> HealthFile] BY <1>1, <2>4, <2>5 DEF TypeOfWorld
  <2> QED BY <1>1, <2>1, <2>3, <2>5, <2>6 DEF memory, TypeOfMemory, TypeOfWorld
<1> QED
  BY <1>2, <1>3, <1>4, <1>5, <1>6, <1>7, <1>8, <1>9, <1>10, <1>11, <1>12, <1>13
  DEF Next, Supervise, Agent, World, Step

-----------------------------------------------------------------------------
(* The limit on restarts.                                                  *)

\* Every step keeps the order of exits and launches, and the limit.
LEMMA RatesHold ==
    ASSUME Assumptions, TypeOK, Rates, [Next]_vars
    PROVE  TypeOfRates' /\ Rates'
<1>1. TypeOfRates /\ TypeOfMemory BY TypeInParts
<1>2. /\ Window \in Nat /\ 0 < Window /\ Burst \in Nat /\ 0 < Burst
      /\ <<>> \in Seq(0 .. Window)
      /\ \A k \in Nat : Backoff(k + 1) \in Nat
  <2>1. Window \in Nat /\ 0 < Window /\ Delays \in Seq(Nat) /\ Len(Delays) \in Nat
    BY DEF Assumptions, SupervisorAssumption
  <2>2. ASSUME NEW k \in Nat PROVE Backoff(k + 1) \in Nat
    <3>1. CASE k + 1 >= Burst BY <2>1, <3>1 DEF Backoff
    <3>2. CASE ~(k + 1 >= Burst)
      <4>1. k + 1 \in 1 .. Len(Delays) BY <2>1, <3>2 DEF Burst
      <4>2. Delays[k + 1] \in Nat BY <2>1, <4>1
      <4> QED BY <3>2, <4>2 DEF Backoff
    <3> QED BY <3>1, <3>2
  <2> QED BY <2>1, <2>2 DEF Burst
\* Nothing but the state of workers changes, and that away from an exit.
<1>3. ASSUME UNCHANGED <<attempts, relaunched, wait>>,
             \A n \in Workers : state'[n] = state[n] \/ state'[n] \notin {"recovering", "fault"}
      PROVE  TypeOfRates' /\ Rates'
  <2>1. TypeOfRates' BY <1>1, <1>3 DEF TypeOfRates
  <2>2. ASSUME NEW n \in Workers
        PROVE  Rated(attempts'[n], relaunched'[n], wait'[n], state'[n])
    <3>1. Rated(attempts[n], relaunched[n], wait[n], state[n]) BY DEF Rates
    <3>2. CASE state'[n] = state[n] BY <1>3, <3>1, <3>2
    <3>3. CASE state'[n] \notin {"recovering", "fault"} BY <1>3, <3>1, <3>3, RateElse
    <3> QED BY <1>3, <3>2, <3>3
  <2> QED BY <2>1, <2>2 DEF Rates
<1>4. ASSUME NEW cmd, Write(cmd) PROVE TypeOfRates' /\ Rates'
  BY <1>3, <1>4 DEF Write, memory, history
<1>5. CASE \/ ClosePipe \/ BeginPass \/ TakeStop \/ TakeUnknown \/ WriteFails \/ Publish
           \/ NextPart \/ Start \/ Save \/ UNCHANGED vars
           \/ \E p \in Pids : \E life \in {"zero", "failed"} : Exit(p, life)
           \/ \E p \in Pids : \E kind \in {"success", "failure", "heartbeat"} : Report(p, kind)
  BY <1>3, <1>5
  DEF ClosePipe, BeginPass, TakeStop, TakeUnknown, WriteFails, Publish, NextPart, Start, Save,
      vars, memory, history, Exit, Report
<1>6. CASE Kill \/ Shutdown
  <2>1. attempts' = Empty /\ relaunched' = Empty /\ wait' = NoProcs /\ state' = NoState
    BY <1>6 DEF Kill, Shutdown, Gone
  <2>2. TypeOfRates' BY <2>1, EmptyTyped DEF TypeOfRates
  <2>3. \A n \in Workers : attempts'[n] = <<>> /\ relaunched'[n] = <<>>
    BY <2>1 DEF Empty
  <2> QED BY <2>2, <2>3, RateReset DEF Rates
<1>7. CASE TakeRestart
  <2> DEFINE n == Head(events).job
  <2>1. n \in Workers BY <1>7, ConfigLists DEF TakeRestart
  <2>2. /\ attempts' = [attempts EXCEPT ![n] = <<>>]
        /\ relaunched' = [relaunched EXCEPT ![n] = <<>>]
        /\ wait' = [wait EXCEPT ![n] = 0]
        /\ \A m \in Workers : m # n => state'[m] = state[m]
    BY <1>1, <1>7 DEF TakeRestart, Launch, TypeOfMemory
  <2> HIDE DEF n
  <2>3. TypeOfRates' BY <1>1, <1>2, <2>1, <2>2 DEF TypeOfRates
  <2>4. ASSUME NEW m \in Workers
        PROVE  Rated(attempts'[m], relaunched'[m], wait'[m], state'[m])
    <3>1. CASE m = n
      <4>1. attempts'[m] = <<>> /\ relaunched'[m] = <<>> BY <1>1, <2>2, <3>1 DEF TypeOfRates
      <4> QED BY <4>1, RateReset
    <3>2. CASE m # n BY <1>1, <2>2, <3>2 DEF Rates, TypeOfRates
    <3> QED BY <3>1, <3>2
  <2> QED BY <2>3, <2>4 DEF Rates
<1>8. ASSUME NEW n \in Workers,
             VisitDisabled(n) \/ VisitBusy(n) \/ VisitIdle(n) \/ VisitCompleted(n)
      PROVE  TypeOfRates' /\ Rates'
  <2>1. UNCHANGED <<attempts, relaunched, wait>>
    BY <1>8 DEF VisitDisabled, VisitBusy, VisitIdle, VisitCompleted, memory, history
  <2>2. \A m \in Workers : state'[m] = state[m] \/ state'[m] \notin {"recovering", "fault"}
    BY <1>1, <1>8
    DEF VisitDisabled, VisitBusy, VisitIdle, VisitCompleted, memory, TypeOfMemory
  <2> QED BY <1>3, <2>1, <2>2
<1>9. ASSUME NEW n \in Workers, VisitFailed(n) PROVE TypeOfRates' /\ Rates'
  <2>1. attempts[n] \in Seq(0 .. Window) /\ relaunched[n] \in Seq(0 .. Window) /\ wait[n] \in Nat
        /\ Len(attempts[n]) \in Nat
    BY <1>1 DEF TypeOfRates
  <2>2. /\ attempts' = [attempts EXCEPT ![n] = Append(attempts[n], 0)]
        /\ wait' = [wait EXCEPT ![n] = Backoff(Len(attempts[n]) + 1)]
        /\ state' = [state EXCEPT ![n] =
                       IF Len(attempts[n]) + 1 >= Burst THEN "fault" ELSE "recovering"]
        /\ relaunched' = relaunched
    BY <1>9 DEF VisitFailed, history
  <2>3. Append(attempts[n], 0) \in Seq(0 .. Window)
    <3>1. 0 \in 0 .. Window BY <1>2
    <3> QED BY <2>1, <3>1
  <2>4. TypeOfRates' BY <1>1, <1>2, <2>1, <2>2, <2>3 DEF TypeOfRates
  <2>5. ASSUME NEW m \in Workers
        PROVE  Rated(attempts'[m], relaunched'[m], wait'[m], state'[m])
    <3>1. CASE m = n
      <4>1. Rated(attempts[n], relaunched[n], wait[n], state[n]) BY DEF Rates
      <4>2. Rated(Append(attempts[n], 0), relaunched[n], Backoff(Len(attempts[n]) + 1),
                  IF Len(attempts[n]) + 1 >= Burst THEN "fault" ELSE "recovering")
        BY <2>1, <4>1, RateExits
      <4> QED BY <1>1, <2>2, <3>1, <4>2 DEF TypeOfRates, TypeOfMemory
    <3>2. CASE m # n BY <1>1, <2>2, <3>2 DEF Rates, TypeOfRates, TypeOfMemory
    <3> QED BY <3>1, <3>2
  <2> QED BY <2>4, <2>5 DEF Rates
<1>10. ASSUME NEW n \in Workers, VisitLaunches(n) PROVE TypeOfRates' /\ Rates'
  <2>1. attempts[n] \in Seq(0 .. Window) /\ relaunched[n] \in Seq(0 .. Window) /\ wait[n] = 0
    BY <1>1, <1>10 DEF TypeOfRates, VisitLaunches, PutOff
  <2>2. UNCHANGED <<attempts, wait>> BY <1>10 DEF VisitLaunches
  <2>3. CASE UNCHANGED <<state, relaunched>> BY <1>3, <2>2, <2>3
  <2>4. CASE /\ state' = [state EXCEPT ![n] = "running"]
             /\ relaunched' = IF state[n] \in {"recovering", "fault"}
                              THEN [relaunched EXCEPT ![n] = Append(@, 0)] ELSE relaunched
    <3>1. CASE state[n] \notin {"recovering", "fault"}
      BY <1>1, <1>3, <2>2, <2>4, <3>1 DEF TypeOfMemory
    <3>2. CASE state[n] \in {"recovering", "fault"}
      <4>1. Append(relaunched[n], 0) \in Seq(0 .. Window)
        <5>1. 0 \in 0 .. Window BY <1>2
        <5> QED BY <2>1, <5>1
      <4>2. relaunched' = [relaunched EXCEPT ![n] = Append(relaunched[n], 0)]
        BY <2>4, <3>2
      <4>3. TypeOfRates' BY <1>1, <2>2, <4>1, <4>2 DEF TypeOfRates
      <4>4. ASSUME NEW m \in Workers
            PROVE  Rated(attempts'[m], relaunched'[m], wait'[m], state'[m])
        <5>1. CASE m = n
          <6>1. Rated(attempts[n], relaunched[n], 0, state[n]) BY <2>1 DEF Rates
          <6>2. Rated(attempts[n], Append(relaunched[n], 0), 0, "running")
            BY <2>1, <3>2, <6>1, RateLaunches
          <6> QED
            BY <1>1, <2>1, <2>2, <2>4, <4>2, <5>1, <6>2 DEF TypeOfRates, TypeOfMemory
        <5>2. CASE m # n
          BY <1>1, <2>2, <2>4, <4>2, <5>2 DEF Rates, TypeOfRates, TypeOfMemory
        <5> QED BY <5>1, <5>2
      <4> QED BY <4>3, <4>4 DEF Rates
    <3> QED BY <3>1, <3>2
  <2> QED BY <1>10, <2>3, <2>4 DEF VisitLaunches, Launch
<1>11. CASE Tick
  <2>1. /\ wait' = [n \in Workers |-> IF wait[n] = 0 THEN 0 ELSE wait[n] - 1]
        /\ attempts' = [n \in Workers |-> Age(attempts[n])]
        /\ relaunched' = [n \in Workers |-> Age(relaunched[n])]
        /\ state' = state
    BY <1>11 DEF Tick
  <2>2. ASSUME NEW n \in Workers
        PROVE  /\ Age(attempts[n]) \in Seq(0 .. Window) /\ Age(relaunched[n]) \in Seq(0 .. Window)
               /\ (IF wait[n] = 0 THEN 0 ELSE wait[n] - 1) \in Nat
               /\ Rated(Age(attempts[n]), Age(relaunched[n]),
                        IF wait[n] = 0 THEN 0 ELSE wait[n] - 1, state[n])
    <3>1. attempts[n] \in Seq(0 .. Window) /\ relaunched[n] \in Seq(0 .. Window)
          /\ wait[n] \in Nat /\ Rated(attempts[n], relaunched[n], wait[n], state[n])
      BY <1>1 DEF TypeOfRates, Rates
    <3>2. (IF wait[n] = 0 THEN 0 ELSE wait[n] - 1) \in Nat BY <3>1
    <3> QED BY <3>1, <3>2, AgeTyped, RateTicks
  <2>3. TypeOfRates' BY <2>1, <2>2 DEF TypeOfRates
  <2>4. Rates' BY <2>1, <2>2 DEF Rates
  <2> QED BY <2>3, <2>4
<1> QED
  BY <1>4, <1>5, <1>6, <1>7, <1>8, <1>9, <1>10, <1>11
  DEF Next, Supervise, Agent, World, Step


-----------------------------------------------------------------------------
(* The processes, the schedule and the health files.                       *)

\* The part of the invariant that is not about times.
WorldInv ==
    /\ DownIsEmpty /\ OwnsItsProcesses /\ OthersAreOrphans /\ OrphansAreNoted
    /\ CompletionEarned /\ ZeroIsEarned /\ SavedIsKnown /\ SuccessIsOwn

\* What the proofs below use of the types.
LEMMA Pieces ==
    ASSUME Assumptions, TypeOK
    PROVE  /\ 0 \notin Pids /\ Data \subseteq Workers
           /\ procs \in [Workers -> Pids \union {0}] /\ key \in [Workers -> Keys]
           /\ proc \in [Pids -> Owned] /\ health \in [Data -> HealthFile]
           /\ orphans \subseteq Pids
           /\ \A p \in Pids : proc[p].life # "free" => proc[p].job \in Workers
<1>1. TypeOfMemory /\ TypeOfWorld BY TypeInParts
<1>2. \A p \in Pids : proc[p].life # "free" => proc[p].job \in Workers
  BY <1>1, WorksForSomebody
<1> QED BY <1>1, <1>2 DEF TypeOfMemory, TypeOfWorld, Assumptions, SupervisorAssumption

\* Steps that touch no process, file or schedule.
LEMMA QuietWorld ==
    ASSUME WorldInv,
           UNCHANGED <<config, procs, key, completed, saved, earned>>,
           UNCHANGED <<proc, health, orphans, haunted, acked>>,
           IF sup = "down" THEN sup' = "down" /\ at' = at ELSE sup' # "down"
    PROVE  WorldInv'
BY DEF WorldInv, DownIsEmpty, OwnsItsProcesses, OthersAreOrphans, OrphansAreNoted,
       CompletionEarned, ZeroIsEarned, SavedIsKnown, SuccessIsOwn, Configured, Running

\* A new supervisor knows its schedule, and notes the orphans it finds.
LEMMA StartWorld ==
    ASSUME Assumptions, TypeOK, WorldInv, Start PROVE WorldInv'
<1>1. /\ sup = "down" /\ procs = NoProcs /\ completed' = saved
      /\ haunted' = {proc[p].job : p \in orphans} /\ sup' # "down"
      /\ UNCHANGED <<procs, key, saved, earned, proc, health, orphans, acked>>
  BY DEF Start, WorldInv, DownIsEmpty, files
<1>2. \A n \in Workers : procs[n] = 0 BY <1>1 DEF NoProcs
<1>3. Data \subseteq Workers BY Pieces
<1>4. DownIsEmpty' /\ OwnsItsProcesses' BY <1>1, <1>2 DEF DownIsEmpty, OwnsItsProcesses
<1>5. OthersAreOrphans' BY <1>1 DEF WorldInv, OthersAreOrphans, Running
<1>6. OrphansAreNoted' BY <1>1 DEF OrphansAreNoted
<1>7. CompletionEarned' /\ SavedIsKnown'
  BY <1>1 DEF WorldInv, CompletionEarned, SavedIsKnown
<1>8. ZeroIsEarned' /\ SuccessIsOwn' BY <1>1, <1>2, <1>3 DEF ZeroIsEarned, SuccessIsOwn
<1> QED BY <1>4, <1>5, <1>6, <1>7, <1>8 DEF WorldInv

\* Whoever survives the supervisor is an orphan.
LEMMA GoneWorld ==
    ASSUME Assumptions, TypeOK, WorldInv, Kill \/ Shutdown PROVE WorldInv'
<1>1. Gone BY DEF Kill, Shutdown
<1>2. /\ sup' = "down" /\ at' = 0 /\ procs' = NoProcs /\ completed' = {}
      /\ UNCHANGED <<saved, health, earned>>
  BY <1>1 DEF Gone, files
<1>3. \A n \in Workers : procs'[n] = 0 BY <1>2 DEF NoProcs
<1>4. DownIsEmpty' /\ OwnsItsProcesses' /\ OrphansAreNoted' /\ SavedIsKnown'
  BY <1>2, <1>3 DEF DownIsEmpty, OwnsItsProcesses, OrphansAreNoted, SavedIsKnown
<1>5. CompletionEarned' BY <1>2 DEF WorldInv, CompletionEarned
<1>6. ZeroIsEarned' /\ SuccessIsOwn' BY <1>3, Pieces DEF ZeroIsEarned, SuccessIsOwn
<1>7. OthersAreOrphans'
  <2>1. FreePid.life = "free" BY DEF FreePid
  <2>2. CASE Kill
    <3>1. /\ orphans' = orphans \union {p \in Pids : Running(p)}
          /\ proc' = [p \in Pids |-> IF Running(p) THEN proc[p] ELSE FreePid]
      BY <2>2 DEF Kill
    <3>2. \A p \in orphans : p \in Pids /\ Running(p) BY Pieces DEF WorldInv, OthersAreOrphans
    <3> QED BY <2>1, <3>1, <3>2 DEF OthersAreOrphans, Running
  <2>3. CASE Shutdown
    <3> DEFINE owned == {procs[n] : n \in Workers}
    <3>1. orphans' = orphans /\ proc' = [p \in Pids |-> IF p \in owned THEN FreePid ELSE proc[p]]
      BY <2>3 DEF Shutdown
    <3>2. ASSUME NEW p \in Pids, proc'[p].life # "free" PROVE p \in orphans'
      <4>1. p \notin owned /\ proc'[p] = proc[p] BY <2>1, <3>1, <3>2
      <4>2. proc[p].job \in Workers BY <3>2, <4>1, Pieces
      <4>3. procs[proc[p].job] # p BY <4>1, <4>2
      <4> QED BY <3>1, <3>2, <4>1, <4>3 DEF WorldInv, OthersAreOrphans
    <3>3. ASSUME NEW p \in orphans' PROVE Running(p)'
      <4>1. p \in orphans /\ p \in Pids /\ p # 0 BY <3>1, <3>3, Pieces
      <4>2. p \notin owned BY <4>1 DEF WorldInv, OwnsItsProcesses
      <4>3. proc'[p] = proc[p] BY <3>1, <4>1, <4>2
      <4>4. Running(p) BY <4>1 DEF WorldInv, OthersAreOrphans
      <4> QED BY <4>3, <4>4 DEF Running
    <3> QED BY <3>2, <3>3 DEF OthersAreOrphans
  <2> QED BY <2>2, <2>3
<1> QED BY <1>4, <1>5, <1>6, <1>7 DEF WorldInv

\* Reaping the process of one worker disturbs neither the others nor orphans.
LEMMA ReapedAlone ==
    ASSUME Assumptions, TypeOK, WorldInv, NEW n \in Workers
    PROVE  /\ Reaped(n) \in [Pids -> Owned]
           /\ procs[n] # 0 => Reaped(n)[procs[n]].life = "free"
           /\ \A m \in Workers \ {n} : procs[m] # 0 => Reaped(n)[procs[m]] = proc[procs[m]]
           /\ \A q \in orphans : Reaped(n)[q] = proc[q]
           /\ \A q \in Pids : Reaped(n)[q].life # "free" =>
                /\ Reaped(n)[q] = proc[q]
                /\ q \in orphans \/ (proc[q].job # n /\ procs[proc[q].job] = q)
<1>1. Reaped(n) \in [Pids -> Owned] BY ReapedTyped, TypeInParts
<1>2. FreePid.life = "free" BY DEF FreePid
<1>3. CASE procs[n] = 0
  <2>1. Reaped(n) = proc BY <1>3 DEF Reaped
  <2>2. ASSUME NEW q \in Pids, proc[q].life # "free"
        PROVE  q \in orphans \/ (proc[q].job # n /\ procs[proc[q].job] = q)
    BY <1>3, <2>2, Pieces DEF WorldInv, OthersAreOrphans
  <2> QED BY <1>1, <1>3, <2>1, <2>2
<1>4. CASE procs[n] # 0
  <2>1. Reaped(n) = [proc EXCEPT ![procs[n]] = FreePid] BY <1>4 DEF Reaped
  <2>2. procs[n] \in Pids /\ procs[n] \notin orphans /\ proc[procs[n]].job = n
    BY <1>4, Pieces DEF WorldInv, OwnsItsProcesses
  <2>3. ASSUME NEW q \in Pids
        PROVE  Reaped(n)[q] = IF q = procs[n] THEN FreePid ELSE proc[q]
    BY <2>1, Pieces
  <2>4. ASSUME NEW m \in Workers \ {n}, procs[m] # 0
        PROVE  Reaped(n)[procs[m]] = proc[procs[m]]
    <3>1. procs[m] \in Pids /\ proc[procs[m]].job = m
      BY <2>4, Pieces DEF WorldInv, OwnsItsProcesses
    <3> QED BY <2>2, <2>3, <2>4, <3>1
  <2>5. ASSUME NEW q \in orphans PROVE Reaped(n)[q] = proc[q]
    BY <2>2, <2>3, Pieces
  <2>6. ASSUME NEW q \in Pids, Reaped(n)[q].life # "free"
        PROVE  /\ Reaped(n)[q] = proc[q]
               /\ q \in orphans \/ (proc[q].job # n /\ procs[proc[q].job] = q)
    <3>1. q # procs[n] /\ Reaped(n)[q] = proc[q] BY <1>2, <2>3, <2>6
    <3>2. q \in orphans \/ procs[proc[q].job] = q
      BY <2>6, <3>1 DEF WorldInv, OthersAreOrphans
    <3> QED BY <3>1, <3>2
  <2> QED BY <1>1, <1>2, <2>2, <2>3, <2>4, <2>5, <2>6
<1> QED BY <1>3, <1>4

\* What a step does with the schedule while a worker is reaped: it records runs
\* that were earned, and forgets only runs by hand.
Recorded ==
    /\ sup # "down" /\ sup' # "down"
    /\ completed' \subseteq completed \union earned
    /\ \A k \in completed : k \in completed' \/ k.day = 0
    /\ UNCHANGED <<config, saved, earned, orphans, haunted>>

\* What is recorded stays earned, and what the file holds stays known.
LEMMA RecordedWorld ==
    ASSUME WorldInv, Recorded
    PROVE  DownIsEmpty' /\ CompletionEarned' /\ SavedIsKnown'
BY DEF WorldInv, Recorded, DownIsEmpty, CompletionEarned, SavedIsKnown

\* A worker is reaped and not launched again.
LEMMA ReapedWorld ==
    ASSUME Assumptions, TypeOK, WorldInv, NEW n \in Workers, Recorded,
           procs' = [procs EXCEPT ![n] = 0], proc' = Reaped(n),
           \A m \in Workers \ {n} : key'[m] = key[m],
           UNCHANGED <<health, acked>>
    PROVE  WorldInv'
<1>1. UNCHANGED <<config, saved, earned, orphans, haunted>> BY DEF Recorded
<1>2. procs'[n] = 0 /\ \A m \in Workers \ {n} : procs'[m] = procs[m] BY Pieces
<1>3. \A m \in Workers : procs'[m] # 0 => m # n /\ procs'[m] = procs[m] /\ key'[m] = key[m]
      /\ proc'[procs'[m]] = proc[procs[m]]
  BY <1>2, ReapedAlone
<1>4. OwnsItsProcesses'
  <2>1. Configured' = Configured BY <1>1 DEF Configured
  <2> QED BY <1>1, <1>3, <2>1 DEF WorldInv, OwnsItsProcesses
<1>5. OthersAreOrphans'
  <2>1. ASSUME NEW q \in Pids, proc'[q].life # "free"
        PROVE  q \in orphans' \/ procs'[proc'[q].job] = q
    <3>1. proc'[q] = proc[q] /\ (q \in orphans \/ (proc[q].job # n /\ procs[proc[q].job] = q))
      BY <2>1, ReapedAlone
    <3>2. proc[q].job \in Workers BY <2>1, <3>1, Pieces
    <3> QED BY <1>1, <1>2, <3>1, <3>2
  <2>2. ASSUME NEW q \in orphans PROVE Running(q)'
    <3>1. proc'[q] = proc[q] BY ReapedAlone
    <3>2. Running(q) BY DEF WorldInv, OthersAreOrphans
    <3> QED BY <3>1, <3>2 DEF Running
  <2> QED BY <1>1, <2>1, <2>2 DEF OthersAreOrphans
<1>6. OrphansAreNoted'
  <2>1. \A q \in orphans : proc'[q] = proc[q] BY ReapedAlone
  <2> QED BY <1>1, <2>1 DEF WorldInv, OrphansAreNoted, Recorded
<1>7. ZeroIsEarned' BY <1>1, <1>3 DEF WorldInv, ZeroIsEarned
<1>8. SuccessIsOwn' BY <1>1, <1>3, Pieces DEF WorldInv, SuccessIsOwn
<1> QED BY <1>4, <1>5, <1>6, <1>7, <1>8, RecordedWorld DEF WorldInv

\* A worker is reaped and launched again.
LEMMA LaunchedWorld ==
    ASSUME Assumptions, TypeOK, WorldInv, NEW n \in Workers, NEW k, Recorded,
           n \in Configured, Launch(n, k, Reaped(n))
    PROVE  WorldInv'
<1>1. UNCHANGED <<config, saved, earned, orphans, haunted>> BY DEF Recorded
<1>2. PICK p \in Pids :
        /\ Reaped(n)[p].life = "free"
        /\ proc' = [Reaped(n) EXCEPT ![p] = [job |-> n, life |-> "running"]]
        /\ procs' = [procs EXCEPT ![n] = p]
        /\ key' = [key EXCEPT ![n] = k]
        /\ health' = [m \in Data |-> [health[m] EXCEPT !.since = @ \ {n}]]
        /\ acked' = acked \ {n}
  BY DEF Launch
<1>3. Reaped(n) \in [Pids -> Owned] BY ReapedAlone
<1>4. /\ proc'[p] = [job |-> n, life |-> "running"]
      /\ \A q \in Pids \ {p} : proc'[q] = Reaped(n)[q]
  BY <1>2, <1>3
<1>5. procs'[n] = p /\ \A m \in Workers \ {n} : procs'[m] = procs[m] /\ key'[m] = key[m]
  BY <1>2, Pieces
<1>6. p \notin orphans /\ p # 0
  <2>1. \A q \in orphans : Reaped(n)[q] = proc[q] BY ReapedAlone
  <2>2. \A q \in orphans : proc[q].life = "running" BY DEF WorldInv, OthersAreOrphans, Running
  <2> QED BY <1>2, <2>1, <2>2, Pieces
<1>7. ASSUME NEW m \in Workers \ {n}, procs[m] # 0
      PROVE  procs[m] # p /\ proc'[procs[m]] = proc[procs[m]]
  <2>1. Reaped(n)[procs[m]] = proc[procs[m]] /\ procs[m] \in Pids
    BY <1>7, ReapedAlone, Pieces
  <2>2. proc[procs[m]].life # "free" BY <1>7 DEF WorldInv, OwnsItsProcesses
  <2> QED BY <1>2, <1>4, <2>1, <2>2
<1>8. ASSUME NEW q \in orphans PROVE q \in Pids /\ q # p /\ proc'[q] = proc[q]
  BY <1>4, <1>6, ReapedAlone, Pieces
<1>9. OwnsItsProcesses'
  <2>1. Configured' = Configured BY <1>1 DEF Configured
  <2>2. ASSUME NEW m \in Workers, procs'[m] # 0
        PROVE  /\ m \in Configured /\ proc'[procs'[m]].job = m
               /\ proc'[procs'[m]].life # "free" /\ procs'[m] \notin orphans
    <3>1. CASE m = n BY <1>4, <1>5, <1>6, <3>1
    <3>2. CASE m # n BY <1>5, <1>7, <2>2, <3>2 DEF WorldInv, OwnsItsProcesses
    <3> QED BY <3>1, <3>2
  <2> QED BY <1>1, <2>1, <2>2 DEF OwnsItsProcesses
<1>10. OthersAreOrphans'
  <2>1. ASSUME NEW q \in Pids, proc'[q].life # "free"
        PROVE  q \in orphans' \/ procs'[proc'[q].job] = q
    <3>1. CASE q = p BY <1>4, <1>5, <3>1
    <3>2. CASE q # p
      <4>1. proc'[q] = Reaped(n)[q] BY <1>4, <3>2
      <4>2. proc'[q] = proc[q] /\ (q \in orphans \/ (proc[q].job # n /\ procs[proc[q].job] = q))
        BY <2>1, <4>1, ReapedAlone
      <4>3. proc[q].job \in Workers BY <2>1, <4>2, Pieces
      <4> QED BY <1>1, <1>5, <4>2, <4>3
    <3> QED BY <3>1, <3>2
  <2>2. \A q \in orphans : Running(q)' BY <1>8 DEF WorldInv, OthersAreOrphans, Running
  <2> QED BY <1>1, <2>1, <2>2 DEF OthersAreOrphans
<1>11. OrphansAreNoted' BY <1>1, <1>8 DEF WorldInv, OrphansAreNoted, Recorded
<1>12. ZeroIsEarned'
  <2>1. ASSUME NEW m \in Workers, procs'[m] # 0, proc'[procs'[m]].life = "zero"
        PROVE  key'[m] \in earned
    <3>1. m # n BY <1>4, <1>5, <2>1
    <3> QED BY <1>5, <1>7, <2>1, <3>1 DEF WorldInv, ZeroIsEarned
  <2> QED BY <1>1, <2>1 DEF ZeroIsEarned
<1>13. SuccessIsOwn'
  <2>1. ASSUME NEW i \in Data, NEW m \in Data, procs'[i] # 0, i \in health'[m].since
        PROVE  IF m = i THEN i \in acked' \union haunted' ELSE health'[m].pid # procs'[i]
    <3>1. health[m] \in HealthFile BY Pieces
    <3>2. health'[m].since = health[m].since \ {n} /\ health'[m].pid = health[m].pid
      BY <1>2, <3>1 DEF HealthFile
    <3>3. i # n /\ i \in health[m].since /\ i \in Workers BY <2>1, <3>2, Pieces
    <3>4. procs'[i] = procs[i] BY <1>5, <3>3
    <3>5. IF m = i THEN i \in acked \union haunted ELSE health[m].pid # procs[i]
      BY <2>1, <3>3, <3>4 DEF WorldInv, SuccessIsOwn
    <3> QED BY <1>1, <1>2, <3>2, <3>3, <3>4, <3>5
  <2> QED BY <2>1 DEF SuccessIsOwn
<1> QED BY <1>9, <1>10, <1>11, <1>12, <1>13, RecordedWorld DEF WorldInv

\* A launch that fails has reaped the worker all the same.
LEMMA LaunchFailedWorld ==
    ASSUME Assumptions, TypeOK, WorldInv, NEW n \in Workers, Recorded,
           LaunchFails(n, Reaped(n))
    PROVE  WorldInv'
<1>1. /\ procs' = [procs EXCEPT ![n] = 0] /\ proc' = Reaped(n)
      /\ UNCHANGED <<key, health, acked>>
  BY DEF LaunchFails
<1> QED BY <1>1, ReapedWorld

\* A process ends; what it has earned is noted under the key of its launch.
LEMMA ExitWorld ==
    ASSUME Assumptions, TypeOK, WorldInv,
           NEW p \in Pids, NEW life \in {"zero", "failed"}, Exit(p, life)
    PROVE  WorldInv'
<1>1. /\ Running(p) /\ orphans' = orphans \ {p}
      /\ proc' = [proc EXCEPT ![p] =
                    IF p \in orphans THEN FreePid ELSE [proc[p] EXCEPT !.life = life]]
      /\ earned' = IF p \notin orphans /\ life = "zero" /\ procs[proc[p].job] = p
                   THEN earned \union {key[proc[p].job]} ELSE earned
      /\ UNCHANGED <<sup, at, config, procs, key, completed, saved, health, haunted, acked>>
  BY DEF Exit, control, memory, files
<1>2. /\ proc'[p] = IF p \in orphans THEN FreePid ELSE [proc[p] EXCEPT !.life = life]
      /\ \A q \in Pids \ {p} : proc'[q] = proc[q]
  BY <1>1, Pieces
<1>3. FreePid.life = "free" BY DEF FreePid
<1>4. p \notin orphans => proc'[p].job = proc[p].job /\ proc'[p].life = life
                          /\ procs[proc[p].job] = p
  <2>1. proc[p].life = "running" BY <1>1 DEF Running
  <2>2. proc[p] \in [job : Workers, life : {"running", "zero", "failed"}]
    BY <2>1, WorksForSomebody, TypeInParts
  <2>3. p \in orphans \/ procs[proc[p].job] = p BY <2>1 DEF WorldInv, OthersAreOrphans
  <2> QED BY <1>2, <2>2, <2>3
<1>5. ASSUME NEW m \in Workers, procs[m] # 0
      PROVE  /\ procs[m] \notin orphans /\ m \in Configured
             /\ proc'[procs[m]].job = m /\ proc'[procs[m]].life # "free"
             /\ proc'[procs[m]].life = "zero" => key[m] \in earned'
  <2>1. /\ procs[m] \in Pids /\ procs[m] \notin orphans /\ m \in Configured
        /\ proc[procs[m]].job = m /\ proc[procs[m]].life # "free"
        /\ proc[procs[m]].life = "zero" => key[m] \in earned
    BY <1>5, Pieces DEF WorldInv, OwnsItsProcesses, ZeroIsEarned
  <2>2. CASE procs[m] = p BY <1>1, <1>4, <2>1, <2>2
  <2>3. CASE procs[m] # p BY <1>1, <1>2, <2>1, <2>3
  <2> QED BY <2>1, <2>2, <2>3
<1>6. OwnsItsProcesses' /\ ZeroIsEarned'
  <2>1. Configured' = Configured BY <1>1 DEF Configured
  <2> QED BY <1>1, <1>5, <2>1 DEF OwnsItsProcesses, ZeroIsEarned
<1>7. OthersAreOrphans'
  <2>1. ASSUME NEW q \in Pids, proc'[q].life # "free"
        PROVE  q \in orphans' \/ procs'[proc'[q].job] = q
    <3>1. CASE q = p BY <1>1, <1>2, <1>3, <1>4, <2>1, <3>1
    <3>2. CASE q # p BY <1>1, <1>2, <2>1, <3>2 DEF WorldInv, OthersAreOrphans
    <3> QED BY <3>1, <3>2
  <2>2. ASSUME NEW q \in orphans' PROVE Running(q)'
    <3>1. q \in orphans /\ q # p /\ q \in Pids BY <1>1, <2>2, Pieces
    <3> QED BY <1>2, <3>1 DEF WorldInv, OthersAreOrphans, Running
  <2> QED BY <2>1, <2>2 DEF OthersAreOrphans
<1>8. OrphansAreNoted'
  <2>1. \A q \in orphans' : q \in orphans /\ proc'[q] = proc[q] BY <1>1, <1>2, Pieces
  <2> QED BY <1>1, <2>1 DEF WorldInv, OrphansAreNoted
<1>9. DownIsEmpty' /\ CompletionEarned' /\ SavedIsKnown' /\ SuccessIsOwn'
  BY <1>1 DEF WorldInv, DownIsEmpty, CompletionEarned, SavedIsKnown, SuccessIsOwn
<1> QED BY <1>6, <1>7, <1>8, <1>9 DEF WorldInv

\* A success is reported by the worker's own process, or by an orphan.
LEMMA ReportWorld ==
    ASSUME Assumptions, TypeOK, WorldInv,
           NEW p \in Pids, NEW kind \in {"success", "failure", "heartbeat"}, Report(p, kind)
    PROVE  WorldInv'
<1>1. UNCHANGED <<sup, at, config, procs, key, completed, saved, proc, orphans, haunted, earned>>
  BY DEF Report, control, memory
<1>2. PICK n \in Data : n = proc[p].job BY DEF Report
<1>3. n \in Workers /\ p # 0 /\ Running(p) BY Pieces DEF Report
<1> DEFINE merged == [health[n] EXCEPT !.pid = p, !.ok = kind # "failure"]
<1>4. /\ health' = [health EXCEPT ![n] =
                      IF kind = "success" THEN [merged EXCEPT !.since = Data] ELSE merged]
      /\ acked' = IF kind = "success" /\ procs[n] = p THEN acked \union {n} ELSE acked
  BY <1>2 DEF Report
<1>5. merged.pid = p /\ merged.since = health[n].since
      /\ [merged EXCEPT !.since = Data].pid = p
  <2>1. health[n] \in HealthFile BY Pieces
  <2> QED BY <2>1 DEF HealthFile
<1> HIDE DEF merged
<1>6. /\ \A m \in Data \ {n} : health'[m] = health[m]
      /\ health'[n].pid = p
      /\ kind # "success" => health'[n].since = health[n].since
  BY <1>4, <1>5, Pieces
<1>7. ASSUME NEW i \in Data, NEW m \in Data, procs[i] # 0, i \in health'[m].since
      PROVE  IF m = i THEN i \in acked' \union haunted ELSE health'[m].pid # procs[i]
  <2>1. IF i \in health[m].since
        THEN IF m = i THEN i \in acked \union haunted ELSE health[m].pid # procs[i]
        ELSE TRUE
    BY <1>7 DEF WorldInv, SuccessIsOwn
  <2>2. CASE m # n BY <1>4, <1>6, <1>7, <2>1, <2>2
  <2>3. CASE m = n /\ i # n
    <3>1. procs[i] = p => proc[p].job = i BY <1>7, Pieces DEF WorldInv, OwnsItsProcesses
    <3> QED BY <1>2, <1>6, <2>3, <3>1
  <2>4. CASE m = n /\ i = n /\ kind # "success" BY <1>4, <1>6, <1>7, <2>1, <2>4
  <2>5. CASE m = n /\ i = n /\ kind = "success"
    <3>1. CASE procs[n] = p BY <1>4, <2>5, <3>1
    <3>2. CASE procs[n] # p
      <4>1. p \in orphans BY <1>2, <1>3, <3>2 DEF WorldInv, OthersAreOrphans, Running
      <4>2. sup # "down"
        <5>1. NoProcs[n] = 0 BY <1>3 DEF NoProcs
        <5> QED BY <1>7, <2>5, <5>1 DEF WorldInv, DownIsEmpty
      <4> QED BY <1>2, <2>5, <4>1, <4>2 DEF WorldInv, OrphansAreNoted
    <3> QED BY <3>1, <3>2
  <2> QED BY <2>2, <2>3, <2>4, <2>5
<1>8. SuccessIsOwn' BY <1>1, <1>7 DEF SuccessIsOwn
<1>9. DownIsEmpty' /\ OwnsItsProcesses' /\ OthersAreOrphans' /\ OrphansAreNoted'
      /\ CompletionEarned' /\ ZeroIsEarned' /\ SavedIsKnown'
  BY <1>1
  DEF WorldInv, DownIsEmpty, OwnsItsProcesses, OthersAreOrphans, OrphansAreNoted,
      CompletionEarned, ZeroIsEarned, SavedIsKnown, Configured, Running
<1> QED BY <1>8, <1>9 DEF WorldInv

\* Every step keeps what is said of processes, schedule and health files.
LEMMA WorldHolds ==
    ASSUME Assumptions, TypeOK, DayCounts, WorldInv, [Next]_vars PROVE WorldInv'
<1>1. CASE Start BY <1>1, StartWorld
<1>2. CASE Kill \/ Shutdown BY <1>2, GoneWorld
<1>3. ASSUME NEW cmd, Write(cmd) PROVE WorldInv'
  BY <1>3, QuietWorld DEF Write, memory, files, history
<1>4. CASE \/ ClosePipe \/ BeginPass \/ TakeStop \/ TakeUnknown \/ WriteFails \/ Publish
           \/ NextPart \/ UNCHANGED vars
  <2>1. UNCHANGED <<memory, files, proc, history>>
    BY <1>4 DEF ClosePipe, BeginPass, TakeStop, TakeUnknown, WriteFails, Publish, NextPart, vars
  <2>2. IF sup = "down" THEN sup' = "down" /\ at' = at ELSE sup' # "down"
    BY <1>4
    DEF ClosePipe, BeginPass, TakeStop, TakeUnknown, WriteFails, Publish, NextPart, vars, control
  <2> QED BY <2>1, <2>2, QuietWorld DEF memory, files, history
<1>5. CASE Save
  <2>1. /\ sup # "down" /\ sup' # "down" /\ saved' = completed
        /\ UNCHANGED <<memory, health, proc, history>>
    BY <1>5 DEF Save
  <2> QED
    BY <2>1
    DEF WorldInv, DownIsEmpty, OwnsItsProcesses, OthersAreOrphans, OrphansAreNoted, memory,
        history, CompletionEarned, ZeroIsEarned, SavedIsKnown, SuccessIsOwn, Configured, Running
<1>6. CASE TakeRestart
  <2> DEFINE n == Head(events).job
  <2>1. n \in Configured /\ n \in Workers BY <1>6, ConfigLists DEF TakeRestart
  <2>2. NameKey(n).day = 0 BY <2>1, NamesAreKeys
  <2>3. /\ completed' = completed \ {NameKey(n)}
        /\ UNCHANGED <<config, saved, orphans, haunted, earned>>
        /\ \/ Launch(n, NameKey(n), Reaped(n)) /\ sup' = sup
           \/ LaunchFails(n, Reaped(n))
        /\ sup # "down"
    BY <1>6 DEF TakeRestart
  <2> HIDE DEF n
  <2>4. Recorded BY <2>2, <2>3 DEF Recorded, LaunchFails
  <2> QED BY <2>1, <2>3, <2>4, LaunchedWorld, LaunchFailedWorld
<1>7. ASSUME NEW n \in Workers, VisitDisabled(n) \/ VisitBusy(n) \/ VisitIdle(n) \/ Tick
      PROVE  WorldInv'
  <2>1. /\ sup # "down" /\ sup' # "down"
        /\ UNCHANGED <<config, procs, key, completed, saved, earned>>
        /\ UNCHANGED <<proc, health, orphans, haunted, acked>>
    BY <1>7
    DEF VisitDisabled, VisitBusy, VisitIdle, Tick, Visiting, memory, files, history, control
  <2> QED BY <2>1, QuietWorld
<1>8. ASSUME NEW n \in Workers, VisitCompleted(n) \/ VisitFailed(n) PROVE WorldInv'
  <2>1. /\ sup # "down" /\ sup' # "down"
        /\ procs' = [procs EXCEPT ![n] = 0] /\ proc' = Reaped(n)
        /\ UNCHANGED <<config, health, acked, saved, earned, orphans, haunted>>
    BY <1>8 DEF VisitCompleted, VisitFailed, Visiting, files, history
  <2>2. \A m \in Workers \ {n} : key'[m] = key[m]
    BY <1>8, Pieces DEF VisitCompleted, VisitFailed
  <2>3. completed' \subseteq completed \union earned /\ completed \subseteq completed'
    <3>1. CASE VisitCompleted(n)
      <4>1. completed' = completed \union {key[n]} BY <3>1 DEF VisitCompleted, Completes
      <4>2. key[n] \in earned
        BY <3>1 DEF VisitCompleted, Exited, WorldInv, ZeroIsEarned
      <4> QED BY <4>1, <4>2
    <3>2. CASE VisitFailed(n) BY <3>2 DEF VisitFailed
    <3> QED BY <1>8, <3>1, <3>2
  <2>4. Recorded BY <2>1, <2>3 DEF Recorded
  <2> QED BY <2>1, <2>2, <2>4, ReapedWorld
<1>9. ASSUME NEW n \in Workers, VisitLaunches(n) PROVE WorldInv'
  <2>1. /\ sup # "down" /\ n \in Configured /\ procs[n] = 0
        /\ UNCHANGED <<config, completed, saved, orphans, haunted, earned>>
    BY <1>9 DEF VisitLaunches, Visiting, Enabled
  <2>2. Reaped(n) = proc BY <2>1 DEF Reaped
  <2>3. PICK k \in Due(n) : (Launch(n, k, proc) /\ sup' = sup) \/ LaunchFails(n, proc)
    BY <1>9 DEF VisitLaunches
  <2>4. Recorded BY <2>1, <2>3 DEF Recorded, LaunchFails
  <2> QED BY <2>1, <2>2, <2>3, <2>4, LaunchedWorld, LaunchFailedWorld
<1>10. ASSUME NEW p \in Pids, NEW life \in {"zero", "failed"}, Exit(p, life) PROVE WorldInv'
  BY <1>10, ExitWorld
<1>11. ASSUME NEW p \in Pids, NEW kind \in {"success", "failure", "heartbeat"}, Report(p, kind)
       PROVE  WorldInv'
  BY <1>11, ReportWorld
<1>12. CASE Tick
  <2>1. /\ sup # "down" /\ sup' # "down"
        /\ UNCHANGED <<config, procs, key, completed, saved, earned>>
        /\ UNCHANGED <<proc, health, orphans, haunted, acked>>
    BY <1>12 DEF Tick, files, control
  <2> QED BY <2>1, QuietWorld
<1> QED
  BY <1>1, <1>2, <1>3, <1>4, <1>5, <1>6, <1>7, <1>8, <1>9, <1>10, <1>11, <1>12
  DEF Next, Supervise, Agent, World, Step

-----------------------------------------------------------------------------
(* The invariant.                                                          *)

\* The invariant in the parts that the lemmas above keep.
LEMMA InvInParts == UInv <=> TypeOK /\ DayCounts /\ WorldInv /\ Rates
BY DEF UInv, WorldInv

\* It holds of the first state.
LEMMA InitUInv == ASSUME Assumptions, Init PROVE UInv
<1>1. TypeOK BY InitTyped
<1>2. DayCounts
  <2>1. Days \in Nat \ {0} BY DEF Assumptions, SupervisorAssumption
  <2> QED BY <2>1 DEF Init, DayCounts
<1>3. WorldInv
  <2>1. \A n \in Workers : procs[n] = 0 BY DEF Init, NoProcs
  <2>2. Data \subseteq Workers BY <1>1, Pieces
  <2>3. \A p \in Pids : proc[p].life = "free" BY DEF Init, FreePid
  <2>4. /\ sup = "down" /\ procs = NoProcs /\ at = 0 /\ orphans = {} /\ saved = {}
        /\ completed = {}
    BY DEF Init
  <2> QED
    BY <2>1, <2>2, <2>3, <2>4
    DEF WorldInv, DownIsEmpty, OwnsItsProcesses, OthersAreOrphans, OrphansAreNoted,
        CompletionEarned, ZeroIsEarned, SavedIsKnown, SuccessIsOwn
<1>4. Rates
  <2>1. \A n \in Workers : attempts[n] = <<>> /\ relaunched[n] = <<>> BY DEF Init, Empty
  <2> QED BY <2>1, RateReset DEF Rates
<1> QED BY <1>1, <1>2, <1>3, <1>4, InvInParts

\* And every step keeps it.
LEMMA NextUInv == ASSUME Assumptions, UInv, [Next]_vars PROVE UInv'
<1>1. TypeOK /\ DayCounts /\ WorldInv /\ Rates BY InvInParts
<1>2. DownIsEmpty /\ OthersAreOrphans BY <1>1 DEF WorldInv
<1>3. TypeOfControl' /\ DayCounts' BY <1>1, <1>2, ControlTyped
<1>4. TypeOfMemory' /\ TypeOfWorld' BY <1>1, <1>2, RestTyped
<1>5. TypeOfRates' /\ Rates' BY <1>1, RatesHold
<1>6. TypeOK' BY <1>3, <1>4, <1>5, TypePartsNext
<1>7. WorldInv' BY <1>1, WorldHolds
<1> QED BY <1>3, <1>5, <1>6, <1>7 DEF UInv, WorldInv

\* The invariant holds in every state of every behaviour.
THEOREM SupervisorInvariance == Spec => []UInv
<1>1. Assumptions BY SupervisorAssumption DEF Assumptions
<1>2. Init => UInv BY <1>1, InitUInv
<1>3. UInv /\ [Next]_vars => UInv' BY <1>1, NextUInv
<1> QED BY <1>2, <1>3, PTL DEF Spec

\* Every variable stays in its domain.
THEOREM SupervisorTypeCorrect == Spec => []TypeOK
<1>1. UInv => TypeOK BY DEF UInv
<1> QED BY <1>1, SupervisorInvariance, PTL

\* No restart, exit or shutdown leaves a process running that the supervisor
\* does not know under its worker's name, unless a kill took its supervisor.
THEOREM NothingIsForgotten == Spec => []NothingForgotten
<1>1. UInv => NothingForgotten
  BY DEF UInv, OthersAreOrphans, NothingForgotten, Running
<1> QED BY <1>1, SupervisorInvariance, PTL

\* component-schedule.json and the supervisor's memory hold only runs whose
\* process has exited with zero.
THEOREM CompletionIsEarned == Spec => []CompletionEarned
<1>1. UInv => CompletionEarned BY DEF UInv
<1> QED BY <1>1, SupervisorInvariance, PTL

\* Between two runs by hand a worker is relaunched at most Burst times within
\* the window.
THEOREM RestartsAreLimited == Spec => []RateLimited
<1>1. UInv => RateLimited BY DEF UInv, Rates, Rated, RateLimited
<1> QED BY <1>1, SupervisorInvariance, PTL

\* Two processes that upload the same quotes run side by side only if one of
\* them is an orphan or belongs to a disabled worker that was run by hand.
LEMMA WritersApart == ASSUME Assumptions, UInv PROVE WritersExclusive
<1>1. TypeOK BY DEF UInv
<1> SUFFICES ASSUME NEW p \in Pids, NEW q \in Pids,
                    p # q, Running(p), Running(q), SameQuotes(proc[p].job, proc[q].job),
                    {p, q} \intersect orphans = {},
                    {proc[p].job, proc[q].job} \intersect config.disabled = {}
             PROVE  FALSE
  BY DEF WritersExclusive
<1> DEFINE n == proc[p].job
           m == proc[q].job
<1>2. procs[n] = p /\ procs[m] = q /\ n \in Workers /\ m \in Workers
  BY <1>1, Pieces DEF UInv, OthersAreOrphans, Running
<1>3. n # m BY <1>2
<1>4. n \in Enabled /\ m \in Enabled
  BY <1>1, <1>2, Pieces DEF UInv, OwnsItsProcesses, Enabled
<1>5. PICK o \in Overlaps : n \in o /\ m \in o BY <1>3 DEF SameQuotes
<1>6. Cardinality(o \intersect Enabled) <= 1
  <2>1. config \in Configs
    <3>1. ToSet(NoConfig.order) = {} BY DEF NoConfig, ToSet
    <3>2. config # NoConfig BY <1>4, <3>1 DEF Enabled, Configured
    <3> QED BY <1>1, <3>2 DEF TypeOK
  <2>2. Accepted(config) BY <2>1 DEF Assumptions, SupervisorAssumption
  <2> QED BY <2>2 DEF Accepted, Enabled, Configured
<1>7. IsFiniteSet(o \intersect Enabled)
  <2> DEFINE places == 1 .. Len(config.order)
  <2>1. /\ Len(config.order) \in Nat /\ config.order \in Seq(Workers)
        /\ Configured = {config.order[i] : i \in places}
    BY <1>1, ConfigLists DEF Configured, ToSet
  <2>2. IsFiniteSet(places) BY <2>1, FS_Interval
  <2>3. config.order \in Surjection(places, Configured)
    <3>1. config.order \in [places -> Configured] BY <2>1
    <3> QED BY <2>1, <3>1 DEF Surjection
  <2>4. IsFiniteSet(Configured) BY <2>2, <2>3, FS_Surjection
  <2> QED BY <2>4, FS_Subset DEF Enabled
<1>8. {n, m} \subseteq o \intersect Enabled BY <1>4, <1>5
<1>9. Cardinality({n, m}) = 2
  <2> HIDE DEF n, m
  <2>1. IsFiniteSet({n}) /\ Cardinality({n}) = 1 /\ m \notin {n} BY <1>3, FS_Singleton
  <2>2. Cardinality({n} \union {m}) = Cardinality({n}) + 1 BY <2>1, FS_AddElement
  <2>3. {n} \union {m} = {n, m} OBVIOUS
  <2> QED BY <2>1, <2>2, <2>3
<1>10. Cardinality({n, m}) <= Cardinality(o \intersect Enabled) BY <1>7, <1>8, FS_Subset
<1>11. Cardinality(o \intersect Enabled) \in Nat BY <1>7, FS_CardinalityType
<1> QED BY <1>6, <1>9, <1>10, <1>11

\* "never run duplicate upload writers".
THEOREM NoDuplicateWriters == Spec => []WritersExclusive
<1>1. UInv => WritersExclusive
  BY SupervisorAssumption, WritersApart DEF Assumptions
<1> QED BY <1>1, SupervisorInvariance, PTL

-----------------------------------------------------------------------------
(* Steps.                                                                  *)

\* What a step must not do with a daily run that the file records.
RecordedStep ==
    \A n \in config.daily :
        procs'[n] \notin {0, procs[n]} => key'[n] \notin saved \/ key'[n] = NameKey(n)

\* No step launches a run that the file records.
LEMMA RecordedHolds == ASSUME Assumptions, UInv, [Next]_vars PROVE RecordedStep
<1>1. TypeOK /\ DayCounts BY DEF UInv
<1>2. config.daily \subseteq Workers
  <2>1. NoConfig \in Config BY DEF NoConfig, Config
  <2>2. config \in Config
    BY <1>1, <2>1 DEF TypeOK, Assumptions, SupervisorAssumption, Accepted
  <2> QED BY <2>2 DEF Config
<1>3. procs \in [Workers -> Pids \union {0}] /\ key \in [Workers -> Keys] BY <1>1, Pieces
<1>4. ASSUME \A n \in Workers : procs'[n] = 0 \/ procs'[n] = procs[n] PROVE RecordedStep
  BY <1>2, <1>4 DEF RecordedStep
<1>5. ASSUME UNCHANGED procs PROVE RecordedStep BY <1>4, <1>5
<1>6. ASSUME NEW cmd, Write(cmd) PROVE RecordedStep BY <1>5, <1>6 DEF Write, memory
<1>7. CASE \/ ClosePipe \/ BeginPass \/ TakeStop \/ TakeUnknown \/ WriteFails \/ Publish
           \/ NextPart \/ Start \/ Save \/ Tick \/ UNCHANGED vars
           \/ \E p \in Pids : \E life \in {"zero", "failed"} : Exit(p, life)
           \/ \E p \in Pids : \E kind \in {"success", "failure", "heartbeat"} : Report(p, kind)
  BY <1>5, <1>7
  DEF ClosePipe, BeginPass, TakeStop, TakeUnknown, WriteFails, Publish, NextPart, Start, Save,
      Tick, vars, memory, Exit, Report
<1>8. CASE Kill \/ Shutdown BY <1>4, <1>8 DEF Kill, Shutdown, Gone, NoProcs
<1>9. CASE TakeRestart
  <2> DEFINE h == Head(events).job
  <2>1. h \in Workers BY <1>1, <1>9, ConfigLists DEF TakeRestart
  <2>2. Launch(h, NameKey(h), Reaped(h)) \/ LaunchFails(h, Reaped(h))
    BY <1>9 DEF TakeRestart
  <2> HIDE DEF h
  <2>3. CASE LaunchFails(h, Reaped(h)) BY <1>3, <1>4, <2>3 DEF LaunchFails
  <2>4. CASE Launch(h, NameKey(h), Reaped(h))
    <3>1. key'[h] = NameKey(h) /\ \A m \in Workers \ {h} : procs'[m] = procs[m]
      BY <1>3, <2>1, <2>4 DEF Launch
    <3> QED BY <1>2, <3>1 DEF RecordedStep
  <2> QED BY <2>2, <2>3, <2>4
<1>10. ASSUME NEW n \in Workers, VisitDisabled(n) \/ VisitBusy(n) \/ VisitIdle(n)
       PROVE  RecordedStep
  BY <1>5, <1>10 DEF VisitDisabled, VisitBusy, VisitIdle, memory
<1>11. ASSUME NEW n \in Workers, VisitCompleted(n) \/ VisitFailed(n) PROVE RecordedStep
  BY <1>3, <1>4, <1>11 DEF VisitCompleted, VisitFailed
<1>12. ASSUME NEW n \in Workers, VisitLaunches(n) PROVE RecordedStep
  <2>1. PICK k \in Due(n) : Launch(n, k, proc) \/ LaunchFails(n, proc)
    BY <1>12 DEF VisitLaunches
  <2>2. CASE LaunchFails(n, proc) BY <1>3, <1>4, <2>2 DEF LaunchFails
  <2>3. CASE Launch(n, k, proc)
    <3>1. key'[n] = k /\ \A m \in Workers \ {n} : procs'[m] = procs[m]
      BY <1>3, <2>3 DEF Launch
    <3>2. n \in config.daily => k.day # 0 /\ k \notin completed BY <1>1, <2>1, DueKeys
    <3>3. sup # "down" BY <1>12 DEF VisitLaunches, Visiting
    <3>4. n \in config.daily => k \notin saved BY <3>2, <3>3 DEF UInv, SavedIsKnown
    <3> QED BY <1>2, <3>1, <3>4 DEF RecordedStep
  <2> QED BY <2>1, <2>2, <2>3
<1> QED
  BY <1>6, <1>7, <1>8, <1>9, <1>10, <1>11, <1>12
  DEF Next, Supervise, Agent, World, Step

\* A daily run that the file records is never launched again.
THEOREM RecordedRunsAreFinal == Spec => RecordedIsFinal
<1>1. UInv /\ [Next]_vars => RecordedStep
  BY SupervisorAssumption, RecordedHolds DEF Assumptions
<1>2. RecordedStep => [\A n \in config.daily :
         procs'[n] \notin {0, procs[n]} => key'[n] \notin saved \/ key'[n] = NameKey(n)]_vars
  BY DEF RecordedStep
<1> QED BY <1>1, <1>2, SupervisorInvariance, PTL DEF Spec, RecordedIsFinal

\* A status that says ready was published by a step that saw its workers' own
\* successes.
ReadyStep ==
    sup = "visiting" /\ sup' = "draining" /\ claim' = "ready" =>
        \A n \in Enabled : Expected(n) => n \in acked \union haunted

\* Only the end of a pass says ready.
LEMMA ReadyHolds == ASSUME Assumptions, UInv, [Next]_vars PROVE ReadyStep
<1> SUFFICES ASSUME sup = "visiting", sup' = "draining", claim' = "ready",
                    NEW n \in Enabled, Expected(n)
             PROVE  n \in acked \union haunted
  BY DEF ReadyStep
<1>1. Publish
  BY DEF Next, Supervise, Agent, World, Step, BeginPass, TakeStop, TakeUnknown, TakeRestart,
         Save, WriteFails, Shutdown, Gone, VisitDisabled, VisitBusy, VisitCompleted, VisitFailed,
         VisitLaunches, VisitIdle, Visiting, LaunchFails, Start, ClosePipe, Write, Kill, NextPart,
         Exit, Report, Tick, vars, control
<1>2. PICK stale \in SUBSET Data : Ready(stale) BY <1>1 DEF Publish
<1>3. n \in Data /\ procs[n] # 0 BY <1>2 DEF Ready, Expected
<1>4. PICK m \in Data : health[m].pid = procs[n] /\ n \in health[m].since
  BY <1>2 DEF Ready, Valid
<1> QED BY <1>3, <1>4 DEF UInv, SuccessIsOwn

\* A status says ready only when every worker that should be collecting has
\* itself uploaded since it was launched, but for the traces of orphans.
THEOREM ReadinessIsEarned == Spec => ReadyIsEarned
<1>1. UInv /\ [Next]_vars => ReadyStep
  BY SupervisorAssumption, ReadyHolds DEF Assumptions
<1>2. ReadyStep =>
        [sup = "visiting" /\ sup' = "draining" /\ claim' = "ready" =>
            \A n \in Enabled : Expected(n) => n \in acked \union haunted]_vars
  BY DEF ReadyStep
<1> QED BY <1>1, <1>2, SupervisorInvariance, PTL DEF Spec, ReadyIsEarned
=============================================================================
