----------------------- MODULE ConcurrencyGuardProofs -----------------------
(***************************************************************************)
(* Proofs about ConcurrencyGuard for any number of instances and machines  *)
(* and any timing.                                                         *)
(***************************************************************************)
EXTENDS ConcurrencyGuard, TLAPS

(* No stage outlasts its deadline. *)
TimerInv ==
  \A i \in Instances :
    /\ timer[i] \in Nat
    /\ pc[i] = "active" => timer[i] <= Interval + Delay
    /\ pc[i] \in {"writing", "refreshing"} => timer[i] <= Delay

(* Until the exclusion is disturbed, the lock belongs to whoever is live. *)
OwnerInv ==
  disturbed = {} => \A i \in Instances : Live(i) => lock # NoLock /\ lock.hwid = HwidOf[i]

(* The lock of a live instance whose last beat did not fail is no older     *)
(* than the stage the instance is in allows. *)
AgeInv ==
  \A i \in Instances :
    Live(i) /\ i \notin missed /\ lock # NoLock /\ lock.hwid = HwidOf[i] =>
      lock.age <= Delay + timer[i] + (IF pc[i] = "refreshing" THEN Interval + Delay ELSE 0)

(* What the actions look at, without the bounds of the timers. *)
ShapeInv ==
  /\ lock \in Locks
  /\ pc \in [Instances -> {"off", "deciding", "writing", "active", "refreshing",
                           "removing", "refused"}]
  /\ snap \in [Instances -> Locks]
  /\ timer \in [Instances -> Nat]
  /\ missed \subseteq Instances
  /\ faults \in 0..MaxFaults
  /\ disturbed \subseteq {"race", "expired", "release"}

-----------------------------------------------------------------------------
(* An aged lock is a lock, of the same machine and at most one tick older. *)
LEMMA AgedLock ==
  ASSUME NEW l \in Locks
  PROVE  /\ Aged(l) \in Locks
         /\ Aged(l) = NoLock <=> l = NoLock
         /\ l # NoLock => Aged(l).hwid = l.hwid /\ Aged(l).age <= l.age + 1
<1>1. CASE l = NoLock \/ l.age > Stale
  BY <1>1, TimingAssumption DEF Aged, Locks, Ages
<1>2. CASE l # NoLock /\ ~(l.age > Stale)
  <2>1. l \in [hwid : Hwids, age : Ages] /\ l.age \in 0..Stale
    BY <1>2, TimingAssumption DEF Locks, Ages
  <2>2. PICK i \in Instances : l.hwid = HwidOf[i]
    BY <2>1 DEF Hwids
  <2>3. Aged(l) = [hwid |-> HwidOf[i], age |-> l.age + 1]
    BY <1>2, <2>1, <2>2 DEF Aged
  <2>4. l.age + 1 \in 0..(Stale + 1)
    BY <2>1, TimingAssumption
  <2>5. Aged(l) # NoLock
    BY <2>3, <2>4, NoLockAssumption
  <2>6. Aged(l) \in [hwid : Hwids, age : Ages]
    BY <2>1, <2>2, <2>3, <2>4 DEF Ages
  <2>7. Aged(l) \in Locks
    BY <2>6 DEF Locks
  <2>8. Aged(l).hwid = l.hwid /\ Aged(l).age <= l.age + 1
    BY <2>1, <2>2, <2>3
  <2> QED
    BY <1>2, <2>5, <2>7, <2>8
<1> QED
  BY <1>1, <1>2

(* What an instance writes is a lock of its own machine, no older than the *)
(* time since its time stamp.                                              *)
LEMMA WrittenLock ==
  ASSUME NEW i \in Instances, timer[i] \in Nat
  PROVE  /\ Written(i) \in Locks
         /\ Written(i) # NoLock
         /\ Written(i).hwid = HwidOf[i]
         /\ Written(i).age <= timer[i]
<1>1. Written(i).age \in 0..(Stale + 1) /\ Written(i).age <= timer[i]
  BY TimingAssumption DEF Written
<1>2. Written(i) = [hwid |-> HwidOf[i], age |-> Written(i).age]
  BY DEF Written
<1>3. Written(i) # NoLock
  BY <1>1, <1>2, NoLockAssumption
<1>4. Written(i) \in [hwid : Hwids, age : Ages]
  BY <1>1, <1>2 DEF Hwids, Ages
<1> QED
  BY <1>1, <1>2, <1>3, <1>4 DEF Locks

(* Every step keeps the shape of the state.                                *)
LEMMA ShapeStep == ShapeInv /\ [Next]_vars => ShapeInv'
<1> SUFFICES ASSUME ShapeInv, [Next]_vars PROVE ShapeInv'
  OBVIOUS
<1> USE BoundAssumption DEF ShapeInv, GoTo, Restamp, Disturb
<1>0. NoLock \in Locks
  BY DEF Locks
<1>1. CASE Tick
  <2>1. lock' \in Locks
    BY <1>1, AgedLock DEF Tick
  <2>2. snap' \in [Instances -> Locks]
    BY <1>1, AgedLock DEF Tick
  <2>3. timer' \in [Instances -> Nat]
    BY <1>1 DEF Tick
  <2> QED
    BY <1>1, <2>1, <2>2, <2>3 DEF Tick
<1>2. ASSUME NEW i \in Instances, AcquireRead(i) PROVE ShapeInv'
  BY <1>2 DEF AcquireRead
<1>10. ASSUME NEW i \in Instances, AcquireDecide(i) PROVE ShapeInv'
  <2>1. pc' = [pc EXCEPT ![i] = "refused"] \/ pc' = [pc EXCEPT ![i] = "writing"]
    BY <1>10 DEF AcquireDecide
  <2> QED
    BY <1>0, <1>10, <2>1 DEF AcquireDecide
<1>3. ASSUME NEW i \in Instances, AcquireReplace(i) PROVE ShapeInv'
  <2>1. lock' \in Locks
    BY <1>3, WrittenLock DEF AcquireReplace
  <2>2. disturbed' \subseteq {"race", "expired", "release"}
    BY <1>3 DEF AcquireReplace
  <2> QED
    BY <1>0, <1>3, <2>1, <2>2 DEF AcquireReplace
<1>4. ASSUME NEW i \in Instances, RefreshRead(i) PROVE ShapeInv'
  <2>1. pc' = [pc EXCEPT ![i] = "active"] \/ pc' = [pc EXCEPT ![i] = "refreshing"]
    BY <1>4 DEF RefreshRead
  <2>2. missed' = missed \/ missed' = missed \ {i}
    BY <1>4 DEF RefreshRead
  <2> QED
    BY <1>0, <1>4, <2>1, <2>2 DEF RefreshRead
<1>11. ASSUME NEW i \in Instances, MissBeat(i) PROVE ShapeInv'
  BY <1>11 DEF MissBeat
<1>5. ASSUME NEW i \in Instances, RefreshReplace(i) PROVE ShapeInv'
  BY <1>5, WrittenLock DEF RefreshReplace
<1>6. ASSUME NEW i \in Instances, ReleaseRead(i) PROVE ShapeInv'
  BY <1>6 DEF ReleaseRead
<1>7. ASSUME NEW i \in Instances, ReleaseRemove(i) PROVE ShapeInv'
  BY <1>0, <1>7 DEF ReleaseRemove
<1>8. ASSUME NEW i \in Instances, Crash(i) PROVE ShapeInv'
  BY <1>0, <1>8 DEF Crash
<1>9. CASE UNCHANGED vars
  BY <1>9 DEF vars
<1> QED
  BY <1>1, <1>2, <1>3, <1>4, <1>5, <1>6, <1>7, <1>8, <1>9, <1>10, <1>11
  DEF Next, Startup, Beat, Release

(* Every step keeps the timers within their deadlines.                     *)
LEMMA TimerStep == ShapeInv /\ TimerInv /\ [Next]_vars => TimerInv'
<1> SUFFICES ASSUME ShapeInv, TimerInv, [Next]_vars PROVE TimerInv'
  OBVIOUS
<1> USE TimingAssumption DEF ShapeInv, TimerInv, GoTo, Restamp
<1>1. CASE Tick
  BY <1>1 DEF Tick
<1>2. ASSUME NEW i \in Instances, Startup(i) \/ Beat(i) PROVE TimerInv'
  BY <1>2 DEF Startup, AcquireRead, AcquireDecide, AcquireReplace,
              Beat, RefreshRead, RefreshReplace, MissBeat
<1>3. ASSUME NEW i \in Instances, Release(i) \/ Crash(i) PROVE TimerInv'
  BY <1>3 DEF Release, ReleaseRead, ReleaseRemove, Crash
<1>4. CASE UNCHANGED vars
  BY <1>4 DEF vars
<1> QED
  BY <1>1, <1>2, <1>3, <1>4 DEF Next

(* Until it is disturbed, the exclusion stays: a write that would give the *)
(* lock of a live machine to another one is itself a disturbance.          *)
LEMMA OwnerStep == ShapeInv /\ OwnerInv /\ [Next]_vars => OwnerInv'
<1> SUFFICES ASSUME ShapeInv, OwnerInv, [Next]_vars, disturbed' = {}
             PROVE  \A j \in Instances : Live(j)' => lock' # NoLock /\ lock'.hwid = HwidOf[j]
  BY DEF OwnerInv
<1> USE DEF GoTo, Live
<1>0. disturbed = {}
  BY DEF Next, Startup, AcquireRead, AcquireDecide, AcquireReplace, Beat,
         RefreshRead, RefreshReplace, MissBeat, Release, ReleaseRead, ReleaseRemove,
         Crash, Tick, Disturb, vars
<1>1. \A j \in Instances : Live(j) => lock # NoLock /\ lock.hwid = HwidOf[j]
  BY <1>0 DEF OwnerInv
<1>2. CASE Tick
  <2>1. lock' = Aged(lock) /\ pc' = pc /\ lock \in Locks
    BY <1>2 DEF Tick, ShapeInv
  <2> QED
    BY <1>1, <2>1, AgedLock
<1>3. ASSUME NEW i \in Instances, AcquireReplace(i), NEW j \in Instances, Live(j)'
      PROVE  lock' # NoLock /\ lock'.hwid = HwidOf[j]
  <2>1. lock' = Written(i) /\ timer[i] \in Nat
    BY <1>3 DEF AcquireReplace, ShapeInv
  <2>2. CASE j = i
    BY <2>1, <2>2, WrittenLock
  <2>3. CASE j # i
    <3>1. Live(j)
      BY <1>3, <2>3 DEF AcquireReplace, ShapeInv
    <3>2. lock # NoLock /\ lock.hwid = HwidOf[j]
      BY <1>1, <3>1
    <3>3. MachineLive(lock.hwid)
      BY <3>1, <3>2 DEF MachineLive
    <3>4. ~Blocked(i, lock) /\ ~(Foreign(i, lock) /\ IsStale(lock) /\ MachineLive(lock.hwid))
      BY <1>3 DEF AcquireReplace
    <3>5. HwidOf[j] = HwidOf[i]
      BY <3>2, <3>3, <3>4 DEF Blocked, Foreign
    <3> QED
      BY <2>1, <3>5, WrittenLock
  <2> QED
    BY <2>2, <2>3
<1>4. ASSUME NEW i \in Instances, RefreshReplace(i), NEW j \in Instances, Live(j)'
      PROVE  lock' # NoLock /\ lock'.hwid = HwidOf[j]
  <2>1. lock' = Written(i) /\ timer[i] \in Nat /\ ~Foreign(i, lock)
    BY <1>4 DEF RefreshReplace, ShapeInv, Disturb
  <2>2. Live(i) /\ Live(j)
    BY <1>4 DEF RefreshReplace, ShapeInv
  <2>3. lock.hwid = HwidOf[i] /\ lock.hwid = HwidOf[j]
    BY <1>1, <2>2
  <2> QED
    BY <2>1, <2>3, WrittenLock
<1>5. ASSUME NEW i \in Instances, ReleaseRemove(i), NEW j \in Instances, Live(j)'
      PROVE  lock' # NoLock /\ lock'.hwid = HwidOf[j]
  <2>1. Live(j)
    BY <1>5 DEF ReleaseRemove, ShapeInv
  <2>2. lock # NoLock /\ MachineLive(lock.hwid)
    BY <1>1, <2>1 DEF MachineLive
  <2> QED
    BY <1>5, <2>2 DEF ReleaseRemove
<1>6. ASSUME NEW i \in Instances,
             \/ AcquireRead(i) \/ AcquireDecide(i) \/ RefreshRead(i)
             \/ MissBeat(i) \/ ReleaseRead(i) \/ Crash(i),
             NEW j \in Instances, Live(j)'
      PROVE  lock' # NoLock /\ lock'.hwid = HwidOf[j]
  <2>1. lock' = lock
    BY <1>6 DEF AcquireRead, AcquireDecide, RefreshRead, MissBeat, ReleaseRead, Crash
  <2>2. Live(j)
    BY <1>6 DEF AcquireRead, AcquireDecide, RefreshRead, BeatIsDue, MissBeat,
                ReleaseRead, Crash, ShapeInv
  <2> QED
    BY <1>1, <2>1, <2>2
<1>7. CASE UNCHANGED vars
  BY <1>1, <1>7 DEF vars
<1> QED
  BY <1>2, <1>3, <1>4, <1>5, <1>6, <1>7 DEF Next, Startup, Beat, Release

(* The lock of a live instance whose last beat did not fail keeps young:   *)
(* an instance joins `missed` at any age, and leaves it by writing the     *)
(* lock, by finding it gone or taken, or by going down.                    *)
LEMMA AgeStep ==
  ASSUME ShapeInv, TimerInv, AgeInv, [Next]_vars
  PROVE  AgeInv'
<1> USE TimingAssumption DEF GoTo, Restamp, Live
<1>1. CASE Tick
  <2>1. /\ lock \in Locks /\ lock' = Aged(lock) /\ pc' = pc
        /\ \A i \in Instances : timer[i] \in Nat /\ (Live(i) => timer'[i] = timer[i] + 1)
    BY <1>1 DEF Tick, ShapeInv
  <2>2. lock # NoLock => lock.age \in Nat /\ Aged(lock).age \in Nat
    <3>1. lock # NoLock => Aged(lock) \in Locks /\ Aged(lock) # NoLock
      BY <2>1, AgedLock
    <3> QED
      BY <2>1, <3>1 DEF Locks, Ages
  <2>3. lock # NoLock => lock'.hwid = lock.hwid /\ lock'.age <= lock.age + 1
    BY <2>1, AgedLock
  <2>4. lock' # NoLock => lock # NoLock
    BY <2>1, AgedLock
  <2>5. missed' = missed
    BY <1>1 DEF Tick
  <2> QED
    BY <2>1, <2>2, <2>3, <2>4, <2>5 DEF AgeInv
<1>2. ASSUME NEW i \in Instances, AcquireReplace(i) \/ RefreshReplace(i) PROVE AgeInv'
  <2>1. lock' = Written(i) /\ timer[i] \in Nat /\ timer[i] <= Delay
    BY <1>2 DEF AcquireReplace, RefreshReplace, TimerInv
  <2>2. \A j \in Instances : timer'[j] \in Nat
    BY <1>2 DEF AcquireReplace, RefreshReplace, ShapeInv
  <2>3. lock'.age <= Delay /\ lock'.age \in Int
    <3>1. Written(i).age \in Int
      BY <2>1 DEF Written
    <3> QED
      BY <2>1, <3>1, WrittenLock
  <2> QED
    BY <2>2, <2>3 DEF AgeInv
<1>3. ASSUME NEW i \in Instances, RefreshRead(i) PROVE AgeInv'
  <2>1. /\ lock' = lock /\ timer[i] <= Interval + Delay /\ timer[i] \in Nat
        /\ pc[i] = "active" /\ timer'[i] = 0
        /\ \A j \in Instances : j # i => (j \in missed' <=> j \in missed)
        /\ \A j \in Instances : j # i => pc'[j] = pc[j] /\ timer'[j] = timer[j]
    BY <1>3 DEF RefreshRead, BeatIsDue, TimerInv, ShapeInv
  <2>2. CASE lock = NoLock \/ Foreign(i, lock)
    BY <2>1, <2>2 DEF AgeInv, Foreign
  <2>3. CASE ~(lock = NoLock \/ Foreign(i, lock))
    <3>1. pc'[i] = "refreshing"
      BY <1>3, <2>3 DEF RefreshRead, ShapeInv
    <3>2. missed' = missed
      BY <1>3, <2>3 DEF RefreshRead
    <3>3. lock.age \in Nat /\ (i \notin missed => lock.age <= Delay + timer[i])
      BY <2>1, <2>3 DEF AgeInv, Foreign, ShapeInv, Locks, Ages
    <3>4. i \notin missed => lock.age <= Delay + 0 + (Interval + Delay)
      BY <2>1, <3>3
    <3> QED
      BY <2>1, <3>1, <3>2, <3>4 DEF AgeInv
  <2> QED
    BY <2>2, <2>3
<1>4. ASSUME NEW i \in Instances, MissBeat(i) PROVE AgeInv'
  <2>1. /\ lock' = lock /\ missed' = missed \cup {i}
        /\ \A j \in Instances : j # i => pc'[j] = pc[j] /\ timer'[j] = timer[j]
    BY <1>4 DEF MissBeat, ShapeInv
  <2> QED
    BY <2>1 DEF AgeInv
<1>5. ASSUME NEW i \in Instances, ReleaseRemove(i) PROVE AgeInv'
  BY <1>5 DEF ReleaseRemove, AgeInv
<1>6. ASSUME NEW i \in Instances,
             AcquireRead(i) \/ AcquireDecide(i) \/ ReleaseRead(i) \/ Crash(i)
      PROVE  AgeInv'
  <2>1. /\ lock' = lock
        /\ \A j \in Instances : Live(j)' =>
             pc'[j] = pc[j] /\ timer'[j] = timer[j] /\ (j \in missed' <=> j \in missed)
    BY <1>6 DEF AcquireRead, AcquireDecide, ReleaseRead, Crash, ShapeInv
  <2> QED
    BY <2>1 DEF AgeInv
<1>7. CASE UNCHANGED vars
  BY <1>7 DEF vars, AgeInv
<1> QED
  BY <1>1, <1>2, <1>3, <1>4, <1>5, <1>6, <1>7 DEF Next, Startup, Beat, Release

(* The invariants hold before the first instance starts.                   *)
LEMMA InvInit == Init => ShapeInv /\ TimerInv /\ OwnerInv /\ AgeInv
BY BoundAssumption, TimingAssumption
DEF Init, ShapeInv, TimerInv, OwnerInv, AgeInv, Live, Locks

-----------------------------------------------------------------------------
(* The state keeps its types.                                              *)
THEOREM TypeCorrect == Spec => []TypeOK
<1>1. ShapeInv /\ TimerInv /\ [Next]_vars => ShapeInv' /\ TimerInv'
  BY ShapeStep, TimerStep
<1>2. ShapeInv /\ TimerInv => TypeOK
  BY DEF ShapeInv, TimerInv, TypeOK
<1> QED
  BY InvInit, <1>1, <1>2, PTL DEF Spec

(* However the instances start, beat, miss beats, release and crash, all   *)
(* live instances are on one machine until a race, the takeover of a live  *)
(* machine's expired lock, or a release under a sibling has happened.      *)
THEOREM Exclusion == Spec => []OneMachineUnlessDisturbed
<1>1. OwnerInv => OneMachineUnlessDisturbed
  BY DEF OwnerInv, OneMachineUnlessDisturbed, OneMachine
<1>2. ShapeInv /\ OwnerInv /\ [Next]_vars => ShapeInv' /\ OwnerInv'
  BY ShapeStep, OwnerStep
<1> QED
  BY InvInit, <1>1, <1>2, PTL DEF Spec

(* If a beat is long against the delays, a stale lock is the lock of a     *)
(* machine that is dead or whose last beats failed.  With stale_seconds =  *)
(* 2 * interval this asks that three delays fit in one interval.           *)
THEOREM StaleLockIsDead ==
  Interval + 3 * Delay <= Stale => (Spec => []StaleMeansDead)
<1> SUFFICES ASSUME Interval + 3 * Delay <= Stale
             PROVE  Spec => []StaleMeansDead
  OBVIOUS
<1>1. ShapeInv /\ TimerInv /\ AgeInv => StaleMeansDead
  <2> SUFFICES ASSUME ShapeInv, TimerInv, AgeInv, NEW i \in Instances,
                      Live(i), i \notin missed, IsStale(lock), lock.hwid = HwidOf[i]
               PROVE  FALSE
    BY DEF StaleMeansDead
  <2>1. lock # NoLock /\ lock.age > Stale /\ lock.age \in Nat
    BY DEF IsStale, ShapeInv, Locks, Ages
  <2>2. lock.age <= Delay + timer[i] + (IF pc[i] = "refreshing" THEN Interval + Delay ELSE 0)
    BY <2>1 DEF AgeInv
  <2>3. CASE pc[i] = "active"
    BY <2>1, <2>2, <2>3, TimingAssumption DEF TimerInv
  <2>4. CASE pc[i] = "refreshing"
    BY <2>1, <2>2, <2>4, TimingAssumption DEF TimerInv
  <2> QED
    BY <2>3, <2>4 DEF Live
<1>2. ShapeInv /\ TimerInv /\ AgeInv /\ [Next]_vars => ShapeInv' /\ TimerInv' /\ AgeInv'
  BY ShapeStep, TimerStep, AgeStep
<1> QED
  BY InvInit, <1>1, <1>2, PTL DEF Spec
=============================================================================
