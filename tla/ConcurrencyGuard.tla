--------------------------- MODULE ConcurrencyGuard ---------------------------
(***************************************************************************)
(* licensing/concurrency.py: the lock file that keeps one license on one   *)
(* machine.  Instances are processes that share the license directory;     *)
(* acquire() runs once at startup, refresh() on each successful heartbeat, *)
(* release() at shutdown.  Reading the file and replacing it are separate  *)
(* steps of the process, with no lock around them.                         *)
(*                                                                         *)
(* Time is discrete.  A time stamp is kept as its age, so last_heartbeat   *)
(* is the field `age` of the lock, up to Stale + 1, the first age that is  *)
(* stale.  An instance waits Interval between beats; the startup layers    *)
(* after acquire(), the validation of a beat, and the time from a time     *)
(* stamp to os.replace each take at most Delay.  A beat may fail to        *)
(* refresh the lock: its validation or its write failed.                   *)
(***************************************************************************)
EXTENDS Integers, FiniteSets

CONSTANTS
  Instances,   \* processes running the application
  HwidOf,      \* the hardware id of the machine of each instance
  Interval,    \* heartbeat_interval
  Delay,       \* longest time of a validation, or from a time stamp to os.replace
  Stale,       \* stale_seconds; startup_license_check passes 2 * Interval
  MaxFaults,   \* bound on crashes and on beats that do not refresh the lock
  NoLock       \* the lock file does not exist

ASSUME TimingAssumption == Interval \in Nat /\ Delay \in Nat /\ Stale \in Nat
ASSUME BoundAssumption == MaxFaults \in Nat
ASSUME NoLockAssumption ==
  \A i \in Instances : \A a \in 0..(Stale + 1) : NoLock # [hwid |-> HwidOf[i], age |-> a]

VARIABLES
  lock,       \* the lock file
  pc,         \* what each instance is doing
  snap,       \* what _read_lock returned to an instance in acquire()
  timer,      \* time since the last beat ended, or since the time stamp was taken
  missed,     \* history: instances whose last beat failed to refresh the lock
  faults,     \* crashes and failed beats so far
  disturbed   \* history: how the exclusion has been broken so far

vars == <<lock, pc, snap, timer, missed, faults, disturbed>>

Hwids == {HwidOf[i] : i \in Instances}

Ages == 0..(Stale + 1)

Locks == {NoLock} \cup [hwid : Hwids, age : Ages]

Live(i) == pc[i] \in {"active", "refreshing"}

Foreign(i, l) == l # NoLock /\ l.hwid # HwidOf[i]

IsStale(l) == l # NoLock /\ l.age > Stale

Blocked(i, l) == Foreign(i, l) /\ ~IsStale(l)

MachineLive(h) == \E i \in Instances : Live(i) /\ HwidOf[i] = h

TypeOK ==
  /\ lock \in Locks
  /\ pc \in [Instances -> {"off", "deciding", "writing", "active", "refreshing",
                           "removing", "refused"}]
  /\ snap \in [Instances -> Locks]
  /\ timer \in [Instances -> Nat]
  /\ \A i \in Instances : pc[i] = "active" => timer[i] <= Interval + Delay
  /\ missed \subseteq Instances
  /\ faults \in 0..MaxFaults
  /\ disturbed \subseteq {"race", "expired", "release"}

Init ==
  /\ lock = NoLock
  /\ pc = [i \in Instances |-> "off"]
  /\ snap = [i \in Instances |-> NoLock]
  /\ timer = [i \in Instances |-> 0]
  /\ missed = {}
  /\ faults = 0
  /\ disturbed = {}

GoTo(i, place) == pc' = [pc EXCEPT ![i] = place]

Restamp(i) == timer' = [timer EXCEPT ![i] = 0]

Written(i) == [hwid |-> HwidOf[i], age |-> IF timer[i] > Stale THEN Stale + 1 ELSE timer[i]]

Disturb(kind, happened) ==
  disturbed' = IF happened THEN disturbed \cup {kind} ELSE disturbed

-----------------------------------------------------------------------------
(* acquire().  A process that was refused exits, and is started again. *)

AcquireRead(i) ==
  /\ pc[i] \in {"off", "refused"}
  /\ snap' = [snap EXCEPT ![i] = lock]
  /\ GoTo(i, "deciding")
  /\ UNCHANGED <<lock, timer, missed, faults, disturbed>>

(* Mutant: a lock of the own machine is not written again. *)
AcquireTrustsOwnLock(i) ==
  /\ pc[i] = "deciding"
  /\ GoTo(i, IF Blocked(i, snap[i]) THEN "refused"
             ELSE IF snap[i] # NoLock /\ ~Foreign(i, snap[i]) THEN "active" ELSE "writing")
  /\ snap' = [snap EXCEPT ![i] = NoLock]
  /\ Restamp(i)
  /\ UNCHANGED <<lock, missed, faults, disturbed>>

(* Mutant: a stale lock of another machine blocks too. *)
AcquireNeverTakesOver(i) ==
  /\ pc[i] = "deciding"
  /\ GoTo(i, IF Foreign(i, snap[i]) THEN "refused" ELSE "writing")
  /\ snap' = [snap EXCEPT ![i] = NoLock]
  /\ Restamp(i)
  /\ UNCHANGED <<lock, missed, faults, disturbed>>

AcquireDecide(i) ==
  /\ pc[i] = "deciding"
  /\ GoTo(i, IF Blocked(i, snap[i]) THEN "refused" ELSE "writing")
  /\ snap' = [snap EXCEPT ![i] = NoLock]
  /\ Restamp(i)
  /\ UNCHANGED <<lock, missed, faults, disturbed>>

(* os.replace: whatever the file says by now is overwritten. *)
AcquireReplace(i) ==
  /\ pc[i] = "writing"
  /\ lock' = Written(i)
  /\ disturbed' = disturbed
       \cup {k \in {"race"} : Blocked(i, lock)}
       \cup {k \in {"expired"} : Foreign(i, lock) /\ IsStale(lock) /\ MachineLive(lock.hwid)}
  /\ GoTo(i, "active")
  /\ Restamp(i)
  /\ UNCHANGED <<snap, missed, faults>>

-----------------------------------------------------------------------------
(* refresh(): nothing happens when the lock is gone or another machine's.  *)

BeatIsDue(i) == pc[i] = "active" /\ timer[i] >= Interval

(* Mutant: a lock is refreshed only once it is stale. *)
RefreshOnlyStale(i) ==
  /\ BeatIsDue(i)
  /\ GoTo(i, IF lock = NoLock \/ Foreign(i, lock) \/ ~IsStale(lock) THEN "active" ELSE "refreshing")
  /\ Restamp(i)
  /\ missed' = missed \ {i}
  /\ UNCHANGED <<lock, snap, faults, disturbed>>

RefreshRead(i) ==
  /\ BeatIsDue(i)
  /\ GoTo(i, IF lock = NoLock \/ Foreign(i, lock) THEN "active" ELSE "refreshing")
  /\ Restamp(i)
  /\ missed' = IF lock = NoLock \/ Foreign(i, lock) THEN missed \ {i} ELSE missed
  /\ UNCHANGED <<lock, snap, faults, disturbed>>

RefreshReplace(i) ==
  /\ pc[i] = "refreshing"
  /\ lock' = Written(i)
  /\ Disturb("race", Foreign(i, lock))
  /\ GoTo(i, "active")
  /\ Restamp(i)
  /\ missed' = missed \ {i}
  /\ UNCHANGED <<snap, faults>>

(* The beat ends without a refresh: the validation failed, or the write. *)
MissBeat(i) ==
  /\ BeatIsDue(i) \/ pc[i] = "refreshing"
  /\ faults < MaxFaults
  /\ faults' = faults + 1
  /\ missed' = missed \cup {i}
  /\ GoTo(i, "active")
  /\ Restamp(i)
  /\ UNCHANGED <<lock, snap, disturbed>>

-----------------------------------------------------------------------------
(* release() *)

ReleaseRead(i) ==
  /\ pc[i] = "active"
  /\ GoTo(i, IF lock = NoLock \/ Foreign(i, lock) THEN "off" ELSE "removing")
  /\ Restamp(i)
  /\ missed' = missed \ {i}
  /\ UNCHANGED <<lock, snap, faults, disturbed>>

(* Mutant: release() leaves a lock with an old time stamp. *)
ReleaseExpires(i) ==
  /\ pc[i] = "removing"
  /\ lock' = [hwid |-> HwidOf[i], age |-> Stale + 2]
  /\ GoTo(i, "off")
  /\ UNCHANGED <<snap, timer, missed, faults, disturbed>>

ReleaseRemove(i) ==
  /\ pc[i] = "removing"
  /\ lock' = NoLock
  /\ disturbed' = disturbed
       \cup {k \in {"race"} : Foreign(i, lock)}
       \cup {k \in {"release"} : lock # NoLock /\ MachineLive(lock.hwid)}
  /\ GoTo(i, "off")
  /\ UNCHANGED <<snap, timer, missed, faults>>

-----------------------------------------------------------------------------
(* The environment. *)

(* The process dies, or a write of acquire() raises and ends it; the lock  *)
(* file stays as it is. *)
Crash(i) ==
  /\ pc[i] # "off"
  /\ faults < MaxFaults
  /\ faults' = faults + 1
  /\ GoTo(i, "off")
  /\ snap' = [snap EXCEPT ![i] = NoLock]
  /\ Restamp(i)
  /\ missed' = missed \ {i}
  /\ UNCHANGED <<lock, disturbed>>

Aged(l) == IF l = NoLock \/ l.age > Stale THEN l ELSE [l EXCEPT !.age = l.age + 1]

Tick ==
  /\ \A i \in Instances :
       /\ pc[i] = "active" => timer[i] < Interval + Delay
       /\ pc[i] \in {"writing", "refreshing"} => timer[i] < Delay
  /\ lock' = Aged(lock)
  /\ snap' = [i \in Instances |-> Aged(snap[i])]
  /\ timer' = [i \in Instances |->
                 IF pc[i] \in {"active", "writing", "refreshing"} THEN timer[i] + 1 ELSE timer[i]]
  /\ UNCHANGED <<pc, missed, faults, disturbed>>

Startup(i) == AcquireRead(i) \/ AcquireDecide(i) \/ AcquireReplace(i)

Beat(i) == RefreshRead(i) \/ RefreshReplace(i) \/ MissBeat(i)

Release(i) == ReleaseRead(i) \/ ReleaseRemove(i)

Next ==
  \/ Tick
  \/ \E i \in Instances : Startup(i) \/ Beat(i) \/ Release(i) \/ Crash(i)

(* Time passes; a process that is starting, beating or removing its lock   *)
(* gets to its next step, and one that was refused is started again        *)
(* (restart: unless-stopped).  A process that is off may stay off.         *)
Fairness ==
  /\ WF_vars(Tick)
  /\ \A i \in Instances :
       /\ WF_vars(pc[i] # "off" /\ Startup(i))
       /\ WF_vars(RefreshRead(i)) /\ WF_vars(RefreshReplace(i)) /\ WF_vars(ReleaseRemove(i))

Spec == Init /\ [][Next]_vars /\ Fairness

-----------------------------------------------------------------------------
(* Properties.                                                             *)

(* "Prevents the same license from running on multiple machines            *)
(* simultaneously" (concurrency.py:4).                                     *)
OneMachine ==
  \A i, j \in Instances : Live(i) /\ Live(j) => HwidOf[i] = HwidOf[j]

(* The exclusion holds until it is broken in one of three ways: a write or *)
(* a removal lands on a lock that another machine took after it was read,  *)
(* a stale lock is taken over whose machine is alive, or an instance       *)
(* removes the lock under another one of its machine                       *)
(* (concurrency.py:80-84, 98-105, 120-128, 140-142).                       *)
OneMachineUnlessDisturbed == disturbed = {} => OneMachine

(* "If the lock is stale (older than 2x heartbeat interval), it's          *)
(* considered dead" (concurrency.py:7-8): the machine of a stale lock runs *)
(* no instance whose last beat did what a beat does.                       *)
StaleMeansDead ==
  \A i \in Instances : Live(i) /\ i \notin missed /\ IsStale(lock) => lock.hwid # HwidOf[i]

(* The lock of a dead machine does not last: once every other machine is   *)
(* down for good, a container that keeps being restarted is eventually     *)
(* never refused again (concurrency.py:94-105).                            *)
DeadHolderIsReplaced ==
  \A i \in Instances :
    <>[](\A j \in Instances : HwidOf[j] # HwidOf[i] => pc[j] = "off") =>
      <>[](pc[i] # "refused")
=============================================================================
