-------------------------- MODULE LicenseHeartbeat --------------------------
(***************************************************************************)
(* The re-validation thread of licensing/heartbeat.py, class               *)
(* LicenseHeartbeat.  A daemon thread waits one interval, calls            *)
(* validate_fn, and then either on_success(result) or, once max_failures   *)
(* beats in a row have failed, on_failure().  start() and stop() may be    *)
(* called any number of times by the owner of the object.                  *)
(*                                                                         *)
(* The callbacks are left open here: validate_fn and on_success return or  *)
(* raise, and nothing is said of what they do.  on_failure and audit_fn    *)
(* are called in the exception handler, where what they raise would end    *)
(* the thread; they return, as those of the application do.                *)
(* LicenseMiddleware supplies the callbacks the application installs.      *)
(*                                                                         *)
(* `_failure_count += 1` is one step: the interpreter of the Dockerfile,   *)
(* CPython 3.11, switches threads only at calls and backward jumps.        *)
(***************************************************************************)
EXTENDS Integers, FiniteSets

CONSTANTS
  Threads,       \* heartbeat threads that may exist; a dead one stands for a new one
  MaxFailures,   \* max_failures: failed beats in a row before on_failure is called
  MaxRestarts    \* bound on the number of later calls of start()

ASSUME MaxFailuresAssumption == MaxFailures \in Nat \ {0}
ASSUME MaxRestartsAssumption == MaxRestarts \in Nat

VARIABLES
  running,       \* _running
  stopEvent,     \* _stop_event
  thread,        \* _thread: the last thread started, the one stop() joins
  failureCount,  \* _failure_count, saturating: it is only compared to MaxFailures
  pc,            \* where each thread is in _heartbeat_loop
  owner,         \* the caller of start() and stop(): "idle" or "joining"
  restarts,      \* calls of start() so far, after the first
  misses,        \* history: beats in a row whose validation raised
  failedBeats,   \* history: beats in a row that ended as HEARTBEAT_FAIL
  abandoned,     \* history: threads that stop() gave up waiting for
  overlapped     \* history: start() has added a loop to one that was still alive

hbVars == <<running, stopEvent, thread, failureCount, pc, owner, restarts,
            misses, failedBeats, abandoned, overlapped>>

Places == {"dead", "waiting", "validating", "validated", "notifying",
           "invalid", "callback_failed", "alarm"}

Counts == 0..MaxFailures

OneMore(n) == IF n < MaxFailures THEN n + 1 ELSE MaxFailures

IsHealthy == failureCount < MaxFailures

Alive(t) == pc[t] # "dead"

HbTypeOK ==
  /\ running \in BOOLEAN
  /\ stopEvent \in BOOLEAN
  /\ thread \in Threads
  /\ failureCount \in Counts
  /\ pc \in [Threads -> Places]
  /\ owner \in {"idle", "joining"}
  /\ restarts \in 0..MaxRestarts
  /\ misses \in Counts
  /\ failedBeats \in Counts
  /\ abandoned \subseteq Threads
  /\ overlapped \in BOOLEAN

(* The state right after the first start(): one thread waits for its first interval. *)
HbInit ==
  /\ running = TRUE
  /\ stopEvent = FALSE
  /\ thread \in Threads
  /\ failureCount = 0
  /\ pc = [t \in Threads |-> IF t = thread THEN "waiting" ELSE "dead"]
  /\ owner = "idle"
  /\ restarts = 0
  /\ misses = 0
  /\ failedBeats = 0
  /\ abandoned = {}
  /\ overlapped = FALSE

-----------------------------------------------------------------------------
(* start() and stop(), called by one owner, one after the other.           *)

(* Mutant: start() forgets the failures counted so far. *)
StartForgets(t) ==
  /\ owner = "idle" /\ ~running /\ restarts < MaxRestarts /\ pc[t] = "dead"
  /\ running' = TRUE /\ stopEvent' = FALSE /\ thread' = t
  /\ pc' = [pc EXCEPT ![t] = "waiting"]
  /\ restarts' = restarts + 1
  /\ failureCount' = 0
  /\ abandoned' = abandoned \ {t}
  /\ overlapped' = (overlapped \/ \E s \in Threads : Alive(s))
  /\ UNCHANGED <<owner, misses, failedBeats>>

Start(t) ==
  /\ owner = "idle"
  /\ ~running
  /\ restarts < MaxRestarts
  /\ pc[t] = "dead"
  /\ running' = TRUE
  /\ stopEvent' = FALSE
  /\ thread' = t
  /\ pc' = [pc EXCEPT ![t] = "waiting"]
  /\ restarts' = restarts + 1
  /\ abandoned' = abandoned \ {t}
  /\ overlapped' = (overlapped \/ \E s \in Threads : Alive(s))
  /\ UNCHANGED <<failureCount, owner, misses, failedBeats>>

(* Mutant: stop() does not join the thread. *)
StopLeavesThread ==
  /\ owner = "idle"
  /\ running' = FALSE
  /\ stopEvent' = TRUE
  /\ UNCHANGED <<thread, failureCount, pc, owner, restarts, misses, failedBeats,
                 abandoned, overlapped>>

Stop ==
  /\ owner = "idle"
  /\ running' = FALSE
  /\ stopEvent' = TRUE
  /\ owner' = IF Alive(thread) THEN "joining" ELSE "idle"
  /\ UNCHANGED <<thread, failureCount, pc, restarts, misses, failedBeats,
                 abandoned, overlapped>>

(* join(timeout=5) returns when the thread has ended or the time is up.  A  *)
(* thread that waits sees the event at once; one in the middle of a beat    *)
(* may need longer, a validation alone up to 21 s of unanswered NTP queries *)
(* (license_validator.py:134-140). *)
StopReturns ==
  /\ owner = "joining"
  /\ pc[thread] # "waiting"
  /\ owner' = "idle"
  /\ abandoned' = IF Alive(thread) THEN abandoned \cup {thread} ELSE abandoned
  /\ UNCHANGED <<running, stopEvent, thread, failureCount, pc, restarts,
                 misses, failedBeats, overlapped>>

-----------------------------------------------------------------------------
(* The loop.  The wait ends by timeout or because the event is set, and    *)
(* the thread then tests the event.                                        *)

(* Mutant: the counter is reset before the validation instead of after it. *)
WakeResetsCount(t) ==
  /\ pc[t] = "waiting"
  /\ pc' = [pc EXCEPT ![t] = IF stopEvent THEN "dead" ELSE "validating"]
  /\ failureCount' = IF stopEvent THEN failureCount ELSE 0
  /\ UNCHANGED <<running, stopEvent, thread, owner, restarts, misses, failedBeats,
                 abandoned, overlapped>>

(* Mutant: the event is not tested after the wait. *)
WakeIgnoresStop(t) ==
  /\ pc[t] = "waiting"
  /\ pc' = [pc EXCEPT ![t] = "validating"]
  /\ UNCHANGED <<running, stopEvent, thread, failureCount, owner, restarts,
                 misses, failedBeats, abandoned, overlapped>>

Wake(t) ==
  /\ pc[t] = "waiting"
  /\ pc' = [pc EXCEPT ![t] = IF stopEvent THEN "dead" ELSE "validating"]
  /\ UNCHANGED <<running, stopEvent, thread, failureCount, owner, restarts,
                 misses, failedBeats, abandoned, overlapped>>

ValidateEnds(t, outcome) ==
  /\ pc[t] = "validating"
  /\ pc' = [pc EXCEPT ![t] = outcome]
  /\ UNCHANGED <<running, stopEvent, thread, failureCount, owner, restarts,
                 misses, failedBeats, abandoned, overlapped>>

ValidateReturns(t) == ValidateEnds(t, "validated")

ValidateRaises(t) == ValidateEnds(t, "invalid")

(* Mutant: a success does not reset the counter. *)
RecordSuccessKeepsCount(t) ==
  /\ pc[t] = "validated"
  /\ misses' = 0
  /\ pc' = [pc EXCEPT ![t] = "notifying"]
  /\ UNCHANGED <<running, stopEvent, thread, failureCount, owner, restarts, failedBeats,
                 abandoned, overlapped>>

RecordSuccess(t) ==
  /\ pc[t] = "validated"
  /\ failureCount' = 0
  /\ misses' = 0
  /\ pc' = [pc EXCEPT ![t] = "notifying"]
  /\ UNCHANGED <<running, stopEvent, thread, owner, restarts, failedBeats,
                 abandoned, overlapped>>

OnSuccessReturns(t) ==
  /\ pc[t] = "notifying"
  /\ failedBeats' = 0
  /\ pc' = [pc EXCEPT ![t] = "waiting"]
  /\ UNCHANGED <<running, stopEvent, thread, failureCount, owner, restarts, misses,
                 abandoned, overlapped>>

(* on_success runs inside the try: what it raises is a failed beat too. *)
OnSuccessRaises(t) ==
  /\ pc[t] = "notifying"
  /\ pc' = [pc EXCEPT ![t] = "callback_failed"]
  /\ UNCHANGED <<running, stopEvent, thread, failureCount, owner, restarts,
                 misses, failedBeats, abandoned, overlapped>>

RecordFailure(t) ==
  /\ pc[t] \in {"invalid", "callback_failed"}
  /\ failureCount' = OneMore(failureCount)
  /\ misses' = IF pc[t] = "invalid" THEN OneMore(misses) ELSE misses
  /\ failedBeats' = OneMore(failedBeats)
  /\ pc' = [pc EXCEPT ![t] = IF failureCount' >= MaxFailures THEN "alarm" ELSE "waiting"]
  /\ UNCHANGED <<running, stopEvent, thread, owner, restarts, abandoned, overlapped>>

(* Mutant: the loop ends after on_failure. *)
OnFailureEndsLoop(t) ==
  /\ pc[t] = "alarm"
  /\ pc' = [pc EXCEPT ![t] = "dead"]
  /\ UNCHANGED <<running, stopEvent, thread, failureCount, owner, restarts,
                 misses, failedBeats, abandoned, overlapped>>

OnFailureReturns(t) ==
  /\ pc[t] = "alarm"
  /\ pc' = [pc EXCEPT ![t] = "waiting"]
  /\ UNCHANGED <<running, stopEvent, thread, failureCount, owner, restarts,
                 misses, failedBeats, abandoned, overlapped>>

HbStep(t) ==
  \/ Wake(t)
  \/ ValidateReturns(t)
  \/ ValidateRaises(t)
  \/ RecordSuccess(t)
  \/ OnSuccessReturns(t)
  \/ OnSuccessRaises(t)
  \/ RecordFailure(t)
  \/ OnFailureReturns(t)

HbNext ==
  \/ Stop
  \/ StopReturns
  \/ \E t \in Threads : Start(t) \/ HbStep(t)

(* A wait has a timeout, a validation and a callback end, a join returns:  *)
(* every thread that can step does.  Nobody is obliged to call start or    *)
(* stop.                                                                   *)
HbFairness ==
  /\ WF_hbVars(StopReturns)
  /\ \A t \in Threads : WF_hbVars(HbStep(t))

HbSpec == HbInit /\ [][HbNext]_hbVars /\ HbFairness

-----------------------------------------------------------------------------
(* Properties.                                                             *)

(* stop() followed by start() leaves two threads in _heartbeat_loop, that  *)
(* share one failure counter, only if stop() gave up waiting for the first *)
(* of them in the middle of a beat (heartbeat.py:86-87): among the loops   *)
(* that are alive at most one was not given up.  Without the exception the *)
(* claim is false: a validation may last longer than the five seconds.     *)
LoopsOverlapOnlyWhenAbandoned ==
  \A s, t \in Threads \ abandoned : Alive(s) /\ Alive(t) => s = t

(* MaxFailures validations in a row that raised make the object unhealthy, *)
(* whatever restarts, callback failures and second loops happened in       *)
(* between (heartbeat.py:101, 111, 50).                                    *)
MissesShutTheGate == misses = MaxFailures => ~IsHealthy

(* The object is unhealthy only after MaxFailures failed beats in a row,   *)
(* of which at most the first may be the failure of a callback after a     *)
(* validation that succeeded (heartbeat.py:101, 107, 111).  Two loops that  *)
(* once shared the counter may also count failures that a slow on_success  *)
(* of the other has not yet ended.                                         *)
UnhealthyIsEarned ==
  ~IsHealthy /\ ~overlapped => failedBeats = MaxFailures /\ misses >= MaxFailures - 1

(* "Stop the heartbeat thread" (heartbeat.py:83): once stop() is waiting,  *)
(* it returns, and unless start() is called again every thread ends, the   *)
(* ones it gave up on included.                                            *)
StopTerminates ==
  /\ owner = "joining" ~> owner = "idle"
  /\ \A t \in Threads : [](stopEvent => <>(~stopEvent \/ ~Alive(t)))

(* A heartbeat that is running keeps beating: no outcome of validate_fn or *)
(* on_success, and no alarm, ends the loop (heartbeat.py:110, 131-135).    *)
KeepsBeating ==
  [](running => <>(~running \/ \E t \in Threads : pc[t] = "validating"))
=============================================================================
