----------------------- MODULE LicenseHeartbeatProofs -----------------------
(***************************************************************************)
(* Proofs about LicenseHeartbeat for any number of threads, restarts and   *)
(* tolerated failures.                                                     *)
(***************************************************************************)
EXTENDS LicenseHeartbeat, TLAPS

(* Of the threads that stop() has not given up on, at most the joined one  *)
(* lives, and none once stop() has returned; without a second loop nothing *)
(* else lives either. *)
LoopInv ==
  /\ \A t \in Threads \ abandoned : Alive(t) => t = thread
  /\ owner = "idle" /\ ~running => \A t \in Threads \ abandoned : ~Alive(t)
  /\ owner = "joining" => ~running
  /\ ~overlapped => \A t \in Threads : Alive(t) => t = thread

(* The counter against the two histories it summarises. *)
CountInv ==
  /\ misses <= failureCount
  /\ ~overlapped =>
       /\ failureCount <= misses + 1
       /\ failureCount <= failedBeats
       /\ \A t \in Threads :
            pc[t] \in {"notifying", "callback_failed"} => failureCount = 0 /\ misses = 0

HbInv == HbTypeOK /\ LoopInv /\ CountInv

-----------------------------------------------------------------------------
(* Every step of the heartbeat keeps its state in the declared types.      *)
LEMMA HbTypeStep == HbTypeOK /\ [HbNext]_hbVars => HbTypeOK'
<1> USE MaxFailuresAssumption, MaxRestartsAssumption
<1> SUFFICES ASSUME HbTypeOK, [HbNext]_hbVars PROVE HbTypeOK'
  OBVIOUS
<1> USE DEF HbTypeOK, Places, Counts
<1>1. CASE Stop
  BY <1>1 DEF Stop
<1>2. CASE StopReturns
  BY <1>2 DEF StopReturns
<1>3. ASSUME NEW t \in Threads, Start(t) PROVE HbTypeOK'
  <2>1. restarts' \in 0..MaxRestarts
    BY <1>3 DEF Start
  <2>2. pc' \in [Threads -> Places]
    BY <1>3 DEF Start
  <2>3. /\ running' \in BOOLEAN /\ stopEvent' \in BOOLEAN /\ overlapped' \in BOOLEAN
        /\ abandoned' \subseteq Threads
    BY <1>3, Zenon DEF Start
  <2> QED
    BY <1>3, <2>1, <2>2, <2>3 DEF Start
<1>4. ASSUME NEW t \in Threads, Wake(t) PROVE HbTypeOK'
  BY <1>4 DEF Wake
<1>5. ASSUME NEW t \in Threads, ValidateReturns(t) \/ ValidateRaises(t) PROVE HbTypeOK'
  BY <1>5 DEF ValidateReturns, ValidateRaises, ValidateEnds
<1>6. ASSUME NEW t \in Threads, RecordSuccess(t) PROVE HbTypeOK'
  BY <1>6 DEF RecordSuccess
<1>7. ASSUME NEW t \in Threads, OnSuccessReturns(t) \/ OnSuccessRaises(t) PROVE HbTypeOK'
  BY <1>7 DEF OnSuccessReturns, OnSuccessRaises
<1>8. ASSUME NEW t \in Threads, RecordFailure(t) PROVE HbTypeOK'
  BY <1>8 DEF RecordFailure, OneMore
<1>9. ASSUME NEW t \in Threads, OnFailureReturns(t) PROVE HbTypeOK'
  BY <1>9 DEF OnFailureReturns
<1>10. CASE UNCHANGED hbVars
  BY <1>10 DEF hbVars
<1> QED
  BY <1>1, <1>2, <1>3, <1>4, <1>5, <1>6, <1>7, <1>8, <1>9, <1>10 DEF HbNext, HbStep

(* A second loop is added only to one that was given up.                   *)
LEMMA LoopStep ==
  ASSUME HbTypeOK, LoopInv, [HbNext]_hbVars
  PROVE  LoopInv'
<1> USE DEF HbTypeOK, LoopInv, Alive
<1>1. CASE Stop
  BY <1>1 DEF Stop
<1>2. CASE StopReturns
  BY <1>2 DEF StopReturns
<1>3. ASSUME NEW t \in Threads, Start(t) PROVE LoopInv'
  BY <1>3 DEF Start
<1>4. ASSUME NEW t \in Threads, HbStep(t) PROVE LoopInv'
  <2>1. /\ pc[t] # "dead"
        /\ \A s \in Threads : s # t => pc'[s] = pc[s]
        /\ UNCHANGED <<running, stopEvent, thread, owner, abandoned, overlapped>>
    BY <1>4 DEF HbStep, Wake, ValidateReturns, ValidateRaises, ValidateEnds,
                RecordSuccess, OnSuccessReturns, OnSuccessRaises, RecordFailure,
                OnFailureReturns
  <2> QED
    BY <2>1
<1>5. CASE UNCHANGED hbVars
  BY <1>5 DEF hbVars
<1> QED
  BY <1>1, <1>2, <1>3, <1>4, <1>5 DEF HbNext

(* With a single loop, the counter keeps between the two histories.        *)
LEMMA CountStep ==
  ASSUME HbTypeOK, LoopInv, CountInv, [HbNext]_hbVars
  PROVE  CountInv'
<1> USE MaxFailuresAssumption DEF HbTypeOK, CountInv, Counts
<1>1. CASE Stop
  BY <1>1 DEF Stop
<1>2. CASE StopReturns
  BY <1>2 DEF StopReturns
<1>3. ASSUME NEW t \in Threads, Start(t) PROVE CountInv'
  BY <1>3 DEF Start
<1>4. ASSUME NEW t \in Threads, Wake(t) PROVE CountInv'
  BY <1>4 DEF Wake
<1>5. ASSUME NEW t \in Threads, ValidateReturns(t) \/ ValidateRaises(t) PROVE CountInv'
  BY <1>5 DEF ValidateReturns, ValidateRaises, ValidateEnds
<1>6. ASSUME NEW t \in Threads, RecordSuccess(t) PROVE CountInv'
  BY <1>6 DEF RecordSuccess
<1>7. ASSUME NEW t \in Threads, OnSuccessReturns(t) \/ OnSuccessRaises(t) PROVE CountInv'
  BY <1>7 DEF OnSuccessReturns, OnSuccessRaises
<1>8. ASSUME NEW t \in Threads, RecordFailure(t) PROVE CountInv'
  <2>1. /\ overlapped' = overlapped
        /\ ~overlapped => \A s \in Threads : pc'[s] \notin {"notifying", "callback_failed"}
    BY <1>8 DEF RecordFailure, LoopInv, Alive
  <2>2. CASE pc[t] = "invalid"
    BY <1>8, <2>1, <2>2 DEF RecordFailure, OneMore
  <2>3. CASE pc[t] = "callback_failed"
    BY <1>8, <2>1, <2>3 DEF RecordFailure, OneMore
  <2> QED
    BY <1>8, <2>2, <2>3 DEF RecordFailure
<1>9. ASSUME NEW t \in Threads, OnFailureReturns(t) PROVE CountInv'
  BY <1>9 DEF OnFailureReturns
<1>10. CASE UNCHANGED hbVars
  BY <1>10 DEF hbVars
<1> QED
  BY <1>1, <1>2, <1>3, <1>4, <1>5, <1>6, <1>7, <1>8, <1>9, <1>10 DEF HbNext, HbStep

(* The invariant holds at the start of the heartbeat.                      *)
LEMMA HbInvInit == HbInit => HbInv
<1> USE MaxFailuresAssumption, MaxRestartsAssumption
<1> SUFFICES ASSUME HbInit PROVE HbInv
  OBVIOUS
<1> USE DEF HbInit
<1>1. HbTypeOK
  <2>1. pc \in [Threads -> Places]
    BY DEF Places
  <2>2. running \in BOOLEAN /\ stopEvent \in BOOLEAN /\ overlapped \in BOOLEAN
    OBVIOUS
  <2> QED
    BY <2>1, <2>2 DEF HbTypeOK, Counts
<1>2. LoopInv
  BY DEF LoopInv, Alive
<1>3. CountInv
  BY DEF CountInv
<1> QED
  BY <1>1, <1>2, <1>3 DEF HbInv

(* The invariant is inductive.                                             *)
LEMMA HbInvStep ==
  ASSUME HbInv, [HbNext]_hbVars
  PROVE  HbInv'
BY HbTypeStep, LoopStep, CountStep DEF HbInv

-----------------------------------------------------------------------------
(* The heartbeat's state keeps its types.                                  *)
THEOREM HbTypeCorrect == HbSpec => []HbTypeOK
<1>1. HbInit => HbTypeOK
  BY HbInvInit DEF HbInv
<1> QED
  BY <1>1, HbTypeStep, PTL DEF HbSpec

(* The invariant the other theorems follow from.                           *)
THEOREM HbInvariant == HbSpec => []HbInv
<1>1. HbInv /\ [HbNext]_hbVars => HbInv'
  BY HbInvStep
<1> QED
  BY HbInvInit, <1>1, PTL DEF HbSpec

(* However often the heartbeat is restarted, and whenever stop() gives up  *)
(* waiting: of the loops that are alive at most one was not given up       *)
(* (heartbeat.py:86-87). *)
THEOREM LoopsOverlapOnlyByTimeout == HbSpec => []LoopsOverlapOnlyWhenAbandoned
<1>1. HbInv => LoopsOverlapOnlyWhenAbandoned
  BY DEF HbInv, LoopInv, LoopsOverlapOnlyWhenAbandoned
<1> QED
  BY <1>1, HbInvariant, PTL

(* MaxFailures failed validations in a row shut the gate, with any number  *)
(* of loops; and nothing short of MaxFailures failed beats in a row does,  *)
(* until two loops have shared the counter. *)
THEOREM GateFollowsBeats == HbSpec => [](MissesShutTheGate /\ UnhealthyIsEarned)
<1>1. HbInv => MissesShutTheGate /\ UnhealthyIsEarned
  BY MaxFailuresAssumption
  DEF HbInv, HbTypeOK, CountInv, Counts, MissesShutTheGate, UnhealthyIsEarned, IsHealthy
<1> QED
  BY <1>1, HbInvariant, PTL
=============================================================================
