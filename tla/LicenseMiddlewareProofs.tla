----------------------- MODULE LicenseMiddlewareProofs -----------------------
(***************************************************************************)
(* Proofs about LicenseMiddleware for every set of threads and licenses,   *)
(* every failure limit and every grace.  They build on the invariant of    *)
(* the heartbeat: a step of the middleware is a step of the heartbeat, or  *)
(* leaves the heartbeat alone.                                             *)
(***************************************************************************)
EXTENDS LicenseMiddleware, LicenseHeartbeatProofs

(* Where the single loop is, against the license and the grace timer. *)
StageInv ==
  \A t \in Threads :
    /\ pc[t] # "notifying" => stage[t] = "install"
    /\ pc[t] = "notifying" /\ stage[t] = "reset" => license.valid
    /\ pc[t] = "notifying" /\ stage[t] = "refresh" => license.valid /\ failingFor = NotFailing
    /\ pc[t] = "alarm" => failureCount = MaxFailures

(* A license is killed only with the whole grace on the timer. *)
KillInv == ~license.valid => failingFor = HeartbeatGrace

(* All this as long as two loops have not shared the state. *)
AloneInv == ~overlapped => StageInv /\ KillInv /\ TimerRunsWhileUnhealthy

MwInv == HbInv /\ MwTypeOK /\ AloneInv

-----------------------------------------------------------------------------
(* Seen without callbacks, every step is one of the heartbeat.             *)
LEMMA MwStepIsHbStep == [MwNext]_vars => [HbNext]_hbVars
BY DEF MwNext, vars, HeartbeatStep, HeartbeatValidate, InstallLicense,
       ResetGraceTimer, RefreshLock, OnHeartbeatFail, ChangeVerdict, Tick,
       HbNext, HbStep, hbVars

(* A license keeps its shape when it is killed.                            *)
LEMMA KilledLicense ==
  ASSUME NEW l \in Licenses
  PROVE  /\ [l EXCEPT !.valid = FALSE] \in Licenses
         /\ [l EXCEPT !.valid = FALSE].valid = FALSE
         /\ ~l.valid => [l EXCEPT !.valid = FALSE] = l
         /\ l.valid \in BOOLEAN
<1>1. CASE l \in Infos
  BY <1>1, InfosAssumption DEF Licenses
<1>2. ASSUME NEW i \in Infos, l = [i EXCEPT !.valid = FALSE] PROVE [l EXCEPT !.valid = FALSE] = l
  BY <1>2, InfosAssumption
<1>3. ASSUME NEW i \in Infos, l = [i EXCEPT !.valid = FALSE] PROVE l.valid = FALSE
  BY <1>3, InfosAssumption
<1> QED
  BY <1>1, <1>2, <1>3 DEF Licenses

(* A second loop is never forgotten. *)
LEMMA OverlapStays == [MwNext]_vars => (overlapped => overlapped')
BY DEF MwNext, vars, hbVars, HeartbeatStep, HeartbeatValidate, InstallLicense,
       ResetGraceTimer, RefreshLock, OnHeartbeatFail, ChangeVerdict, Tick, Stop, StopReturns,
       Start, Wake, ValidateReturns, ValidateRaises, ValidateEnds, RecordSuccess,
       OnSuccessReturns, OnSuccessRaises, RecordFailure, OnFailureReturns

(* Every step keeps the middleware's state in the declared types.          *)
LEMMA MwTypeStep ==
  ASSUME TypeOK, [MwNext]_vars
  PROVE  MwTypeOK'
<1> USE HeartbeatGraceAssumption DEF TypeOK, MwTypeOK, NotFailing
<1>1. CASE ChangeVerdict
  BY <1>1 DEF ChangeVerdict
<1>2. CASE Tick
  BY <1>2 DEF Tick
<1>3. ASSUME NEW t \in Threads, HeartbeatValidate(t) PROVE MwTypeOK'
  BY <1>3 DEF HeartbeatValidate, mwVars
<1>4. ASSUME NEW t \in Threads, InstallLicense(t) PROVE MwTypeOK'
  <2>1. result[t] \in Infos
    OBVIOUS
  <2>2. Unread \in Infos
    BY <2>1 DEF Unread
  <2> QED
    BY <1>4, <2>1, <2>2 DEF InstallLicense, Licenses
<1>5. ASSUME NEW t \in Threads, ResetGraceTimer(t) PROVE MwTypeOK'
  BY <1>5 DEF ResetGraceTimer
<1>6. ASSUME NEW t \in Threads, RefreshLock(t) PROVE MwTypeOK'
  BY <1>6 DEF RefreshLock
<1>7. ASSUME NEW t \in Threads, OnHeartbeatFail(t) PROVE MwTypeOK'
  <2>1. license' \in Licenses
    BY <1>7, KilledLicense DEF OnHeartbeatFail
  <2> QED
    BY <1>7, <2>1 DEF OnHeartbeatFail
<1>8. CASE UNCHANGED mwVars
  BY <1>8 DEF mwVars
<1> QED
  BY <1>1, <1>2, <1>3, <1>4, <1>5, <1>6, <1>7, <1>8 DEF MwNext, HeartbeatStep, vars

(* The steps of the loop, for a single loop: the one thread that moves is  *)
(* the only one alive.                                                     *)
LEMMA OnlyOneMoves ==
  ASSUME LoopInv, ~overlapped, NEW t \in Threads, pc[t] # "dead"
  PROVE  \A s \in Threads : s # t => pc[s] = "dead"
BY DEF LoopInv, Alive

(* The stages, the kill and the timer keep their relation to the counter.  *)
LEMMA MwInvStep ==
  ASSUME MwInv, [MwNext]_vars
  PROVE  MwInv'
<1>1. HbInv'
  BY MwStepIsHbStep, HbInvStep DEF MwInv
<1>2. MwTypeOK'
  BY MwTypeStep DEF MwInv, HbInv, TypeOK
<1>3. ASSUME ~overlapped' PROVE StageInv' /\ KillInv' /\ TimerRunsWhileUnhealthy'
  <2>0. ~overlapped /\ StageInv /\ KillInv /\ TimerRunsWhileUnhealthy
    BY <1>3, OverlapStays DEF MwInv, AloneInv
  <2> USE <2>0, <1>3, HeartbeatGraceAssumption, MaxFailuresAssumption
      DEF MwInv, HbInv, HbTypeOK, Counts, MwTypeOK, StageInv, KillInv,
          TimerRunsWhileUnhealthy, IsHealthy, NotFailing
  <2>1. CASE ChangeVerdict
    BY <2>1 DEF ChangeVerdict, hbVars
  <2>2. CASE Tick
    BY <2>2 DEF Tick, hbVars
  <2>3. CASE Stop /\ UNCHANGED mwVars
    BY <2>3 DEF Stop, mwVars
  <2>4. CASE StopReturns /\ UNCHANGED mwVars
    BY <2>4 DEF StopReturns, mwVars
  <2>5. ASSUME NEW t \in Threads, Start(t), UNCHANGED mwVars
        PROVE  StageInv' /\ KillInv' /\ TimerRunsWhileUnhealthy'
    BY <2>5 DEF Start, mwVars
  <2>6. ASSUME NEW t \in Threads, HeartbeatStep(t)
        PROVE  StageInv' /\ KillInv' /\ TimerRunsWhileUnhealthy'
    <3>0. /\ pc[t] # "dead"
          /\ \A s \in Threads : s # t => pc'[s] = pc[s] /\ stage'[s] = stage[s]
      BY <2>6 DEF HeartbeatStep, Wake, HeartbeatValidate, ValidateReturns,
                  ValidateRaises, ValidateEnds, RecordSuccess, InstallLicense,
                  ResetGraceTimer, RefreshLock, OnSuccessReturns, OnSuccessRaises,
                  RecordFailure, OnHeartbeatFail, OnFailureReturns, mwVars, hbVars
    <3>1. \A s \in Threads : s # t => pc[s] = "dead" /\ pc'[s] = "dead" /\ stage'[s] = "install"
      BY <3>0, OnlyOneMoves
    <3>2. CASE Wake(t) /\ UNCHANGED mwVars
      BY <3>1, <3>2 DEF Wake, mwVars
    <3>3. CASE HeartbeatValidate(t)
      BY <3>1, <3>3 DEF HeartbeatValidate, ValidateReturns, ValidateRaises, ValidateEnds, mwVars
    <3>4. CASE RecordSuccess(t) /\ UNCHANGED mwVars
      BY <3>1, <3>4 DEF RecordSuccess, mwVars
    <3>5. CASE InstallLicense(t)
      <4>1. license' \in Infos
        BY <3>5 DEF InstallLicense
      <4>2. license'.valid = TRUE
        BY <4>1, InfosAssumption
      <4>3. stage'[t] = "reset" /\ pc' = pc /\ failureCount' = failureCount /\ pc[t] = "notifying"
        BY <3>5 DEF InstallLicense, hbVars
      <4> QED
        BY <3>1, <4>2, <4>3
    <3>6. CASE ResetGraceTimer(t)
      BY <3>1, <3>6 DEF ResetGraceTimer, hbVars
    <3>7. CASE RefreshLock(t)
      BY <3>1, <3>7 DEF RefreshLock, OnSuccessReturns, OnSuccessRaises
    <3>8. CASE RecordFailure(t) /\ UNCHANGED mwVars
      <4>1. failureCount' >= failureCount /\ (failureCount' >= MaxFailures => failureCount' = MaxFailures)
        BY <3>8 DEF RecordFailure, OneMore
      <4>2. pc[t] # "notifying" /\ pc'[t] # "notifying" /\ stage' = stage
            /\ license' = license /\ failingFor' = failingFor
            /\ (pc'[t] = "alarm" => failureCount' >= MaxFailures)
        BY <3>8 DEF RecordFailure, mwVars
      <4>3. failureCount' \in 0..MaxFailures
        BY <3>8 DEF RecordFailure, OneMore
      <4> QED
        BY <3>1, <4>1, <4>2, <4>3
    <3>9. CASE OnHeartbeatFail(t)
      <4>1. /\ pc[t] = "alarm" /\ pc'[t] = "waiting" /\ stage' = stage
            /\ failureCount' = failureCount
        BY <3>9 DEF OnHeartbeatFail, OnFailureReturns
      <4>2. ~license'.valid => failingFor' = HeartbeatGrace
        BY <3>9 DEF OnHeartbeatFail
      <4> QED
        BY <3>1, <4>1, <4>2
    <3> QED
      BY <2>6, <3>2, <3>3, <3>4, <3>5, <3>6, <3>7, <3>8, <3>9 DEF HeartbeatStep
  <2>7. CASE UNCHANGED vars
    BY <2>7 DEF vars, hbVars, mwVars
  <2> QED
    BY <2>1, <2>2, <2>3, <2>4, <2>5, <2>6, <2>7 DEF MwNext
<1> QED
  BY <1>1, <1>2, <1>3 DEF MwInv, AloneInv

(* The invariant holds when startup_license_check has returned.            *)
LEMMA MwInvInit == Init => MwInv
<1> SUFFICES ASSUME Init PROVE MwInv
  OBVIOUS
<1>1. HbInv
  BY HbInvInit DEF Init
<1>2. license.valid = TRUE
  BY InfosAssumption DEF Init
<1>3. MwTypeOK
  <2>1. verdict \in Infos
    BY DEF Init
  <2>2. Unread \in Infos
    BY <2>1 DEF Unread
  <2> QED
    BY <2>1, <2>2, HeartbeatGraceAssumption DEF Init, MwTypeOK, Licenses
<1>4. StageInv /\ KillInv /\ TimerRunsWhileUnhealthy
  BY <1>2 DEF Init, HbInit, StageInv, KillInv, TimerRunsWhileUnhealthy, NotFailing
<1> QED
  BY <1>1, <1>3, <1>4 DEF MwInv, AloneInv

-----------------------------------------------------------------------------
(* The state of the middleware and of its heartbeat keeps its types.       *)
THEOREM MwTypeCorrect == MwSpec => []TypeOK
<1>1. Init => TypeOK
  BY MwInvInit DEF MwInv, HbInv, TypeOK
<1>2. TypeOK /\ [MwNext]_vars => TypeOK'
  BY MwTypeStep, HbTypeStep, MwStepIsHbStep DEF TypeOK
<1> QED
  BY <1>1, <1>2, PTL DEF MwSpec

(* The invariant holds throughout.                                         *)
THEOREM MwInvariant == MwSpec => []MwInv
<1>1. MwInv /\ [MwNext]_vars => MwInv'
  BY MwInvStep
<1> QED
  BY MwInvInit, <1>1, PTL DEF MwSpec

(* A killed license or a running grace timer always comes with an          *)
(* unhealthy heartbeat, but for the moment a success is being installed,   *)
(* until two loops have shared the timer. *)
THEOREM TimerFollowsHealth == MwSpec => []TimerRunsWhileUnhealthy
<1>1. MwInv => TimerRunsWhileUnhealthy
  BY DEF MwInv, AloneInv, TimerRunsWhileUnhealthy
<1> QED
  BY <1>1, MwInvariant, PTL

-----------------------------------------------------------------------------
(* The refinement: how each step looks to LicenseWatchdog.                 *)

(* What a step leaves unchanged when it touches neither the license, the   *)
(* timer nor the moment between their two updates.                         *)
LEMMA SameTrust ==
  ASSUME license' = license, failingFor' = failingFor, Settling' = Settling,
         overlapped' = overlapped
  PROVE  UNCHANGED <<TrustStatus, SuspendedFor>>
BY DEF TrustStatus, SuspendedFor

(* Every step of the middleware is a step or a stutter of LicenseWatchdog. *)
LEMMA WatchdogStep ==
  ASSUME MwInv, MwInv', [MwNext]_vars
  PROVE  [Watchdog!WdNext]_(Watchdog!wdVars)
<1> USE HeartbeatGraceAssumption DEF Watchdog!wdVars
<1>01. CASE overlapped'
  BY <1>01 DEF TrustStatus, SuspendedFor, Watchdog!WdNext, Watchdog!Confirm
<1>02. SUFFICES ASSUME ~overlapped' PROVE [Watchdog!WdNext]_(Watchdog!wdVars)
  BY <1>01
<1>03. ~overlapped /\ overlapped' = overlapped
  <2>1. overlapped \in BOOLEAN /\ overlapped' \in BOOLEAN
    BY DEF MwInv, HbInv, HbTypeOK
  <2>2. ~overlapped
    BY <1>02, OverlapStays
  <2> QED
    BY <1>02, <2>1, <2>2
<1>04. StageInv /\ KillInv /\ StageInv' /\ KillInv'
  BY <1>02, <1>03 DEF MwInv, AloneInv
<1> USE <1>02, <1>03, <1>04
<1>0. SUFFICES ASSUME ~UNCHANGED <<TrustStatus, SuspendedFor>> PROVE Watchdog!WdNext
  OBVIOUS
<1>1. CASE ChangeVerdict
  BY <1>0, <1>1, SameTrust DEF ChangeVerdict, Settling, hbVars
<1>2. CASE Tick
  <2>1. license' = license /\ failingFor \in 0..(HeartbeatGrace - 1) /\ failingFor' = failingFor + 1
    BY <1>2 DEF Tick
  <2>2. license.valid
    BY <2>1 DEF MwInv, KillInv
  <2>3. Settling' = Settling
    BY <1>2 DEF Tick, Settling, hbVars
  <2>4. CASE Settling
    BY <1>0, <2>1, <2>2, <2>3, <2>4 DEF TrustStatus, SuspendedFor
  <2>5. CASE ~Settling
    <3>1. TrustStatus = "suspended" /\ TrustStatus' = "suspended"
      BY <2>1, <2>2, <2>3, <2>5 DEF TrustStatus, NotFailing
    <3>2. SuspendedFor = failingFor /\ SuspendedFor' = failingFor'
      BY <3>1 DEF SuspendedFor
    <3> QED
      BY <2>1, <3>1, <3>2 DEF Watchdog!WdNext, Watchdog!Pass
  <2> QED
    BY <2>4, <2>5
<1>3. CASE (Stop \/ StopReturns) /\ UNCHANGED mwVars
  BY <1>0, <1>3, SameTrust DEF Stop, StopReturns, Settling, mwVars
<1>4. ASSUME NEW t \in Threads, Start(t), UNCHANGED mwVars PROVE Watchdog!WdNext
  <2>1. Settling' = Settling
    BY <1>4 DEF Start, Settling, mwVars, MwInv, HbInv, HbTypeOK
  <2> QED
    BY <1>0, <1>4, <2>1, SameTrust DEF mwVars
<1>5. ASSUME NEW t \in Threads, HeartbeatStep(t) PROVE Watchdog!WdNext
  <2>0. /\ pc[t] # "dead"
        /\ \A s \in Threads : s # t => pc'[s] = pc[s] /\ stage'[s] = stage[s]
    BY <1>5 DEF HeartbeatStep, Wake, HeartbeatValidate, ValidateReturns,
                ValidateRaises, ValidateEnds, RecordSuccess, InstallLicense,
                ResetGraceTimer, RefreshLock, OnSuccessReturns, OnSuccessRaises,
                RecordFailure, OnHeartbeatFail, OnFailureReturns, mwVars, hbVars,
                MwInv, HbInv, HbTypeOK, MwTypeOK
  <2>1. \A s \in Threads : s # t => pc[s] = "dead" /\ pc'[s] = "dead"
    BY <2>0, OnlyOneMoves DEF MwInv, HbInv
  <2>2. /\ Settling = (pc[t] = "notifying" /\ stage[t] = "reset")
        /\ Settling' = (pc'[t] = "notifying" /\ stage'[t] = "reset")
    BY <2>1 DEF Settling
  <2>3. CASE Wake(t) /\ UNCHANGED mwVars
    BY <1>0, <2>2, <2>3, SameTrust DEF Wake, mwVars, MwInv, HbInv, HbTypeOK
  <2>4. CASE HeartbeatValidate(t)
    BY <1>0, <2>2, <2>4, SameTrust
    DEF HeartbeatValidate, ValidateReturns, ValidateRaises, ValidateEnds, mwVars,
        MwInv, HbInv, HbTypeOK
  <2>5. CASE RecordSuccess(t) /\ UNCHANGED mwVars
    BY <1>0, <2>2, <2>5, SameTrust
    DEF RecordSuccess, mwVars, MwInv, HbInv, HbTypeOK, StageInv
  <2>6. CASE InstallLicense(t)
    <3>1. license'.valid /\ Settling'
      BY <2>2, <2>6 DEF InstallLicense, hbVars, MwInv, MwTypeOK, StageInv
    <3>2. TrustStatus' = "trusted" /\ SuspendedFor' = 0
      BY <3>1 DEF TrustStatus, SuspendedFor
    <3> QED
      BY <3>2 DEF Watchdog!WdNext, Watchdog!Confirm
  <2>7. CASE ResetGraceTimer(t)
    <3>1. license' = license /\ license.valid /\ Settling /\ failingFor' = NotFailing
      BY <2>2, <2>7 DEF ResetGraceTimer, MwInv, StageInv
    <3>2. TrustStatus = "trusted" /\ TrustStatus' = "trusted"
      BY <3>1 DEF TrustStatus
    <3> QED
      BY <1>0, <3>2 DEF SuspendedFor
  <2>8. CASE RefreshLock(t)
    BY <1>0, <2>2, <2>8, SameTrust
    DEF RefreshLock, OnSuccessReturns, OnSuccessRaises, MwInv, HbInv, HbTypeOK
  <2>9. CASE RecordFailure(t) /\ UNCHANGED mwVars
    BY <1>0, <2>2, <2>9, SameTrust DEF RecordFailure, mwVars, MwInv, HbInv, HbTypeOK
  <2>10. CASE OnHeartbeatFail(t)
    <3>1. ~Settling /\ ~Settling'
      BY <2>2, <2>10 DEF OnHeartbeatFail, OnFailureReturns, MwInv, HbInv, HbTypeOK
    <3>2. CASE failingFor = NotFailing
      <4>1. license' = license /\ failingFor' = 0 /\ license.valid
        BY <2>10, <3>2 DEF OnHeartbeatFail, NotFailing, MwInv, KillInv
      <4>2. TrustStatus = "trusted" /\ TrustStatus' = "suspended" /\ SuspendedFor' = 0
        BY <3>1, <3>2, <4>1 DEF TrustStatus, SuspendedFor, NotFailing
      <4> QED
        BY <4>2 DEF Watchdog!WdNext, Watchdog!Suspend
    <3>3. CASE failingFor # NotFailing /\ failingFor < HeartbeatGrace
      <4>1. license' = license /\ failingFor' = failingFor
        BY <2>10, <3>3, HeartbeatGraceAssumption
        DEF OnHeartbeatFail, MwInv, MwTypeOK, NotFailing
      <4>2. Settling' = Settling
        BY <3>1 DEF Settling
      <4> QED
        BY <1>0, <4>1, <4>2, SameTrust
    <3>4. CASE failingFor = HeartbeatGrace
      <4>1. failingFor' = failingFor /\ failingFor # NotFailing /\ license' = [license EXCEPT !.valid = FALSE]
        BY <2>10, <3>4 DEF OnHeartbeatFail, NotFailing
      <4>2. license \in Licenses
        BY DEF MwInv, MwTypeOK
      <4>3. license'.valid = FALSE /\ (~license.valid => license' = license)
        BY <4>1, <4>2, KilledLicense
      <4>4. Settling' = Settling
        BY <3>1 DEF Settling
      <4>5. license.valid
        BY <1>0, <4>1, <4>3, <4>4, SameTrust
      <4>6. TrustStatus = "suspended" /\ TrustStatus' = "killed"
        BY <3>1, <4>1, <4>3, <4>5 DEF TrustStatus
      <4>7. SuspendedFor = HeartbeatGrace /\ SuspendedFor' = SuspendedFor
        BY <3>4, <4>1, <4>6 DEF SuspendedFor
      <4> QED
        BY <4>6, <4>7 DEF Watchdog!WdNext, Watchdog!Kill
    <3> QED
      BY <3>2, <3>3, <3>4 DEF MwInv, MwTypeOK
  <2> QED
    BY <1>5, <2>3, <2>4, <2>5, <2>6, <2>7, <2>8, <2>9, <2>10 DEF HeartbeatStep
<1>6. CASE UNCHANGED vars
  BY <1>0, <1>6, SameTrust DEF vars, hbVars, mwVars, Settling
<1> QED
  BY <1>1, <1>2, <1>3, <1>4, <1>5, <1>6 DEF MwNext

(* The callbacks implement the promise of LicenseWatchdog, as long as      *)
(* stop() and start() have not left two loops.                             *)
THEOREM MiddlewareImplementsWatchdog == MwSpec => ImplementsWatchdog
<1>1. Init => Watchdog!WdInit
  <2> SUFFICES ASSUME Init PROVE Watchdog!WdInit
    OBVIOUS
  <2>1. license.valid = TRUE /\ failingFor = NotFailing /\ ~overlapped
    BY InfosAssumption DEF Init, HbInit
  <2> QED
    BY <2>1 DEF Watchdog!WdInit, TrustStatus, SuspendedFor
<1>2. MwInv /\ MwInv' /\ [MwNext]_vars => [Watchdog!WdNext]_(Watchdog!wdVars)
  BY WatchdogStep
<1>3. MwSpec => []MwInv
  BY MwInvariant
<1> QED
  BY <1>1, <1>2, <1>3, PTL DEF MwSpec, ImplementsWatchdog, Watchdog!WdSpec
=============================================================================
