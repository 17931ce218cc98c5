------------------------- MODULE LicenseMiddleware -------------------------
(***************************************************************************)
(* The license a running process trusts: the global _license_info of       *)
(* licensing/license_middleware.py, the callbacks startup_license_check    *)
(* hands to the heartbeat, and the grace timer they share.  The heartbeat  *)
(* is the one of LicenseHeartbeat; each of its calls to validate_fn,       *)
(* on_success or on_failure is bound here to what the callback does.       *)
(*                                                                         *)
(* What LicenseValidator.validate would answer at a moment is the          *)
(* environment's `verdict`: a license, or Invalid for any error it raises  *)
(* (expired, revoked, unreadable, no trusted time).                        *)
(***************************************************************************)
EXTENDS LicenseHeartbeat

CONSTANTS
  Infos,           \* licenses validate may return: [valid, tier, in_grace_period]
  Invalid,         \* the verdict of a validation that raises
  HeartbeatGrace   \* heartbeat_grace_hours, in ticks of the monotonic clock

ASSUME InfosAssumption ==
  Infos \subseteq [valid : {TRUE}, tier : STRING, in_grace_period : BOOLEAN]
ASSUME InvalidAssumption == Invalid \notin Infos
ASSUME HeartbeatGraceAssumption == HeartbeatGrace \in Nat

VARIABLES
  verdict,    \* environment: the answer a validation would get now
  license,    \* _license_info
  failingFor, \* time since _heartbeat_first_fail_time, up to HeartbeatGrace
  result,     \* what validate_fn returned to each thread
  stage       \* the statement of _on_heartbeat_success each thread is at

mwVars == <<verdict, license, failingFor, result, stage>>

vars == <<hbVars, mwVars>>

NotFailing == -1   \* _heartbeat_first_fail_time is None

(* What stands for a result that nobody reads again. *)
Unread == CHOOSE i \in Infos : TRUE

Licenses == Infos \cup {[i EXCEPT !.valid = FALSE] : i \in Infos}

MwTypeOK ==
  /\ verdict \in Infos \cup {Invalid}
  /\ license \in Licenses
  /\ failingFor \in {NotFailing} \cup 0..HeartbeatGrace
  /\ result \in [Threads -> Infos]
  /\ stage \in [Threads -> {"install", "reset", "refresh"}]

TypeOK == HbTypeOK /\ MwTypeOK

(* startup_license_check has just returned: a license has been validated   *)
(* and the heartbeat started.                                              *)
Init ==
  /\ HbInit
  /\ verdict \in Infos
  /\ license = verdict
  /\ failingFor = NotFailing
  /\ result = [t \in Threads |-> Unread]
  /\ stage = [t \in Threads |-> "install"]

-----------------------------------------------------------------------------
(* The environment. *)

(* The license file is replaced, expires, is revoked, the time servers are  *)
(* lost or come back. *)
ChangeVerdict ==
  /\ verdict' \in (Infos \cup {Invalid}) \ {verdict}
  /\ UNCHANGED <<hbVars, license, failingFor, result, stage>>

(* time.monotonic() advances; only the age of the first failure is observed. *)
Tick ==
  /\ failingFor \in 0..(HeartbeatGrace - 1)
  /\ failingFor' = failingFor + 1
  /\ UNCHANGED <<hbVars, verdict, license, result, stage>>

-----------------------------------------------------------------------------
(* The heartbeat with its callbacks. *)

(* Mutant: an error of validate is returned as a result. *)
HeartbeatValidateSwallows(t) ==
  \/ /\ ValidateReturns(t)
     /\ result' = [result EXCEPT ![t] = verdict]
     /\ UNCHANGED <<verdict, license, failingFor, stage>>
  \/ /\ verdict = Invalid
     /\ ValidateRaises(t)
     /\ UNCHANGED mwVars

(* _heartbeat_validate: the answer is that of the moment of the call.       *)
HeartbeatValidate(t) ==
  \/ /\ verdict \in Infos
     /\ ValidateReturns(t)
     /\ result' = [result EXCEPT ![t] = verdict]
     /\ UNCHANGED <<verdict, license, failingFor, stage>>
  \/ /\ verdict = Invalid
     /\ ValidateRaises(t)
     /\ UNCHANGED mwVars

(* Mutant: a license that was killed is not replaced. *)
InstallUnlessKilled(t) ==
  /\ pc[t] = "notifying" /\ stage[t] = "install"
  /\ license' = IF license.valid THEN result[t] ELSE license
  /\ result' = [result EXCEPT ![t] = Unread]
  /\ stage' = [stage EXCEPT ![t] = "reset"]
  /\ UNCHANGED <<hbVars, verdict, failingFor>>

(* _on_heartbeat_success, one statement at a time. *)
InstallLicense(t) ==
  /\ pc[t] = "notifying" /\ stage[t] = "install"
  /\ license' = result[t]
  /\ result' = [result EXCEPT ![t] = Unread]
  /\ stage' = [stage EXCEPT ![t] = "reset"]
  /\ UNCHANGED <<hbVars, verdict, failingFor>>

(* Mutant: the timer goes on after a success. *)
TimerNotReset(t) ==
  /\ pc[t] = "notifying" /\ stage[t] = "reset"
  /\ stage' = [stage EXCEPT ![t] = "refresh"]
  /\ UNCHANGED <<hbVars, verdict, license, failingFor, result>>

ResetGraceTimer(t) ==
  /\ pc[t] = "notifying" /\ stage[t] = "reset"
  /\ failingFor' = NotFailing
  /\ stage' = [stage EXCEPT ![t] = "refresh"]
  /\ UNCHANGED <<hbVars, verdict, license, result>>

(* _concurrency.refresh() writes the lock file and may raise; the beacon    *)
(* is sent from a thread of its own and never does.                         *)
RefreshLock(t) ==
  /\ pc[t] = "notifying" /\ stage[t] = "refresh"
  /\ OnSuccessReturns(t) \/ OnSuccessRaises(t)
  /\ stage' = [stage EXCEPT ![t] = "install"]
  /\ UNCHANGED <<verdict, license, failingFor, result>>

(* Mutant: the second alarm kills, whatever the timer says. *)
SecondAlarmKills(t) ==
  /\ OnFailureReturns(t)
  /\ failingFor' = IF failingFor = NotFailing THEN 0 ELSE failingFor
  /\ license' = IF failingFor = NotFailing THEN license ELSE [license EXCEPT !.valid = FALSE]
  /\ UNCHANGED <<verdict, result, stage>>

(* Mutant: the end of the grace is only logged. *)
AlarmOnlyLogs(t) ==
  /\ OnFailureReturns(t)
  /\ failingFor' = IF failingFor = NotFailing THEN 0 ELSE failingFor
  /\ UNCHANGED <<verdict, license, result, stage>>

(* _on_heartbeat_fail: the first alarm starts the timer, later ones kill    *)
(* the license once the grace is over.                                      *)
OnHeartbeatFail(t) ==
  /\ OnFailureReturns(t)
  /\ failingFor' = IF failingFor = NotFailing THEN 0 ELSE failingFor
  /\ license' = IF failingFor >= HeartbeatGrace
                  THEN [license EXCEPT !.valid = FALSE]
                  ELSE license
  /\ UNCHANGED <<verdict, result, stage>>

HeartbeatStep(t) ==
  \/ Wake(t) /\ UNCHANGED mwVars
  \/ HeartbeatValidate(t)
  \/ RecordSuccess(t) /\ UNCHANGED mwVars
  \/ InstallLicense(t)
  \/ ResetGraceTimer(t)
  \/ RefreshLock(t)
  \/ RecordFailure(t) /\ UNCHANGED mwVars
  \/ OnHeartbeatFail(t)

MwNext ==
  \/ ChangeVerdict
  \/ Tick
  \/ Stop /\ UNCHANGED mwVars
  \/ StopReturns /\ UNCHANGED mwVars
  \/ \E t \in Threads : HeartbeatStep(t) \/ (Start(t) /\ UNCHANGED mwVars)

(* Time passes, a heartbeat thread that can step does, a join returns.      *)
MwFairness ==
  /\ WF_vars(Tick)
  /\ WF_vars(StopReturns /\ UNCHANGED mwVars)
  /\ \A t \in Threads : WF_vars(HeartbeatStep(t))

MwSpec == Init /\ [][MwNext]_vars /\ MwFairness

-----------------------------------------------------------------------------
(* Properties.                                                             *)

(* A thread has installed the license and is about to reset the timer. *)
Settling == \E t \in Threads : pc[t] = "notifying" /\ stage[t] = "reset"

(* Once two loops have shared the counter, the license and the timer,      *)
(* nothing is promised. *)
TrustStatus ==
  IF overlapped THEN "trusted"
  ELSE IF ~license.valid THEN "killed"
  ELSE IF failingFor = NotFailing \/ Settling THEN "trusted"
  ELSE "suspended"

SuspendedFor == IF TrustStatus = "trusted" THEN 0 ELSE failingFor

Watchdog == INSTANCE LicenseWatchdog WITH
  Grace        <- HeartbeatGrace,
  status       <- TrustStatus,
  suspendedFor <- SuspendedFor

(* The callbacks, with their timer shared through a closure and their      *)
(* license through a global, keep the promise of LicenseWatchdog: no       *)
(* license is killed before one unbroken series of alarms has lasted the   *)
(* whole heartbeat grace (license_middleware.py:374-410); as long as       *)
(* stop() and start() never left two loops.                                *)
ImplementsWatchdog == Watchdog!WdSpec

(* The two things the gate looks at agree: while the license is killed or  *)
(* the grace timer runs the heartbeat is unhealthy, but for the moment a   *)
(* success needs to install its license and reset the timer                *)
(* (heartbeat.py:101 before license_middleware.py:409-410).  An alarm of a  *)
(* second loop may set the timer after the success of the first.           *)
TimerRunsWhileUnhealthy ==
  ~overlapped /\ (failingFor # NotFailing \/ ~license.valid) =>
    \/ ~IsHealthy
    \/ \E t \in Threads : pc[t] = "notifying" /\ stage[t] \in {"install", "reset"}

(* If validation fails from some moment on, and nobody stops the           *)
(* heartbeat, the license is killed and stays killed                       *)
(* (license_middleware.py:374-405).                                        *)
FailureKills ==
  <>[](verdict = Invalid /\ running) => <>[](~license.valid /\ ~IsHealthy)

(* If from some moment on the validator always answers with one license,   *)
(* that license is in force for good, whatever was killed or suspended     *)
(* before and whether or not the lock can be refreshed (heartbeat.py:131,  *)
(* license_middleware.py:407-410).  Two loops need a lock that can be      *)
(* refreshed: the failures of both add up to MaxFailures where those of    *)
(* one are reset by its next validation.                                   *)
RecoveryRestores ==
  \A i \in Infos :
    <>[](/\ verdict = i /\ running
         /\ overlapped => \A t \in Threads : pc[t] # "callback_failed")
      => <>[](license = i /\ IsHealthy)

(* "First failure -> starts a grace timer" ... "only kills after 72h" (the *)
(* report, section 15): while the grace lasts the heartbeat does not shut  *)
(* the gate.                                                               *)
GraceIsTolerated ==
  failingFor \in 0..(HeartbeatGrace - 1) /\ license.valid => IsHealthy
=============================================================================
