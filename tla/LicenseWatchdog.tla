-------------------------- MODULE LicenseWatchdog --------------------------
(***************************************************************************)
(* What the heartbeat promises about a running license, without threads,   *)
(* callbacks or counters: a license that can no longer be confirmed is     *)
(* first suspended, it is killed only when one suspension has lasted the   *)
(* whole grace, and a confirmation at any moment restores it.              *)
(***************************************************************************)
EXTENDS Naturals

CONSTANT Grace   \* heartbeat_grace_hours, in ticks

VARIABLES
  status,        \* what is known of the license
  suspendedFor   \* ticks since the suspension began, up to Grace

wdVars == <<status, suspendedFor>>

WdInit == status = "trusted" /\ suspendedFor = 0

Suspend ==
  /\ status = "trusted"
  /\ status' = "suspended"
  /\ suspendedFor' = 0

Pass ==
  /\ status = "suspended"
  /\ suspendedFor < Grace
  /\ suspendedFor' = suspendedFor + 1
  /\ UNCHANGED status

Kill ==
  /\ status = "suspended"
  /\ suspendedFor = Grace
  /\ status' = "killed"
  /\ UNCHANGED suspendedFor

Confirm ==
  /\ status' = "trusted"
  /\ suspendedFor' = 0

WdNext == Suspend \/ Pass \/ Kill \/ Confirm

WdSpec == WdInit /\ [][WdNext]_wdVars
=============================================================================
