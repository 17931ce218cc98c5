------------------------- MODULE MCConcurrencyGuard -------------------------
(* A small instance of ConcurrencyGuard for TLC. *)
EXTENDS ConcurrencyGuard

CONSTANTS i1, i2, i3, machineA, machineB

(* Two instances on one machine and one on another. *)
Three == {i1, i2, i3}

MCHwidOf == [i \in Instances |-> IF i = i3 THEN machineB ELSE machineA]

(* startup_license_check passes heartbeat_interval * 2. *)
TwiceInterval == 2 * Interval
=============================================================================
