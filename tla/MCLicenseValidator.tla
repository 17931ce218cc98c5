------------------------- MODULE MCLicenseValidator -------------------------
(* Small instances of LicenseValidator for TLC. *)
EXTENDS LicenseValidator

CONSTANTS mine, other, m0, m1, m2

OneLicense == {mine}

TwoLicenses == {mine, other}

(* The keys revoke() is called with: by a caller that names the public key *)
(* and by tools/generate_license.py --revoke, which does not. *)
BothKeys == {CheckerKey, FallbackKey}

TheToolsKey == {FallbackKey}

OneMachine == {m0}

ThreeMachines == {m0, m1, m2}

(* A clock that is right, fast by an hour, or slow by two hours. *)
TrueClock == {0}

WrongClock == {-2, 0, 1}
=============================================================================
