------------------------ MODULE MCLicenseMiddleware ------------------------
(* Small instances of LicenseMiddleware for TLC. *)
EXTENDS LicenseMiddleware

CONSTANTS t1, t2, refused

MCThreads == {t1, t2}

License(tier, grace) == [valid |-> TRUE, tier |-> tier, in_grace_period |-> grace]

(* A license renewed to a better tier, and one that has expired into its grace. *)
MCInfos == {License("standard", FALSE), License("enterprise", TRUE)}
=============================================================================
