-------------------------- MODULE IntegrityChecker --------------------------
(***************************************************************************)
(* licensing/integrity.py.  An installation `v` has the monitored files    *)
(* v.present, of which v.altered differ from those the license was issued  *)
(* with.  startup_license_check makes a checker, gives it the hashes of    *)
(* the license, if there are any, and enforces at once.                    *)
(***************************************************************************)
(* The reference is that of the license, or the checker's own baseline:    *)
(* the files as they were found a moment before. *)
Tampered(v, hashed) == IF hashed = {} THEN {} ELSE v.present \cap v.altered \cap hashed

(* verify(): a build with no source file left passes, as nothing of it is  *)
(* compared. *)
Verify(v, hashed) == Tampered(v, hashed) = {}
=============================================================================
