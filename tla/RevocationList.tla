--------------------------- MODULE RevocationList ---------------------------
(***************************************************************************)
(* licensing/revocation.py: the file revoked.json, the operator who adds   *)
(* serial numbers to it with revoke(), and the checker inside the          *)
(* validator that reloads it on every validation.  revoke() empties the    *)
(* file before it writes it, with no lock against the checker.             *)
(*                                                                         *)
(* The signature of the list stands for the key it was made with: the one  *)
(* derived from the public key, the built-in fallback key of a caller that *)
(* names no public key, as tools/generate_license.py --revoke does         *)
(* (generate_license.py:314), or Unsigned for a list with no signature.    *)
(***************************************************************************)
EXTENDS Integers, FiniteSets

CONSTANTS
  Jtis,             \* serial numbers of licenses
  CheckerKey,       \* the key of the checker, made from public_key.pem
  FallbackKey,      \* the built-in key
  OperatorKeys,     \* the keys revoke() is made to sign with
  Unsigned,         \* no signature
  MaxRevocations,   \* bound on the runs of revoke()
  Missing, Empty,   \* no revoked.json; one that is not valid JSON
  Nobody            \* no serial number

ASSUME RunsAssumption == MaxRevocations \in Nat
ASSUME KeysAssumption == OperatorKeys \subseteq {CheckerKey, FallbackKey}

VARIABLES
  list,       \* revoked.json
  operator,   \* where revoke() is
  adding,     \* the serial number it adds
  known,      \* the list as revoke() read it
  runs,       \* runs of revoke() so far
  inMemory,   \* _revoked of the checker
  revoked     \* history: serial numbers whose revoke() has returned

listVars == <<list, operator, adding, known, runs, inMemory, revoked>>

SignedLists == [jtis : SUBSET Jtis, key : {CheckerKey, FallbackKey, Unsigned}]

HasAnotherKey(file) == file \in SignedLists /\ file.key \notin {CheckerKey, Unsigned}

ASSUME FilesAssumption == Missing # Empty /\ {Missing, Empty} \cap SignedLists = {}

ListTypeOK ==
  /\ list \in {Missing, Empty} \/ list \in SignedLists
  /\ operator \in {"idle", "opening", "closing"}
  /\ adding \in IF operator = "idle" THEN {Nobody} ELSE Jtis
  /\ known \subseteq Jtis
  /\ runs \in 0..MaxRevocations
  /\ inMemory \subseteq Jtis
  /\ revoked \subseteq Jtis

ListInit ==
  /\ list \in {Missing, [jtis |-> {}, key |-> Unsigned]}
  /\ operator = "idle"
  /\ adding = Nobody
  /\ known = {}
  /\ runs = 0
  /\ inMemory = {}
  /\ revoked = {}

-----------------------------------------------------------------------------
(* revoke(): an unreadable list makes it raise before it writes.           *)

RevokeReads(j) ==
  /\ operator = "idle"
  /\ runs < MaxRevocations
  /\ list # Empty
  /\ known' = IF list = Missing THEN {} ELSE list.jtis
  /\ adding' = j
  /\ runs' = runs + 1
  /\ operator' = "opening"
  /\ UNCHANGED <<list, inMemory, revoked>>

RevokeOpens ==
  /\ operator = "opening"
  /\ list' = Empty
  /\ operator' = "closing"
  /\ UNCHANGED <<adding, known, runs, inMemory, revoked>>

RevokeCloses ==
  /\ operator = "closing"
  /\ \E key \in OperatorKeys : list' = [jtis |-> known \cup {adding}, key |-> key]
  /\ revoked' = revoked \cup {adding}
  /\ operator' = "idle"
  /\ adding' = Nobody
  /\ known' = {}
  /\ UNCHANGED <<runs, inMemory>>

Revoke == RevokeOpens \/ RevokeCloses \/ \E j \in Jtis : RevokeReads(j)

-----------------------------------------------------------------------------
(* The checker: _load() raises for a wrong signature, and takes a missing  *)
(* or unreadable list for an empty one.  A license without a serial number *)
(* passes check() and is left out.                                         *)

(* Mutant: an unreadable list is an error. *)
TamperedOrUnreadable ==
  list = Empty \/ (list # Missing /\ list.key \notin {CheckerKey, Unsigned})

Tampered == list \notin {Missing, Empty} /\ list.key \notin {CheckerKey, Unsigned}

(* Mutant: the list is loaded once and for all. *)
NoReload == UNCHANGED listVars

Reload ==
  /\ inMemory' = IF Tampered THEN inMemory
                 ELSE IF list \in {Missing, Empty} THEN {} ELSE list.jtis
  /\ UNCHANGED <<list, operator, adding, known, runs, revoked>>

(* Whether reload() and then check(jti) return, in the step that reloads. *)
Passes(j) == ~Tampered /\ j \notin inMemory'
=============================================================================
