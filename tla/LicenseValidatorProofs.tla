----------------------- MODULE LicenseValidatorProofs -----------------------
(***************************************************************************)
(* LicenseValidator for any hours, settings of the clock, outages,         *)
(* machines and revocations: what the error of the clock and the loss of   *)
(* the cache can cost; that exactly the revoked licenses are refused; and  *)
(* that the limit on migrations holds, for one migration through any       *)
(* crashes, for any number of them through none.                           *)
(***************************************************************************)
EXTENDS LicenseValidator, FiniteSetTheorems, TLAPS

(* A cached answer is no younger than the last one. *)
CacheInv == cache # NoCache => cache.at <= lastAnswer

-----------------------------------------------------------------------------
(* Both ways to tell the time without a server are off by no more than the *)
(* error of the local clock. *)
LEMMA ClocksAgree ==
  ASSUME TypeOK
  PROVE  /\ cache # NoCache =>
              /\ cache.at + CacheAge \in Int
              /\ cache.at + CacheAge >= now - ClockError
              /\ cache.at + CacheAge <= now + ClockError
              /\ CacheAge >= now - cache.at - ClockError
         /\ now + skew \in Int
         /\ now + skew >= now - ClockError
         /\ now + skew <= now + ClockError
<1>1. now \in Nat /\ skew \in Skews /\ skew \in Int
  BY HoursAssumption, SkewAssumption DEF TypeOK
<1>2. 0 - skew <= ClockError /\ skew - 0 <= ClockError /\ ClockError \in Nat
  BY <1>1, SkewAssumption
<1>3. ASSUME cache # NoCache
      PROVE  /\ cache.at \in Nat /\ cache.skew \in Int
             /\ skew - cache.skew <= ClockError /\ cache.skew - skew <= ClockError
  <2>1. cache.at \in 0..MaxTime /\ cache.skew \in Skews
    BY <1>3 DEF TypeOK
  <2>2. cache.at \in Nat
    BY <2>1, HoursAssumption
  <2>3. cache.skew \in Int
    BY <2>1, SkewAssumption
  <2>4. skew - cache.skew <= ClockError /\ cache.skew - skew <= ClockError
    BY <2>1, <1>1, SkewAssumption
  <2>5. QED BY <2>2, <2>3, <2>4
<1>4. QED BY <1>1, <1>2, <1>3 DEF CacheAge

(* What the expiry check decides on a time that is off by at most the      *)
(* clock's error. *)
LEMMA DecisionRespectsExpiry ==
  ASSUME TypeOK, NEW time \in Int,
         time >= now - ClockError, time <= now + ClockError,
         DecideExpiry(time)
  PROVE  ExpiryIsRespected'
<1>1. /\ now \in Nat /\ ClockError \in Nat /\ ExpiresAt \in Nat /\ GracePeriod \in Nat
  BY HoursAssumption, SkewAssumption DEF TypeOK
<1>2. verifiedAt' = now /\ inGrace' = (time >= ExpiresAt)
  BY DEF DecideExpiry
<1>3. CASE time >= ExpiresAt + GracePeriod
  BY <1>3 DEF DecideExpiry, Refuse, ExpiryIsRespected, Passed
<1>4. CASE ~(time >= ExpiresAt + GracePeriod)
  <2>1. now < ExpiresAt + GracePeriod + ClockError
    BY <1>1, <1>4
  <2>2. CASE time >= ExpiresAt
    <3>1. inGrace'
      BY <1>2, <2>2, Zenon
    <3>2. now >= ExpiresAt - ClockError
      BY <1>1, <2>2
    <3>3. QED BY <1>2, <2>1, <3>1, <3>2 DEF ExpiryIsRespected
  <2>3. CASE ~(time >= ExpiresAt)
    <3>1. ~inGrace'
      BY <1>2, <2>3, Zenon
    <3>2. now < ExpiresAt + ClockError
      BY <1>1, <2>3
    <3>3. QED BY <1>2, <2>1, <3>1, <3>2 DEF ExpiryIsRespected
  <2>4. QED BY <2>2, <2>3
<1>5. QED BY <1>3, <1>4

-----------------------------------------------------------------------------
(* The type invariant is inductive. *)
LEMMA ListStep ==
  ASSUME ListTypeOK, Revoke
  PROVE  ListTypeOK'
<1>1. ASSUME NEW j \in Jtis, RevokeReads(j)
      PROVE  ListTypeOK'
  <2>1. known' \subseteq Jtis
    BY <1>1 DEF ListTypeOK, RevokeReads, SignedLists
  <2>2. runs' \in 0..MaxRevocations
    BY <1>1, RunsAssumption DEF ListTypeOK, RevokeReads
  <2>3. QED BY <1>1, <2>1, <2>2 DEF ListTypeOK, RevokeReads
<1>2. CASE RevokeOpens
  BY <1>2 DEF ListTypeOK, RevokeOpens
<1>3. CASE RevokeCloses
  <2>1. adding \in Jtis
    BY <1>3 DEF ListTypeOK, RevokeCloses
  <2>2. PICK key \in OperatorKeys : list' = [jtis |-> known \cup {adding}, key |-> key]
    BY <1>3 DEF RevokeCloses
  <2>3. list' \in SignedLists
    BY <2>1, <2>2, KeysAssumption DEF ListTypeOK, SignedLists
  <2>4. QED BY <1>3, <2>1, <2>3 DEF ListTypeOK, RevokeCloses
<1>4. QED BY <1>1, <1>2, <1>3 DEF Revoke

LEMMA ReloadStep ==
  ASSUME ListTypeOK, Reload
  PROVE  ListTypeOK'
BY DEF ListTypeOK, Reload, SignedLists

LEMMA TypeInit == Init => TypeOK
<1> SUFFICES ASSUME Init PROVE TypeOK
  OBVIOUS
<1>1. ListTypeOK
  BY RunsAssumption DEF Init, ListInit, ListTypeOK, SignedLists
<1>2. cache \in [at : 0..MaxTime, skew : Skews]
  BY HoursAssumption, SkewAssumption DEF Init
<1>3. 0 \in 0..MaxTime /\ 0 \in 0..MaxMoves /\ 0 \in 0..MaxCrashes /\ 0 \in Skews
  BY HoursAssumption, SkewAssumption
<1>4. machine \in Machines
  BY JtiAssumption DEF Init
<1>5. QED
  BY <1>1, <1>2, <1>3, <1>4 DEF Init, TypeOK

(* The facts a step needs about the constants. *)
LEMMA Hours ==
  /\ ExpiresAt \in Nat /\ GracePeriod \in Nat /\ OfflineGrace \in Nat
  /\ MaxTime \in Nat /\ MaxMoves \in Nat /\ MaxCrashes \in Nat
BY HoursAssumption

LEMMA DecisionTypes ==
  ASSUME TypeOK, NEW time, DecideExpiry(time)
  PROVE  /\ pc' \in {"refused", "revocation"} /\ verifiedAt' \in 0..MaxTime
         /\ inGrace' \in BOOLEAN
         /\ reason' \in {"none", "file", "hwid", "time", "expired", "revoked"}
BY DEF TypeOK, DecideExpiry, Refuse, GoTo

LEMMA TypeStep == TypeOK /\ [Next]_vars => TypeOK'
<1> SUFFICES ASSUME TypeOK, [Next]_vars PROVE TypeOK'
  OBVIOUS
<1>1. CASE Begin
  <2>1. revokedBefore' \in BOOLEAN
    BY <1>1, Zenon DEF Begin
  <2>2. misSigned' \in BOOLEAN
    BY <1>1, Zenon DEF Begin, HasAnotherKey
  <2>3. QED
    BY <1>1, <2>1, <2>2 DEF TypeOK, Begin, listVars, world, files, ListTypeOK
<1>2. CASE VerifyHwid
  <2>1. Migrations \in Nat
    BY DEF TypeOK, Migrations
  <2>2. QED
    BY <1>2, <2>1 DEF TypeOK, VerifyHwid, GoTo, Refuse, listVars, world, files, past, ListTypeOK
<1>3. CASE RecordOpens
  BY <1>3 DEF TypeOK, RecordOpens, GoTo, listVars, world, past, ListTypeOK
<1>4. CASE RecordCloses
  BY <1>4 DEF TypeOK, RecordCloses, GoTo, listVars, world, past, ListTypeOK
<1>5. CASE ExpiryByNtp
  <2>1. cache' = NoCache \/ cache' \in [at : 0..MaxTime, skew : Skews]
    BY <1>5 DEF TypeOK, ExpiryByNtp
  <2>2. QED
    BY <1>5, <2>1, DecisionTypes DEF TypeOK, ExpiryByNtp, listVars, world, ListTypeOK
<1>6. CASE ExpiryByCache
  BY <1>6, DecisionTypes DEF TypeOK, ExpiryByCache, listVars, world, files, ListTypeOK
<1>7. CASE ExpiryByLocalClock
  BY <1>7, DecisionTypes DEF TypeOK, ExpiryByLocalClock, listVars, world, files, ListTypeOK
<1>8. CASE NoTrustedTime
  BY <1>8 DEF TypeOK, NoTrustedTime, Refuse, listVars, world, files, past, ListTypeOK
<1>9. CASE CheckRevocation
  <2>1. ListTypeOK'
    BY <1>9, ReloadStep DEF TypeOK, CheckRevocation
  <2>2. /\ pc' \in {"accepted", "refused"} /\ acceptedOn' \subseteq Machines
        /\ reason' \in {"none", "file", "hwid", "time", "expired", "revoked"}
    BY <1>9 DEF TypeOK, CheckRevocation, GoTo, Refuse
  <2>3. QED
    BY <1>9, <2>1, <2>2 DEF TypeOK, CheckRevocation, world, files
<1>10. CASE Tick
  <2>1. now' \in 0..MaxTime
    BY <1>10, Hours DEF TypeOK, Tick
  <2>2. QED
    BY <1>10, <2>1 DEF TypeOK, Tick, listVars, files, call, past, ListTypeOK
<1>11. CASE NetworkChanges
  BY <1>11 DEF TypeOK, NetworkChanges, listVars, files, call, past, ListTypeOK
<1>12. CASE ClockIsSet
  BY <1>12 DEF TypeOK, ClockIsSet, listVars, files, call, past, ListTypeOK
<1>13. CASE HardwareChanges
  <2>1. moves' \in 0..MaxMoves
    BY <1>13, Hours DEF TypeOK, HardwareChanges
  <2>2. QED
    BY <1>13, <2>1 DEF TypeOK, HardwareChanges, listVars, files, past, ListTypeOK
<1>14. CASE Crash
  <2>1. crashes' \in 0..MaxCrashes
    BY <1>14, Hours DEF TypeOK, Crash
  <2>2. cache' = NoCache \/ cache' \in [at : 0..MaxTime, skew : Skews]
    BY <1>14 DEF TypeOK, Crash
  <2>3. QED
    BY <1>14, <2>1, <2>2 DEF TypeOK, Crash, listVars, past, ListTypeOK
<1>15. CASE Operator
  <2>1. ListTypeOK'
    BY <1>15, ListStep DEF TypeOK, Operator
  <2>2. QED
    BY <1>15, <2>1 DEF TypeOK, Operator, world, files, call, past
<1>16. CASE UNCHANGED vars
  BY <1>16 DEF TypeOK, vars, listVars, world, files, call, past, ListTypeOK
<1>17. QED
  BY <1>1, <1>2, <1>3, <1>4, <1>5, <1>6, <1>7, <1>8, <1>9, <1>10, <1>11, <1>12,
     <1>13, <1>14, <1>15, <1>16 DEF Next, Validate

(* In every reachable state the variables have their types                 *)
(* (license_validator.py, revocation.py). *)
THEOREM TypeCorrect == Spec => []TypeOK
BY TypeInit, TypeStep, PTL DEF Spec

-----------------------------------------------------------------------------
(* The clock.                                                              *)

IInv == TypeOK /\ CacheInv /\ lastAnswer <= now /\ ExpiryIsRespected /\ OfflineIsBounded

(* A step that leaves the call's outcome, the cache and the times of the   *)
(* past alone keeps the invariant. *)
LEMMA NoDecision ==
  ASSUME IInv, TypeOK', now' >= now,
         Passed' => Passed /\ UNCHANGED <<verifiedAt, inGrace>>,
         UNCHANGED lastAnswer,
         cache' \in {cache, NoCache}
  PROVE  IInv'
<1>1. lastAnswer' <= now'
  BY Hours DEF IInv, TypeOK
<1>2. CacheInv'
  BY DEF IInv, CacheInv
<1>3. ExpiryIsRespected'
  BY DEF IInv, ExpiryIsRespected
<1>4. OfflineIsBounded'
  BY DEF IInv, OfflineIsBounded
<1>5. QED BY <1>1, <1>2, <1>3, <1>4 DEF IInv

LEMMA ClockInit == Init => IInv
<1> SUFFICES ASSUME Init PROVE IInv
  OBVIOUS
<1>1. TypeOK
  BY TypeInit
<1>2. ~Passed
  BY DEF Init, Passed
<1>3. QED
  BY <1>1, <1>2 DEF Init, IInv, CacheInv, ExpiryIsRespected, OfflineIsBounded

LEMMA ClockStep == IInv /\ [Next]_vars => IInv'
<1> SUFFICES ASSUME IInv, [Next]_vars PROVE IInv'
  OBVIOUS
<1> USE DEF IInv
<1>0. TypeOK'
  BY TypeStep
<1>1. /\ now \in Nat /\ lastAnswer \in Nat /\ ClockError \in Nat /\ OfflineGrace \in Nat
  BY Hours, SkewAssumption DEF TypeOK
<1>2. CASE ExpiryByNtp
  <2>1. lastAnswer' = now /\ now' = now
    BY <1>2 DEF ExpiryByNtp, world
  <2>2. CacheInv'
    <3>1. cache' \in {cache, NoCache, [at |-> now, skew |-> skew]}
      BY <1>2 DEF ExpiryByNtp
    <3>2. CASE cache' = cache /\ cache # NoCache
      <4>1. cache.at \in 0..MaxTime /\ cache.at <= lastAnswer
        BY <3>2 DEF TypeOK, CacheInv
      <4>2. QED BY <4>1, <3>2, <2>1, <1>1, Hours DEF CacheInv
    <3>3. CASE cache' = [at |-> now, skew |-> skew]
      BY <3>3, <2>1, <1>1 DEF CacheInv
    <3>4. QED BY <3>1, <3>2, <3>3 DEF CacheInv
  <2>3. DecideExpiry(now)
    BY <1>2 DEF ExpiryByNtp
  <2>4. ExpiryIsRespected'
    BY <2>3, <1>1, DecisionRespectsExpiry
  <2>5. verifiedAt' = now
    BY <2>3 DEF DecideExpiry
  <2>6. OfflineIsBounded'
    BY <2>1, <2>5, <1>1 DEF OfflineIsBounded
  <2>7. QED BY <1>0, <1>1, <2>1, <2>2, <2>4, <2>6
<1>3. CASE ExpiryByCache
  <2>1. UNCHANGED <<now, cache, lastAnswer>>
    BY <1>3 DEF ExpiryByCache, world, files
  <2>2. cache # NoCache /\ CacheAge <= OfflineGrace /\ DecideExpiry(cache.at + CacheAge)
    BY <1>3 DEF ExpiryByCache, CacheIsUsable
  <2>3. ExpiryIsRespected'
    BY <2>2, ClocksAgree, DecisionRespectsExpiry
  <2>4. verifiedAt' = now
    BY <2>2 DEF DecideExpiry
  <2>5. cache.at \in Nat /\ cache.at <= lastAnswer
    BY <2>2, Hours DEF TypeOK, CacheInv
  <2>6. CacheAge \in Int
    <3>1. cache.skew \in Int /\ skew \in Int
      BY <2>2, SkewAssumption DEF TypeOK
    <3>2. QED BY <3>1, <2>5, <1>1 DEF CacheAge
  <2>7. now - lastAnswer <= OfflineGrace + ClockError
    BY <2>2, <2>5, <2>6, <1>1, ClocksAgree
  <2>8. OfflineIsBounded'
    BY <2>1, <2>4, <2>7 DEF OfflineIsBounded
  <2>9. QED BY <1>0, <2>1, <2>3, <2>8 DEF CacheInv
<1>4. CASE ExpiryByLocalClock
  <2>1. UNCHANGED <<now, cache, lastAnswer>>
    BY <1>4 DEF ExpiryByLocalClock, world, files
  <2>2. ~(Strict \/ Docker) /\ DecideExpiry(now + skew)
    BY <1>4 DEF ExpiryByLocalClock
  <2>3. ExpiryIsRespected'
    BY <2>2, ClocksAgree, DecisionRespectsExpiry
  <2>4. OfflineIsBounded'
    BY <2>2 DEF OfflineIsBounded
  <2>5. QED BY <1>0, <2>1, <2>3, <2>4 DEF CacheInv
<1>5. CASE Begin \/ VerifyHwid \/ RecordOpens \/ RecordCloses \/ NoTrustedTime
  <2>1. ~Passed' /\ UNCHANGED <<now, lastAnswer, cache>>
    BY <1>5 DEF Begin, VerifyHwid, RecordOpens, RecordCloses, NoTrustedTime, Passed,
                GoTo, Refuse, world, files, past
  <2>2. QED BY <2>1, <1>0, <1>1, NoDecision
<1>6. CASE CheckRevocation
  <2>1. Passed /\ UNCHANGED <<now, lastAnswer, cache, verifiedAt, inGrace>>
    BY <1>6 DEF CheckRevocation, Passed, world, files
  <2>2. QED BY <2>1, <1>0, <1>1, NoDecision
<1>7. CASE Tick \/ NetworkChanges \/ ClockIsSet \/ Operator \/ UNCHANGED vars
  <2>1. /\ now' \in {now, now + 1}
        /\ UNCHANGED <<pc, lastAnswer, cache, verifiedAt, inGrace>>
    BY <1>7 DEF Tick, NetworkChanges, ClockIsSet, Operator, vars, world, files, call, past
  <2>2. (Passed' <=> Passed) /\ now' >= now
    BY <2>1, <1>1 DEF Passed
  <2>3. QED BY <2>1, <2>2, <1>0, NoDecision
<1>8. CASE HardwareChanges \/ Crash
  <2>1. ~Passed' /\ UNCHANGED <<now, lastAnswer>> /\ cache' \in {cache, NoCache}
    BY <1>8 DEF HardwareChanges, Crash, Passed, files, past
  <2>2. QED BY <2>1, <1>0, <1>1, NoDecision
<1>9. QED
  BY <1>2, <1>3, <1>4, <1>5, <1>6, <1>7, <1>8 DEF Next, Validate

LEMMA ClockInvariant == Spec => []IInv
BY ClockInit, ClockStep, PTL DEF Spec

(* No setting of the clock, outage or crash lets a license pass the expiry *)
(* check past its grace period by more than the clock's own error, or be   *)
(* misreported by more than that (license_validator.py:169-226, 443-480).  *)
THEOREM ExpiryHolds == Spec => []ExpiryIsRespected
<1>1. IInv => ExpiryIsRespected
  BY DEF IInv
<1>2. QED BY <1>1, ClockInvariant, PTL

(* With strict time, a license is never accepted later after the last      *)
(* answer of a time server than the offline grace and the clock's error    *)
(* allow (license_validator.py:177-181, 215-224). *)
THEOREM OfflineEnds == Spec => []OfflineIsBounded
<1>1. IInv => OfflineIsBounded
  BY DEF IInv
<1>2. QED BY <1>1, ClockInvariant, PTL

-----------------------------------------------------------------------------
(* The revocation list, whatever keys the operator signs with.             *)

Entries == IF list \in {Missing, Empty} THEN {} ELSE list.jtis

(* Nothing is on the list that nobody revokes, and nothing that was        *)
(* revoked is lost from it while the operator rewrites it: until the list  *)
(* is emptied it is there, and afterwards revoke() knows it. *)
ListInv ==
  /\ list \in SignedLists => list.jtis \subseteq revoked
  /\ known \subseteq revoked
  /\ inMemory \subseteq revoked
  /\ list = Empty <=> operator = "closing"
  /\ operator # "idle" => revoked \subseteq known
  /\ operator # "closing" => revoked \subseteq Entries

(* What validate has begun with still holds, or the list was emptied; and  *)
(* no list with another key has escaped the call. *)
CallInv ==
  /\ revokedBefore => list # Empty /\ Jti \in revoked
  /\ pc = "accepted" => ~revokedBefore
  /\ InCall /\ HasAnotherKey(list) => misSigned
  /\ reason = "revoked" => Jti \in revoked \/ misSigned

RevocationInv == TypeOK /\ ListInv /\ CallInv

LEMMA ListInitInv == Init => RevocationInv
<1> SUFFICES ASSUME Init PROVE RevocationInv
  OBVIOUS
<1>1. list \in SignedLists => list = [jtis |-> {}, key |-> Unsigned]
  BY FilesAssumption DEF Init, ListInit
<1>2. list # Empty
  <2>1. [jtis |-> {}, key |-> Unsigned] \in SignedLists
    BY DEF SignedLists
  <2> QED
    BY <2>1, FilesAssumption DEF Init, ListInit
<1>3. ListInv
  BY <1>1, <1>2 DEF Init, ListInit, ListInv
<1> QED
  BY <1>3, TypeInit DEF Init, RevocationInv, CallInv, InCall

(* A list that can be read is a signed one.                                *)
LEMMA ListIsSigned == ASSUME TypeOK, list \notin {Missing, Empty} PROVE list \in SignedLists
  BY DEF TypeOK, ListTypeOK

LEMMA OperatorKeepsList ==
  ASSUME TypeOK, ListInv, Revoke
  PROVE  ListInv' /\ revoked \subseteq revoked'
<1>1. ASSUME NEW j \in Jtis, RevokeReads(j) PROVE ListInv' /\ revoked \subseteq revoked'
  <2>1. known' = Entries
    BY <1>1 DEF RevokeReads, Entries
  <2>2. Entries \subseteq revoked
    BY ListIsSigned DEF ListInv, Entries
  <2>3. /\ UNCHANGED <<list, inMemory, revoked>>
        /\ operator = "idle" /\ operator' = "opening"
    BY <1>1 DEF RevokeReads
  <2>4. Entries' = Entries
    BY <2>3 DEF Entries
  <2> QED
    BY <2>1, <2>2, <2>3, <2>4 DEF ListInv
<1>2. CASE RevokeOpens
  <2>1. list' = Empty /\ list' \notin SignedLists
    BY <1>2, FilesAssumption DEF RevokeOpens
  <2>2. /\ UNCHANGED <<known, inMemory, revoked>>
        /\ operator = "opening" /\ operator' = "closing"
    BY <1>2 DEF RevokeOpens
  <2> QED
    BY <2>1, <2>2 DEF ListInv
<1>3. CASE RevokeCloses
  <2>1. adding \in Jtis /\ known \subseteq Jtis
    BY <1>3 DEF RevokeCloses, TypeOK, ListTypeOK
  <2>2. PICK key \in OperatorKeys : list' = [jtis |-> known \cup {adding}, key |-> key]
    BY <1>3 DEF RevokeCloses
  <2>3. /\ revoked' = revoked \cup {adding}
        /\ operator = "closing" /\ operator' = "idle"
        /\ known' = {} /\ inMemory' = inMemory
    BY <1>3 DEF RevokeCloses
  <2>4. list' \in SignedLists
    BY <2>1, <2>2, KeysAssumption DEF SignedLists
  <2>5. Entries' = known \cup {adding} /\ list' # Empty
    BY <2>2, <2>4, FilesAssumption DEF Entries
  <2> QED
    BY <2>2, <2>3, <2>5 DEF ListInv
<1> QED
  BY <1>1, <1>2, <1>3 DEF Revoke

(* What the checker decides on the list as it is. *)
LEMMA CheckerReadsList ==
  ASSUME TypeOK, ListInv, Reload
  PROVE  /\ ListInv' /\ UNCHANGED <<list, operator, revoked>>
         /\ Jti \in revoked /\ list # Empty => ~Passes(Jti)
         /\ ~Passes(Jti) => Jti \in revoked \/ HasAnotherKey(list)
<1>1. UNCHANGED <<list, operator, adding, known, runs, revoked>>
  BY DEF Reload
<1>2. Tampered => HasAnotherKey(list)
  BY ListIsSigned DEF Tampered, HasAnotherKey
<1>3. ~Tampered => inMemory' = Entries
  BY DEF Reload, Entries
<1>4. Entries \subseteq revoked
  BY ListIsSigned DEF ListInv, Entries
<1>5. inMemory' \subseteq revoked
  BY <1>3, <1>4 DEF Reload, ListInv
<1>6. Entries' = Entries
  BY <1>1 DEF Entries
<1>7. ListInv'
  BY <1>1, <1>5, <1>6 DEF ListInv
<1>8. list # Empty => revoked \subseteq Entries
  BY DEF ListInv
<1> QED
  BY <1>1, <1>2, <1>3, <1>4, <1>7, <1>8 DEF Passes

LEMMA RevocationStep ==
  ASSUME RevocationInv, [Next]_vars
  PROVE  RevocationInv'
<1>0. TypeOK /\ TypeOK' /\ ListInv /\ CallInv
  BY TypeStep DEF RevocationInv
<1>1. CASE Operator
  <2>1. ListInv' /\ revoked \subseteq revoked'
    BY <1>0, <1>1, OperatorKeepsList DEF Operator
  <2>2. /\ UNCHANGED <<pc, reason>>
        /\ revokedBefore' => revokedBefore /\ list' # Empty
        /\ misSigned => misSigned'
        /\ HasAnotherKey(list') => misSigned'
    BY <1>1 DEF Operator, call
  <2>3. CallInv'
    BY <1>0, <2>1, <2>2 DEF CallInv, InCall
  <2> QED
    BY <1>0, <2>1, <2>3 DEF RevocationInv
<1>2. CASE CheckRevocation
  <2>1. pc = "revocation" /\ Reload /\ UNCHANGED <<revokedBefore, misSigned>>
    BY <1>2 DEF CheckRevocation
  <2>2. ListInv' /\ UNCHANGED <<list, revoked>>
    BY <1>0, <2>1, CheckerReadsList
  <2>3. CASE Passes(Jti)
    <3>1. ~revokedBefore /\ reason' = reason /\ pc' = "accepted"
      BY <1>0, <1>2, <2>1, <2>3, CheckerReadsList DEF CheckRevocation, GoTo, CallInv
    <3>2. CallInv'
      BY <1>0, <2>1, <2>2, <3>1 DEF CallInv, InCall
    <3> QED
      BY <1>0, <2>2, <3>2 DEF RevocationInv
  <2>4. CASE ~Passes(Jti)
    <3>1. pc' = "refused" /\ (Jti \in revoked \/ HasAnotherKey(list))
      BY <1>0, <1>2, <2>1, <2>4, CheckerReadsList DEF CheckRevocation, Refuse
    <3>2. Jti \in revoked \/ misSigned
      BY <1>0, <2>1, <3>1 DEF CallInv, InCall
    <3>3. CallInv'
      BY <1>0, <2>1, <2>2, <3>1, <3>2 DEF CallInv, InCall
    <3> QED
      BY <1>0, <2>2, <3>3 DEF RevocationInv
  <2> QED
    BY <2>3, <2>4
<1>3. CASE Begin
  <2>1. /\ UNCHANGED <<list, operator, adding, known, runs, inMemory, revoked>>
        /\ reason' = "none" /\ pc' \in {"hwid", "refused"}
        /\ misSigned' = HasAnotherKey(list)
    BY <1>3 DEF Begin, listVars
  <2>2. revokedBefore' => list # Empty /\ Jti \in revoked
    BY <1>3 DEF Begin
  <2>3. ListInv'
    BY <1>0, <2>1 DEF ListInv, Entries
  <2>4. CallInv'
    BY <2>1, <2>2 DEF CallInv
  <2> QED
    BY <1>0, <2>3, <2>4 DEF RevocationInv
<1>4. CASE ~Operator /\ ~CheckRevocation /\ ~Begin
  <2>1. UNCHANGED listVars /\ UNCHANGED <<revokedBefore, misSigned>>
    BY <1>4 DEF Next, Validate, VerifyHwid, RecordOpens, RecordCloses, ExpiryByNtp,
       ExpiryByCache, ExpiryByLocalClock, NoTrustedTime, Tick, NetworkChanges, ClockIsSet,
       HardwareChanges, Crash, vars, past
  <2>2. ListInv'
    BY <1>0, <2>1 DEF listVars, ListInv, Entries
  <2>3. /\ pc' = "accepted" => pc = "accepted"
        /\ InCall' => InCall
    BY <1>4 DEF Next, Validate, VerifyHwid, RecordOpens, RecordCloses, ExpiryByNtp,
       ExpiryByCache, ExpiryByLocalClock, NoTrustedTime, DecideExpiry, Tick, NetworkChanges,
       ClockIsSet, HardwareChanges, Crash, GoTo, Refuse, vars, past, call, InCall
  <2>4. reason' \in {reason, "none", "hwid", "time", "expired"}
    BY <1>4 DEF Next, Validate, VerifyHwid, RecordOpens, RecordCloses, ExpiryByNtp,
       ExpiryByCache, ExpiryByLocalClock, NoTrustedTime, DecideExpiry, Tick, NetworkChanges,
       ClockIsSet, HardwareChanges, Crash, GoTo, Refuse, vars, call
  <2>5. CallInv'
    BY <1>0, <2>1, <2>3, <2>4 DEF listVars, CallInv
  <2> QED
    BY <1>0, <2>2, <2>5 DEF RevocationInv
<1> QED
  BY <1>1, <1>2, <1>3, <1>4

(* For any licenses, any number of revocations, whatever keys they are     *)
(* signed with, and any interleaving with them: a license that was on the  *)
(* list is refused, and one that nobody revoked is refused as revoked only *)
(* by a list that was signed with another key                              *)
(* (license_validator.py:531-533, revocation.py:53-121).                   *)
THEOREM RevocationHolds == Spec => [](RevokedIsRefused /\ OnlyRevokedIsRefused)
<1>1. RevocationInv /\ [Next]_vars => RevocationInv'
  BY RevocationStep
<1>2. RevocationInv => RevokedIsRefused /\ OnlyRevokedIsRefused
  BY DEF RevocationInv, CallInv, RevokedIsRefused, OnlyRevokedIsRefused
<1> QED
  BY <1>1, <1>2, ListInitInv, PTL DEF Spec

(* As long as every revocation is signed with the key of the checker, only *)
(* the licenses that were named are refused as revoked; the tool of the    *)
(* repository signs with another (generate_license.py:314).                *)
THEOREM RightKeyIsSelective ==
  FallbackKey \notin OperatorKeys => (Spec => []RevocationIsSelective)
<1> DEFINE RightKey == list \in SignedLists => list.key \in {CheckerKey, Unsigned}
           KeyInv == RightKey /\ ~misSigned
<1> SUFFICES ASSUME FallbackKey \notin OperatorKeys
    PROVE Spec => []RevocationIsSelective
  OBVIOUS
<1>1. Init => KeyInv
  BY FilesAssumption DEF Init, ListInit
<1>2. ASSUME RevocationInv, KeyInv, [Next]_vars PROVE KeyInv'
  <2>1. RightKey'
    <3>1. CASE RevokeCloses
      <4>1. PICK key \in OperatorKeys : list' = [jtis |-> known \cup {adding}, key |-> key]
        BY <3>1 DEF RevokeCloses
      <4> QED
        BY <4>1, KeysAssumption
    <3>2. CASE ~RevokeCloses
      <4>1. list' \in {list, Empty}
        BY <1>2, <3>2 DEF Next, Validate, Begin, VerifyHwid, RecordOpens, RecordCloses,
           ExpiryByNtp, ExpiryByCache, ExpiryByLocalClock, NoTrustedTime, CheckRevocation, Reload,
           Tick, NetworkChanges, ClockIsSet, HardwareChanges, Crash, Operator, Revoke,
           RevokeReads, RevokeOpens, vars, listVars
      <4> QED
        BY <1>2, <4>1, FilesAssumption
    <3> QED
      BY <3>1, <3>2
  <2>2. ~HasAnotherKey(list) /\ ~HasAnotherKey(list')
    BY <1>2, <2>1 DEF HasAnotherKey
  <2>3. misSigned' => misSigned \/ HasAnotherKey(list) \/ HasAnotherKey(list')
    BY <1>2, Zenon DEF Next, Validate, Begin, VerifyHwid, RecordOpens, RecordCloses, ExpiryByNtp,
       ExpiryByCache, ExpiryByLocalClock, NoTrustedTime, CheckRevocation, Tick, NetworkChanges,
       ClockIsSet, HardwareChanges, Crash, Operator, vars, past
  <2> QED
    BY <1>2, <2>1, <2>2, <2>3
<1>3. RevocationInv /\ [Next]_vars => RevocationInv'
  BY RevocationStep
<1>4. RevocationInv /\ KeyInv => RevocationIsSelective
  BY DEF RevocationInv, CallInv, RevocationIsSelective
<1> QED
  BY <1>1, <1>2, <1>3, <1>4, ListInitInv, PTL DEF Spec

-----------------------------------------------------------------------------
(* Migrations, for a validator that allows one.                            *)

Others == acceptedOn \ {Bound}

(* A migration is on record. *)
Migrated == history # Torn /\ history >= 1

(* Once the license was accepted elsewhere the history says so for good,   *)
(* and nobody gets to record another machine over it. *)
MigrationInv ==
  /\ Others = {} \/ (Migrated /\ \E m \in Machines : Others = {m})
  /\ pc \in {"record", "save"} => Others = {}
  /\ pc \in {"expiry", "revocation"} /\ machine # Bound => Others = {} /\ Migrated

MigInv == TypeOK /\ MigrationInv

LEMMA MigrationStep ==
  ASSUME MaxHwidChanges = 1, ~Docker, MigInv, [Next]_vars
  PROVE  MigInv'
<1>0. TypeOK /\ TypeOK' /\ MigrationInv
  BY TypeStep DEF MigInv
<1>1. CASE VerifyHwid
  <2>0. UNCHANGED <<acceptedOn, machine, history>>
    BY <1>1 DEF VerifyHwid, world, files, past
  <2>1. pc' = "record" => Others = {}
    <3>1. pc' = "record" => Migrations < 1
      BY <1>1 DEF VerifyHwid, GoTo, Refuse
    <3>2. Migrated => Migrations >= 1 /\ Migrations \in Nat
      BY <1>0 DEF Migrated, Migrations, TypeOK
    <3> QED
      BY <1>0, <3>1, <3>2 DEF MigrationInv
  <2>2. pc' \in {"record", "refused"} \/ (pc' = "expiry" /\ machine = Bound)
    BY <1>1 DEF VerifyHwid, GoTo, Refuse
  <2> QED
    BY <1>0, <2>0, <2>1, <2>2 DEF MigInv, MigrationInv, Others, Migrated
<1>2. CASE RecordOpens
  <2>1. pc = "record" /\ pc' = "save" /\ UNCHANGED acceptedOn
    BY <1>2 DEF RecordOpens, GoTo, past
  <2> QED
    BY <1>0, <2>1 DEF MigInv, MigrationInv, Others
<1>3. CASE RecordCloses
  <2>1. pc = "save" /\ pc' = "expiry" /\ UNCHANGED acceptedOn /\ history' = base + 1 /\ base \in Nat
    BY <1>0, <1>3 DEF RecordCloses, GoTo, past, TypeOK
  <2>2. Migrated'
    BY <2>1, TornAssumption DEF Migrated
  <2> QED
    BY <1>0, <2>1, <2>2 DEF MigInv, MigrationInv, Others
<1>4. CASE CheckRevocation
  <2>1. /\ pc = "revocation" /\ pc' \in {"accepted", "refused"}
        /\ UNCHANGED <<machine, history>>
        /\ acceptedOn' = acceptedOn \/ acceptedOn' = acceptedOn \cup {machine}
    BY <1>4 DEF CheckRevocation, GoTo, Refuse, world, files
  <2>2. CASE machine = Bound
    BY <1>0, <2>1, <2>2 DEF MigInv, MigrationInv, Others, Migrated
  <2>3. CASE machine # Bound
    <3>1. Others = {} /\ Migrated /\ machine \in Machines
      BY <1>0, <2>1, <2>3 DEF MigrationInv, TypeOK
    <3>2. Others' = {} \/ Others' = {machine}
      BY <2>1, <2>3, <3>1 DEF Others
    <3> QED
      BY <1>0, <2>1, <3>1, <3>2 DEF MigInv, MigrationInv, Migrated
  <2> QED
    BY <2>2, <2>3
<1>5. CASE ~(VerifyHwid \/ RecordOpens \/ RecordCloses \/ CheckRevocation)
  <2>1. UNCHANGED <<acceptedOn, history>>
    BY <1>5 DEF Next, Validate, Begin, ExpiryByNtp, ExpiryByCache, ExpiryByLocalClock,
       NoTrustedTime, Tick, NetworkChanges, ClockIsSet, HardwareChanges, Crash, Operator,
       vars, files, past
  <2>2. pc' \in {"record", "save"} => pc' = pc
    BY <1>5 DEF Next, Validate, Begin, ExpiryByNtp, ExpiryByCache, ExpiryByLocalClock,
       NoTrustedTime, DecideExpiry, Tick, NetworkChanges, ClockIsSet, HardwareChanges, Crash,
       Operator, GoTo, Refuse, vars, call
  <2>3. pc' \in {"expiry", "revocation"} => pc \in {"expiry", "revocation"} /\ machine' = machine
    BY <1>5 DEF Next, Validate, Begin, ExpiryByNtp, ExpiryByCache, ExpiryByLocalClock,
       NoTrustedTime, DecideExpiry, Tick, NetworkChanges, ClockIsSet, HardwareChanges, Crash,
       Operator, GoTo, Refuse, vars, call, world
  <2> QED
    BY <1>0, <2>1, <2>2, <2>3 DEF MigInv, MigrationInv, Others, Migrated
<1> QED
  BY <1>1, <1>2, <1>3, <1>4, <1>5

(* A validator that allows one migration - as every caller of it in the    *)
(* repository does - accepts a license on one machine beside its own,      *)
(* however often the machine changes and whenever the process dies         *)
(* (license_validator.py:363-436). *)
THEOREM OneMigration ==
  MaxHwidChanges = 1 => (Spec => []MigrationsAreLimited)
<1> SUFFICES ASSUME MaxHwidChanges = 1 PROVE Spec => []MigrationsAreLimited
  OBVIOUS
<1>1. CASE Docker
  <2>1. MigrationsAreLimited
    BY <1>1 DEF MigrationsAreLimited
  <2> QED
    BY <2>1, PTL
<1>2. CASE ~Docker
  <2>1. Init => MigInv
    BY TypeInit DEF Init, MigInv, MigrationInv, Others
  <2>2. MigInv /\ [Next]_vars => MigInv'
    BY <1>2, MigrationStep
  <2>3. MigInv => MigrationsAreLimited
    <3> SUFFICES ASSUME MigInv PROVE Cardinality(Others) <= 1
      BY DEF MigrationsAreLimited, Others
    <3>1. CASE Others = {}
      BY <3>1, FS_EmptySet
    <3>2. CASE \E m \in Machines : Others = {m}
      BY <3>2, FS_Singleton
    <3> QED
      BY <3>1, <3>2 DEF MigInv, MigrationInv
  <2> QED
    BY <2>1, <2>2, <2>3, PTL DEF Spec
<1> QED
  BY <1>1, <1>2

-----------------------------------------------------------------------------
(* Migrations, for any number of them and a process that does not die      *)
(* while it records one.                                                   *)

(* The history counts every machine the license was accepted on, and the   *)
(* one it is about to be accepted on. *)
CountedInv ==
  /\ IsFiniteSet(Others) /\ crashes = 0
  /\ pc \in {"record", "save"} => base < MaxHwidChanges /\ Cardinality(Others) <= base
  /\ pc # "save" => history # Torn /\ history <= MaxHwidChanges /\ Cardinality(Others) <= history
  /\ pc \in {"expiry", "revocation"} /\ machine # Bound => Cardinality(Others) + 1 <= history

LEMMA CountedStep ==
  ASSUME MaxCrashes = 0, ~Docker, TypeOK, CountedInv, [Next]_vars
  PROVE  CountedInv'
<1>0. /\ base \in Nat /\ MaxHwidChanges \in Nat
      /\ IsFiniteSet(Others) /\ Cardinality(Others) \in Nat
      /\ pc # "save" => history \in Nat
  BY HoursAssumption, FS_CardinalityType DEF TypeOK, CountedInv
<1>1. CASE VerifyHwid
  <2>1. /\ UNCHANGED <<acceptedOn, machine, history, crashes>> /\ pc = "hwid"
        /\ history # Torn /\ Migrations = history
    BY <1>1 DEF VerifyHwid, world, files, past, CountedInv, Migrations
  <2>2. \/ pc' = "refused" \/ (pc' = "expiry" /\ machine = Bound)
        \/ pc' = "record" /\ base' = history /\ history < MaxHwidChanges
    BY <1>1, <2>1 DEF VerifyHwid, GoTo, Refuse
  <2> QED
    BY <1>0, <2>1, <2>2 DEF CountedInv, Others
<1>2. CASE RecordOpens
  <2>1. pc = "record" /\ pc' = "save" /\ UNCHANGED <<acceptedOn, machine, crashes, base>>
    BY <1>2 DEF RecordOpens, GoTo, past, world
  <2> QED
    BY <1>0, <2>1 DEF CountedInv, Others
<1>3. CASE RecordCloses
  <2>1. /\ pc = "save" /\ pc' = "expiry" /\ history' = base + 1
        /\ UNCHANGED <<acceptedOn, machine, crashes>>
    BY <1>3 DEF RecordCloses, GoTo, past, world
  <2>2. history' # Torn
    BY <1>0, <2>1, TornAssumption
  <2> QED
    BY <1>0, <2>1, <2>2 DEF CountedInv, Others
<1>4. CASE CheckRevocation
  <2>1. /\ pc = "revocation" /\ pc' \in {"accepted", "refused"}
        /\ UNCHANGED <<machine, history, crashes>>
        /\ acceptedOn' = acceptedOn \/ acceptedOn' = acceptedOn \cup {machine}
    BY <1>4 DEF CheckRevocation, GoTo, Refuse, world, files
  <2>2. CASE Others' = Others
    BY <1>0, <2>1, <2>2 DEF CountedInv
  <2>3. CASE machine # Bound /\ Others' = Others \cup {machine}
    <3>1. IsFiniteSet(Others') /\ Cardinality(Others') <= Cardinality(Others) + 1
          /\ Cardinality(Others') \in Nat
      <4>1. IsFiniteSet(Others \cup {machine})
            /\ Cardinality(Others \cup {machine}) = IF machine \in Others THEN Cardinality(Others)
                                                    ELSE Cardinality(Others) + 1
        BY <1>0, FS_AddElement
      <4> QED
        BY <1>0, <2>3, <4>1
    <3> QED
      BY <1>0, <2>1, <2>3, <3>1 DEF CountedInv
  <2>4. Others' = Others \/ (machine # Bound /\ Others' = Others \cup {machine})
    BY <2>1 DEF Others
  <2> QED
    BY <2>2, <2>3, <2>4
<1>5. CASE ~(VerifyHwid \/ RecordOpens \/ RecordCloses \/ CheckRevocation)
  <2>1. UNCHANGED <<acceptedOn, history>>
    BY <1>5 DEF Next, Validate, Begin, ExpiryByNtp, ExpiryByCache, ExpiryByLocalClock,
       NoTrustedTime, Tick, NetworkChanges, ClockIsSet, HardwareChanges, Crash, Operator,
       vars, files, past
  <2>2. ~Crash
    BY DEF Crash, CountedInv
  <2>3. crashes' = crashes
    BY <1>5, <2>2 DEF Next, Validate, Begin, ExpiryByNtp, ExpiryByCache, ExpiryByLocalClock,
       NoTrustedTime, Tick, NetworkChanges, ClockIsSet, HardwareChanges, Operator,
       vars, world
  <2>4. pc' \in {"record", "save"} => pc' = pc /\ base' = base
    BY <1>5, <2>2 DEF Next, Validate, Begin, ExpiryByNtp, ExpiryByCache, ExpiryByLocalClock,
       NoTrustedTime, DecideExpiry, Tick, NetworkChanges, ClockIsSet, HardwareChanges,
       Operator, GoTo, Refuse, vars, call
  <2>5. pc = "save" => pc' = "save"
    BY <1>5, <2>2 DEF Next, Validate, Begin, InCall, ExpiryByNtp, ExpiryByCache,
       ExpiryByLocalClock, NoTrustedTime, Tick, NetworkChanges, ClockIsSet, HardwareChanges,
       Operator, vars, call
  <2>6. pc' \in {"expiry", "revocation"} => pc \in {"expiry", "revocation"} /\ machine' = machine
    BY <1>5, <2>2 DEF Next, Validate, Begin, ExpiryByNtp, ExpiryByCache, ExpiryByLocalClock,
       NoTrustedTime, DecideExpiry, Tick, NetworkChanges, ClockIsSet, HardwareChanges,
       Operator, GoTo, Refuse, vars, call, world
  <2>7. Others' = Others
    BY <2>1 DEF Others
  <2> QED
    BY <2>1, <2>3, <2>4, <2>5, <2>6, <2>7 DEF CountedInv
<1> QED
  BY <1>1, <1>2, <1>3, <1>4, <1>5

(* A process that never dies keeps any limit on migrations, however the    *)
(* machine changes and whatever the later layers say of a migration that   *)
(* has been recorded (license_validator.py:363-436).                       *)
THEOREM MigrationsAreCounted ==
  MaxCrashes = 0 => (Spec => []MigrationsAreLimited)
<1> SUFFICES ASSUME MaxCrashes = 0 PROVE Spec => []MigrationsAreLimited
  OBVIOUS
<1>1. CASE Docker
  <2>1. MigrationsAreLimited
    BY <1>1 DEF MigrationsAreLimited
  <2> QED
    BY <2>1, PTL
<1>2. CASE ~Docker
  <2>1. Init => TypeOK /\ CountedInv
    <3> SUFFICES ASSUME Init PROVE CountedInv
      BY TypeInit
    <3>1. Others = {}
      BY DEF Init, Others
    <3>2. IsFiniteSet(Others) /\ Cardinality(Others) = 0
      BY <3>1, FS_EmptySet
    <3> QED
      BY <3>2, HoursAssumption, TornAssumption DEF Init, CountedInv
  <2>2. TypeOK /\ CountedInv /\ [Next]_vars => TypeOK' /\ CountedInv'
    BY <1>2, TypeStep, CountedStep
  <2>3. TypeOK /\ CountedInv => MigrationsAreLimited
    <3> SUFFICES ASSUME TypeOK, CountedInv PROVE Cardinality(Others) <= MaxHwidChanges
      BY DEF MigrationsAreLimited, Others
    <3>1. Cardinality(Others) \in Nat /\ base \in Nat /\ MaxHwidChanges \in Nat
          /\ (history # Torn => history \in Nat)
      BY HoursAssumption, FS_CardinalityType DEF TypeOK, CountedInv
    <3>2. CASE pc = "save"
      BY <3>1, <3>2 DEF CountedInv
    <3>3. CASE pc # "save"
      BY <3>1, <3>3 DEF CountedInv
    <3> QED
      BY <3>2, <3>3
  <2> QED
    BY <2>1, <2>2, <2>3, PTL DEF Spec
<1> QED
  BY <1>1, <1>2
=============================================================================
