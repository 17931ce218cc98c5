-------------------------- MODULE LicenseValidator --------------------------
(***************************************************************************)
(* LicenseValidator.validate of licensing/license_validator.py, layer by   *)
(* layer, against a world that changes between the layers: the time        *)
(* servers come and go, the local clock is corrected, the machine's        *)
(* hardware changes, the process dies, and the operator revokes licenses   *)
(* (RevocationList).  One validation runs at a time, as in the heartbeat.  *)
(* The startup call behaves the same: its result cache is then empty.      *)
(*                                                                         *)
(* Time is true time, in hours.  The local clock shows now + skew; a       *)
(* cached NTP answer is kept as the true time and the skew at which it was *)
(* saved, from which the code's estimate and age follow.                   *)
(***************************************************************************)
EXTENDS RevocationList

CONSTANTS
  Jti,              \* the serial number of the license
  Bound,            \* the machine the license is bound to
  Machines,         \* identities the hardware may have
  Docker,           \* mode = "docker"
  Strict,           \* ntp_strict
  MaxHwidChanges,   \* max_hwid_changes
  ExpiresAt,        \* claims["exp"]
  GracePeriod,      \* grace_period_hours
  OfflineGrace,     \* offline_grace_hours
  Skews,            \* errors the local clock may have
  ClockError,       \* how far apart two of them may be
  MaxTime,          \* bound on time
  MaxMoves,         \* bound on hardware changes
  MaxCrashes,       \* bound on crashes
  NoCache, Torn     \* no usable .ntp_cache; a .hwid_history that is not valid JSON

ASSUME JtiAssumption == Jti \in Jtis /\ Bound \in Machines
ASSUME TornAssumption == Torn \notin Nat
ASSUME HoursAssumption ==
  {ExpiresAt, GracePeriod, OfflineGrace, MaxTime, MaxHwidChanges, MaxMoves, MaxCrashes} \subseteq Nat
ASSUME SkewAssumption ==
  /\ 0 \in Skews /\ Skews \subseteq Int
  /\ ClockError \in Nat
  /\ \A s, t \in Skews : s - t <= ClockError

VARIABLES
  now, skew, ntpUp,   \* environment: true time, error of the local clock, NTP reachable
  machine,            \* environment: generate_hwid()
  moves, crashes,     \* how often each has happened
  cache,              \* .ntp_cache
  history,            \* .hwid_history: the number of migrations, or Torn
  pc,                 \* the layer validate is at, or its outcome
  base,               \* migrations read by _record_hwid_migration
  inGrace,            \* info.in_grace_period
  reason,             \* the layer that refused
  verifiedAt,         \* history: true time of the expiry check
  lastAnswer,         \* history: true time of the last NTP answer
  acceptedOn,         \* history: machines the license was accepted on
  revokedBefore,      \* history: it was on the list when validate began, and the list
                      \* has not been emptied since
  misSigned           \* history: validate has met a list signed with another key

world == <<now, skew, ntpUp, machine, moves, crashes>>

files == <<cache, history>>

call == <<pc, base, inGrace, reason>>

past == <<verifiedAt, lastAnswer, acceptedOn, revokedBefore, misSigned>>

vars == <<listVars, world, files, call, past>>

TypeOK ==
  /\ ListTypeOK
  /\ now \in 0..MaxTime /\ skew \in Skews /\ ntpUp \in BOOLEAN
  /\ machine \in Machines /\ moves \in 0..MaxMoves /\ crashes \in 0..MaxCrashes
  /\ cache = NoCache \/ cache \in [at : 0..MaxTime, skew : Skews]
  /\ history = Torn \/ history \in Nat
  /\ pc \in {"idle", "hwid", "record", "save", "expiry", "revocation", "accepted", "refused"}
  /\ base \in Nat /\ inGrace \in BOOLEAN
  /\ reason \in {"none", "file", "hwid", "time", "expired", "revoked"}
  /\ verifiedAt \in 0..MaxTime /\ lastAnswer \in 0..MaxTime
  /\ acceptedOn \subseteq Machines /\ revokedBefore \in BOOLEAN /\ misSigned \in BOOLEAN

(* A validator is made on the machine the license was issued for, and has  *)
(* reached the time servers once. *)
Init ==
  /\ ListInit
  /\ now = 0 /\ skew = 0 /\ ntpUp = TRUE
  /\ machine = Bound /\ moves = 0 /\ crashes = 0
  /\ cache = [at |-> 0, skew |-> 0]
  /\ history = 0
  /\ pc = "idle" /\ base = 0 /\ inGrace = FALSE /\ reason = "none"
  /\ verifiedAt = 0 /\ lastAnswer = 0
  /\ acceptedOn = {} /\ revokedBefore = FALSE /\ misSigned = FALSE

InCall == pc \notin {"idle", "accepted", "refused"}

Refuse(why) == pc' = "refused" /\ reason' = why

GoTo(layer) == pc' = layer /\ UNCHANGED reason

-----------------------------------------------------------------------------
(* Layers 1 and 2: the file is read, its signature checked, its claims     *)
(* decoded; any failure refuses. *)
Begin ==
  /\ ~InCall
  /\ reason' = "none"
  /\ \/ pc' = "hwid"
     \/ pc' = "refused"
  /\ revokedBefore' = (Jti \in revoked /\ list # Empty)
  /\ misSigned' = HasAnotherKey(list)
  /\ inGrace' = FALSE
  /\ base' = 0
  /\ UNCHANGED <<listVars, world, files, verifiedAt, lastAnswer, acceptedOn>>

(* Layer 3.  An unreadable history counts no migration. *)
Migrations == IF history = Torn THEN 0 ELSE history

VerifyHwid ==
  /\ pc = "hwid"
  /\ \/ /\ Docker \/ machine = Bound
        /\ GoTo("expiry")
        /\ UNCHANGED base
     \/ /\ ~Docker /\ machine # Bound
        /\ Migrations < MaxHwidChanges
        /\ GoTo("record")
        /\ base' = Migrations
     \/ /\ ~Docker /\ machine # Bound
        /\ Migrations >= MaxHwidChanges
        /\ Refuse("hwid")
        /\ UNCHANGED base
  /\ UNCHANGED <<listVars, world, files, inGrace, past>>

(* _record_hwid_migration empties the history before it writes it. *)
RecordOpens ==
  /\ pc = "record"
  /\ history' = Torn
  /\ GoTo("save")
  /\ UNCHANGED <<listVars, world, cache, base, inGrace, past>>

(* Mutant: the entry is not appended. *)
RecordForgets ==
  /\ pc = "save"
  /\ history' = base
  /\ GoTo("expiry")
  /\ UNCHANGED <<listVars, world, cache, base, inGrace, past>>

RecordCloses ==
  /\ pc = "save"
  /\ history' = base + 1
  /\ GoTo("expiry")
  /\ UNCHANGED <<listVars, world, cache, base, inGrace, past>>

(* Layer 4.  The elapsed time is read off the local clock. *)
CacheAge == (now - cache.at) + (skew - cache.skew)

(* Mutant: a cached answer never gets too old. *)
CacheIsPresent == cache # NoCache

CacheIsUsable == cache # NoCache /\ CacheAge <= OfflineGrace

(* Mutant: the last moment of the grace period is one too late. *)
DecideExpiryLate(time) ==
  /\ IF time > ExpiresAt + GracePeriod THEN Refuse("expired") ELSE GoTo("revocation")
  /\ inGrace' = (time >= ExpiresAt)
  /\ verifiedAt' = now

DecideExpiry(time) ==
  /\ IF time >= ExpiresAt + GracePeriod THEN Refuse("expired") ELSE GoTo("revocation")
  /\ inGrace' = (time >= ExpiresAt)
  /\ verifiedAt' = now

(* Mutant: the cache keeps the local time instead of the answer. *)
ExpiryCachesLocalTime ==
  /\ pc = "expiry" /\ ntpUp
  /\ cache' \in {cache, NoCache, [at |-> now + skew, skew |-> skew]}
  /\ lastAnswer' = now
  /\ DecideExpiry(now)
  /\ UNCHANGED <<listVars, world, history, base, acceptedOn, revokedBefore, misSigned>>

(* A cache that cannot be saved is only logged: it is what it was, or what *)
(* was written of it cannot be read. *)
ExpiryByNtp ==
  /\ pc = "expiry" /\ ntpUp
  /\ cache' \in {cache, NoCache, [at |-> now, skew |-> skew]}
  /\ lastAnswer' = now
  /\ DecideExpiry(now)
  /\ UNCHANGED <<listVars, world, history, base, acceptedOn, revokedBefore, misSigned>>

ExpiryByCache ==
  /\ pc = "expiry" /\ ~ntpUp /\ CacheIsUsable
  /\ DecideExpiry(cache.at + CacheAge)
  /\ UNCHANGED <<listVars, world, files, base, lastAnswer, acceptedOn, revokedBefore, misSigned>>

ExpiryByLocalClock ==
  /\ pc = "expiry" /\ ~ntpUp /\ ~CacheIsUsable /\ ~Strict /\ ~Docker
  /\ DecideExpiry(now + skew)
  /\ UNCHANGED <<listVars, world, files, base, lastAnswer, acceptedOn, revokedBefore, misSigned>>

NoTrustedTime ==
  /\ pc = "expiry" /\ ~ntpUp /\ ~CacheIsUsable /\ (Strict \/ Docker)
  /\ Refuse("time")
  /\ UNCHANGED <<listVars, world, files, base, inGrace, past>>

(* Layer 5. *)
CheckRevocation ==
  /\ pc = "revocation"
  /\ Reload
  /\ IF Passes(Jti) THEN GoTo("accepted") ELSE Refuse("revoked")
  /\ acceptedOn' = IF Passes(Jti) THEN acceptedOn \cup {machine} ELSE acceptedOn
  /\ UNCHANGED <<world, files, base, inGrace, verifiedAt, lastAnswer, revokedBefore, misSigned>>

Validate ==
  \/ Begin \/ VerifyHwid \/ RecordOpens \/ RecordCloses
  \/ ExpiryByNtp \/ ExpiryByCache \/ ExpiryByLocalClock \/ NoTrustedTime
  \/ CheckRevocation

-----------------------------------------------------------------------------
(* The environment. *)

Tick ==
  /\ now < MaxTime
  /\ now' = now + 1
  /\ UNCHANGED <<listVars, skew, ntpUp, machine, moves, crashes, files, call, past>>

NetworkChanges ==
  /\ ntpUp' = ~ntpUp
  /\ UNCHANGED <<listVars, now, skew, machine, moves, crashes, files, call, past>>

ClockIsSet ==
  /\ skew' \in Skews \ {skew}
  /\ UNCHANGED <<listVars, now, ntpUp, machine, moves, crashes, files, call, past>>

(* The hardware changes while the process is down. *)
HardwareChanges ==
  /\ ~InCall
  /\ moves < MaxMoves
  /\ moves' = moves + 1
  /\ machine' \in Machines \ {machine}
  /\ pc' = "idle" /\ reason' = "none"
  /\ UNCHANGED <<listVars, now, skew, ntpUp, crashes, files, base, inGrace, past>>

(* The process dies in the middle of a call; if it was saving the cache,   *)
(* the cache is lost. *)
Crash ==
  /\ InCall
  /\ crashes < MaxCrashes
  /\ crashes' = crashes + 1
  /\ cache' \in IF pc = "expiry" /\ ntpUp THEN {cache, NoCache} ELSE {cache}
  /\ pc' = "idle" /\ reason' = "none"
  /\ UNCHANGED <<listVars, now, skew, ntpUp, machine, moves, history, base, inGrace, past>>

Operator ==
  /\ Revoke
  /\ revokedBefore' = (revokedBefore /\ list' # Empty)
  /\ misSigned' = (misSigned \/ HasAnotherKey(list'))
  /\ UNCHANGED <<world, files, call, verifiedAt, lastAnswer, acceptedOn>>

Next ==
  \/ Validate
  \/ Tick \/ NetworkChanges \/ ClockIsSet \/ HardwareChanges \/ Crash
  \/ Operator

Spec == Init /\ [][Next]_vars

-----------------------------------------------------------------------------
(* Properties.                                                             *)

Passed == pc \in {"revocation", "accepted"}

(* However the local clock is set, and whether the time comes from a       *)
(* server, from the cache or from the local clock, the expiry check is off *)
(* by no more than the clock's own error: a license passes it only before  *)
(* the end of its grace period, and is flagged as in grace when it has     *)
(* expired (license_validator.py:169-226, 443-480).                        *)
ExpiryIsRespected ==
  Passed => /\ verifiedAt < ExpiresAt + GracePeriod + ClockError
            /\ inGrace => verifiedAt >= ExpiresAt - ClockError
            /\ ~inGrace => verifiedAt < ExpiresAt + ClockError

(* With strict time a license is accepted only within the offline grace    *)
(* after an answer of a time server, give or take the clock's error,       *)
(* through lost caches and crashes (license_validator.py:177-181, 215-224).*)
OfflineIsBounded ==
  Passed /\ (Strict \/ Docker) => verifiedAt - lastAnswer <= OfflineGrace + ClockError

(* A license that was on the list when validate began is not accepted,     *)
(* unless the list was emptied to be rewritten in the meantime: what was   *)
(* added to it before and after does not matter, and neither does the key  *)
(* it was signed with (license_validator.py:531-533, revocation.py:53-78,  *)
(* 98-107).                                                                *)
RevokedIsRefused == pc = "accepted" => ~revokedBefore

(* A license that nobody revoked is refused as revoked only by a list that *)
(* was signed with another key during that validation: a list that the     *)
(* tool signed with the fallback key refuses every license, and the next   *)
(* revocation with the key of the checker mends it (revocation.py:62-72,   *)
(* 107-121, generate_license.py:314).                                      *)
OnlyRevokedIsRefused == reason = "revoked" => Jti \in revoked \/ misSigned

(* "Maintains a local revocation list (revoked.json) of invalidated        *)
(* license serial numbers" that is "Manually updated via                   *)
(* `python tools/generate_license.py --revoke <jti>`" (revocation.py:4,    *)
(* 12): the license that is refused as revoked is one that was named.      *)
RevocationIsSelective == reason = "revoked" => Jti \in revoked

(* "HWID comparison -- with migration support (1 change allowed)"          *)
(* (license_validator.py:7): the license is accepted on at most            *)
(* max_hwid_changes machines other than its own.                           *)
MigrationsAreLimited ==
  ~Docker => Cardinality(acceptedOn \ {Bound}) <= MaxHwidChanges

(* A migration that was granted lasts: a machine the license was accepted  *)
(* on is not refused for its identity later (license_validator.py:363-387).*)
MigrationLasts == reason = "hwid" => machine \notin acceptedOn
=============================================================================
