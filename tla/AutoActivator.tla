---------------------------- MODULE AutoActivator ----------------------------
(***************************************************************************)
(* First-run activation in containers: activate_if_needed of               *)
(* licensing/auto_activator.py, called by docker_entrypoint.py at every    *)
(* boot, and the check of the activation that startup_license_check makes  *)
(* when the application starts.  The replicas share one activation.json on *)
(* a volume; the volume may move with a container to another host.         *)
(*                                                                         *)
(* Writing the file is four steps: open(.., "w") empties it, flock waits   *)
(* for the lock, LOCK_UN gives it up, and the text, which is shorter than  *)
(* the buffer of the file, reaches it when the file is closed.  Under the  *)
(* lock itself nothing is read or written: it makes boots wait for each    *)
(* other, and protects nothing.                                            *)
(*                                                                         *)
(* A license stands for its payload and its jti; the HMAC of a record is   *)
(* the license its key was derived from.  A record is written whole, so    *)
(* its HMAC matches exactly when the license file is still that one.  One  *)
(* unit of the clock is more than the 300 s of drift that are tolerated.   *)
(***************************************************************************)
EXTENDS Integers, FiniteSets

CONSTANTS
  Replicas,      \* containers
  HostOf,        \* the host of each replica, whose hardware id it detects
  Limit,         \* activation_limit of the license
  MaxBoots,      \* bound on the number of boots
  MaxIncidents,  \* bound on containers that die while booting, corrections of the
                 \* clock by more than 300 s and replacements of license.key, together
  MaxRenewals,   \* bound on replacements of license.key
  Nobody,        \* no replica
  Absent, Empty, Garbled   \* no activation.json; one cut to length 0; invalid JSON

ASSUME LimitAssumption == Limit \in Nat \ {0}
ASSUME NobodyAssumption == Nobody \notin Replicas
ASSUME BoundsAssumption ==
  {MaxBoots, MaxIncidents, MaxRenewals} \subseteq Nat

VARIABLES
  file,       \* activation.json
  lockedBy,   \* the replica that holds the flock on it
  license,    \* license.key: the renewals so far
  clock,      \* time.gmtime()
  pc,         \* where each replica is
  draft,      \* the record a replica is writing
  boots, incidents,   \* how often each has happened
  granted,    \* history: hosts the application has run on
  bound,      \* history: hosts that an activation was written for
  recorded,   \* history: boots that have written the record, since the last activation
  disturbed   \* history: how the count of the activations has been lost

vars == <<file, lockedBy, license, clock, pc, draft, boots, incidents,
          granted, bound, recorded, disturbed>>

Hosts == {HostOf[r] : r \in Replicas}

Record == [host : Hosts, jti : Nat, key : Nat, count : Nat, boot : Nat, seen : Nat]

NoRecord == {Absent, Empty, Garbled}

(* The three are told apart from each other, and from any record.          *)
ASSUME ContentsAssumption ==
  /\ Absent # Empty /\ Absent # Garbled /\ Empty # Garbled
  /\ \A content \in NoRecord : content \notin Record

Readable == file \notin NoRecord

(* Between reading the file and opening it to write; from then on until it *)
(* is closed. *)
Decided(r) == pc[r] \in {"rewrite", "write"}

Writing(r) == pc[r] \in {"rewrite_queue", "rewrite_locked", "flush",
                         "write_queue", "write_locked", "save"}

Booting(r) == pc[r] \notin {"off", "running", "blocked", "tampered"}

TypeOK ==
  /\ file \in NoRecord \/ file \in Record
  /\ license \in 0..MaxRenewals
  /\ clock \in 0..1
  /\ lockedBy \in Replicas \cup {Nobody}
  /\ pc \in [Replicas -> {"off", "check", "verify", "activate",
                          "rewrite", "rewrite_queue", "rewrite_locked", "flush", "match",
                          "write", "write_queue", "write_locked", "save",
                          "start", "running", "blocked", "tampered"}]
  /\ draft \in [Replicas -> Record \cup {Absent}]
  /\ boots \in 0..MaxBoots /\ incidents \in 0..MaxIncidents
  /\ granted \subseteq Hosts /\ bound \subseteq Hosts
  /\ recorded \in Nat
  /\ disturbed \subseteq {"race", "crash", "home"}

Init ==
  /\ file = Absent
  /\ lockedBy = Nobody
  /\ license = 0
  /\ clock = 0
  /\ pc = [r \in Replicas |-> "off"]
  /\ draft = [r \in Replicas |-> Absent]
  /\ boots = 0 /\ incidents = 0
  /\ granted = {} /\ bound = {}
  /\ recorded = 0
  /\ disturbed = {}

GoTo(r, place) == pc' = [pc EXCEPT ![r] = place]

environment == <<license, clock, boots, incidents>>

history == <<granted, bound, recorded, disturbed>>

(* A replica decides while another one writes, or opens the file that      *)
(* another one has decided about: one of them acts on what is no longer    *)
(* there. *)
Disturb(how, really) == disturbed' = IF really THEN disturbed \cup {how} ELSE disturbed

DecideBeside(r) == Disturb("race", \E s \in Replicas \ {r} : Writing(s))

OpenBeside(r) == Disturb("race", \E s \in Replicas \ {r} : Decided(s) \/ Writing(s))

Incident == incidents < MaxIncidents /\ incidents' = incidents + 1

-----------------------------------------------------------------------------
(* docker_entrypoint.py *)

Boot(r) ==
  /\ pc[r] = "off"
  /\ boots < MaxBoots
  /\ boots' = boots + 1
  /\ GoTo(r, "check")
  /\ UNCHANGED <<file, lockedBy, license, clock, draft, incidents, history>>

(* activate_if_needed *)
CheckActivated(r) ==
  /\ pc[r] = "check"
  /\ GoTo(r, IF file = Absent THEN "activate" ELSE "verify")
  /\ UNCHANGED <<file, lockedBy, draft, environment, history>>

-----------------------------------------------------------------------------
(* verify_activation: an unreadable file and a clock that went back are    *)
(* ActivationErrors, which lead to activate; an HMAC that differs is not.  *)

VerifyFails(r) ==
  /\ pc[r] = "verify"
  /\ \/ ~Readable
     \/ Readable /\ file.key = license /\ file.seen > clock
  /\ GoTo(r, "activate")
  /\ UNCHANGED <<file, lockedBy, draft, environment, history>>

(* Mutant: a file that cannot be read counts as tampered with. *)
UnreadableIsTampered(r) ==
  /\ pc[r] = "verify"
  /\ Readable => file.key # license
  /\ GoTo(r, "tampered")
  /\ UNCHANGED <<file, lockedBy, draft, environment, history>>

VerifyTampered(r) ==
  /\ pc[r] = "verify"
  /\ Readable /\ file.key # license
  /\ GoTo(r, "tampered")
  /\ UNCHANGED <<file, lockedBy, draft, environment, history>>

(* Mutant: the boot counter runs backwards. *)
VerifyCountsDown(r) ==
  /\ pc[r] = "verify"
  /\ Readable /\ file.key = license /\ file.seen <= clock
  /\ draft' = [draft EXCEPT ![r] = [file EXCEPT !.boot = file.boot - 1, !.seen = clock]]
  /\ GoTo(r, "rewrite")
  /\ DecideBeside(r)
  /\ UNCHANGED <<file, lockedBy, environment, granted, bound, recorded>>

(* Mutant: only the time of the boot is recorded. *)
VerifyDoesNotCount(r) ==
  /\ pc[r] = "verify"
  /\ Readable /\ file.key = license /\ file.seen <= clock
  /\ draft' = [draft EXCEPT ![r] = [file EXCEPT !.seen = clock]]
  /\ GoTo(r, "rewrite")
  /\ DecideBeside(r)
  /\ UNCHANGED <<file, lockedBy, environment, granted, bound, recorded>>

VerifyCounts(r) ==
  /\ pc[r] = "verify"
  /\ Readable /\ file.key = license /\ file.seen <= clock
  /\ draft' = [draft EXCEPT ![r] = [file EXCEPT !.boot = file.boot + 1, !.seen = clock]]
  /\ GoTo(r, "rewrite")
  /\ DecideBeside(r)
  /\ UNCHANGED <<file, lockedBy, environment, granted, bound, recorded>>

(* The host and the jti are compared only after the record was rewritten. *)
VerifyMatches(r) ==
  /\ pc[r] = "match"
  /\ GoTo(r, IF draft[r].host = HostOf[r] /\ draft[r].jti = license THEN "start" ELSE "activate")
  /\ draft' = [draft EXCEPT ![r] = Absent]
  /\ UNCHANGED <<file, lockedBy, environment, history>>

-----------------------------------------------------------------------------
(* activate *)

(* Mutant: the count of another host's record is not carried on. *)
ActivationCountRestarts(r) == 1

ActivationCount(r) == IF Readable /\ file.host # HostOf[r] THEN file.count + 1 ELSE 1

ActivateBlocked(r) ==
  /\ pc[r] = "activate"
  /\ Readable /\ file.host # HostOf[r] /\ file.count >= Limit
  /\ GoTo(r, "blocked")
  /\ UNCHANGED <<file, lockedBy, draft, environment, history>>

ActivateBinds(r) ==
  /\ pc[r] = "activate"
  /\ ~(Readable /\ file.host # HostOf[r] /\ file.count >= Limit)
  /\ draft' = [draft EXCEPT ![r] =
       [host |-> HostOf[r], jti |-> license, key |-> license,
        count |-> ActivationCount(r), boot |-> 1, seen |-> clock]]
  /\ GoTo(r, "write")
  /\ disturbed' = disturbed
       \cup {d \in {"race"} : \E s \in Replicas \ {r} : Writing(s)}
       \cup {d \in {"home"} : Readable /\ file.host = HostOf[r] /\ file.count > 1}
  /\ UNCHANGED <<file, lockedBy, environment, granted, bound, recorded>>

-----------------------------------------------------------------------------
(* _write_with_lock, from both callers.  The HMAC is computed just before, *)
(* with the license file as it is then. *)

OpenForWriting(r) ==
  /\ Decided(r)
  /\ draft' = [draft EXCEPT ![r].key = license]
  /\ file' = Empty
  /\ GoTo(r, IF pc[r] = "rewrite" THEN "rewrite_queue" ELSE "write_queue")
  /\ OpenBeside(r)
  /\ UNCHANGED <<lockedBy, environment, granted, bound, recorded>>

TakeLock(r) ==
  /\ pc[r] \in {"rewrite_queue", "write_queue"}
  /\ lockedBy = Nobody
  /\ lockedBy' = r
  /\ GoTo(r, IF pc[r] = "rewrite_queue" THEN "rewrite_locked" ELSE "write_locked")
  /\ UNCHANGED <<file, draft, environment, history>>

ReleaseLock(r) ==
  /\ pc[r] \in {"rewrite_locked", "write_locked"}
  /\ lockedBy' = Nobody
  /\ GoTo(r, IF pc[r] = "rewrite_locked" THEN "flush" ELSE "save")
  /\ UNCHANGED <<file, draft, environment, history>>

(* Over what another writer left, a shorter text leaves a tail behind.     *)
Written(r) == IF file = Empty THEN {draft[r]} ELSE {draft[r], Garbled}

CloseRewritten(r) ==
  /\ pc[r] = "flush"
  /\ file' \in Written(r)
  /\ recorded' = recorded + 1
  /\ GoTo(r, "match")
  /\ UNCHANGED <<lockedBy, draft, environment, granted, bound, disturbed>>

CloseActivated(r) ==
  /\ pc[r] = "save"
  /\ file' \in Written(r)
  /\ GoTo(r, "start")
  /\ recorded' = 1
  /\ bound' = bound \cup {HostOf[r]}
  /\ draft' = [draft EXCEPT ![r] = Absent]
  /\ UNCHANGED <<lockedBy, environment, granted, disturbed>>

-----------------------------------------------------------------------------
(* The application: startup_license_check only loads the activation, and   *)
(* exits if it cannot be read. *)
StartApplication(r) ==
  /\ pc[r] = "start"
  /\ GoTo(r, IF Readable THEN "running" ELSE "off")
  /\ granted' = IF Readable THEN granted \cup {HostOf[r]} ELSE granted
  /\ UNCHANGED <<file, lockedBy, draft, environment, bound, recorded, disturbed>>

(* The container stops, or its entrypoint exited and it is restarted. *)
Exit(r) ==
  /\ pc[r] \in {"running", "blocked", "tampered"}
  /\ GoTo(r, "off")
  /\ UNCHANGED <<file, lockedBy, draft, environment, history>>

(* Mutant: the lock outlives the process, as a file beside it would. *)
CrashKeepsLock(r) ==
  /\ Booting(r)
  /\ Incident
  /\ GoTo(r, "off")
  /\ draft' = [draft EXCEPT ![r] = Absent]
  /\ Disturb("crash", Writing(r))
  /\ UNCHANGED <<file, lockedBy, license, clock, boots, granted, bound, recorded>>

(* What was not yet written to the file is lost; the lock is given up. *)
Crash(r) ==
  /\ Booting(r)
  /\ Incident
  /\ GoTo(r, "off")
  /\ draft' = [draft EXCEPT ![r] = Absent]
  /\ lockedBy' = IF lockedBy = r THEN Nobody ELSE lockedBy
  /\ Disturb("crash", Writing(r))
  /\ UNCHANGED <<file, license, clock, boots, granted, bound, recorded>>

TimePasses ==
  /\ clock = 0
  /\ clock' = 1
  /\ UNCHANGED <<file, lockedBy, license, pc, draft, boots, incidents, history>>

ClockStepsBack ==
  /\ clock = 1
  /\ Incident
  /\ clock' = 0
  /\ UNCHANGED <<file, lockedBy, license, pc, draft, boots, history>>

(* A new license.key is dropped into the mounted directory. *)
Renew ==
  /\ license < MaxRenewals
  /\ Incident
  /\ license' = license + 1
  /\ UNCHANGED <<file, lockedBy, clock, pc, draft, boots, history>>

Verify(r) == VerifyFails(r) \/ VerifyTampered(r) \/ VerifyCounts(r) \/ VerifyMatches(r)

Activate(r) == ActivateBlocked(r) \/ ActivateBinds(r)

Write(r) ==
  OpenForWriting(r) \/ TakeLock(r) \/ ReleaseLock(r) \/ CloseRewritten(r) \/ CloseActivated(r)

Entrypoint(r) ==
  CheckActivated(r) \/ Verify(r) \/ Activate(r) \/ Write(r) \/ StartApplication(r)

Next ==
  \/ TimePasses \/ ClockStepsBack \/ Renew
  \/ \E r \in Replicas : Boot(r) \/ Entrypoint(r) \/ Exit(r) \/ Crash(r)

Spec == Init /\ [][Next]_vars

-----------------------------------------------------------------------------
(* Properties.                                                             *)

(* "Enforces activation_limit from license claims" (auto_activator.py:243):*)
(* the application never runs on more hosts than may be activated, through *)
(* renewals too, until the count is lost.  It is lost in three ways and no *)
(* other: two replicas read, decide and write beside each other, whatever  *)
(* "file locking for multi-replica safety" (auto_activator.py:312) may     *)
(* suggest; a container dies between emptying the file and closing it; or  *)
(* the host that is bound activates again, which starts the count from 1   *)
(* (auto_activator.py:274), as it does when the clock was set back.        *)
LimitIsEnforced == disturbed = {} => Cardinality(granted) <= Limit

(* The boot counter is the "monotonic counter" it is meant to be           *)
(* (auto_activator.py:205): a record counts every boot that has written it *)
(* since the activation, through crashes, corrections of the clock and     *)
(* renewals; only replicas that write beside each other lose a boot.       *)
StartsAreCounted ==
  Readable /\ "race" \notin disturbed => file.boot >= recorded

(* A boot is refused only for a cause: for tampering only if the license   *)
(* was replaced, for the limit only if it was activated for another host.  *)
(* No interleaving, crash or correction of the clock alone turns a host    *)
(* away (auto_activator.py:168, 253-259, 333-338).                         *)
RefusalsHaveCauses ==
  \A r \in Replicas : /\ pc[r] = "tampered" => license # 0
                      /\ pc[r] = "blocked" => bound \ {HostOf[r]} # {}

(* The documented renewal, "1. Drop new license.key into ./license/" and   *)
(* a restart (docker-compose.yml:12-13), works: with all replicas on one   *)
(* host no boot fails for tampering or for the limit                       *)
(* (auto_activator.py:168, 253-255, 259).                                  *)
HomeIsNeverRefused == \A r \in Replicas : pc[r] \notin {"tampered", "blocked"}

(* A boot waits at the lock only for one that is inside its write: never   *)
(* for one that has ended, was refused or died there                       *)
(* (auto_activator.py:315-318, docker_entrypoint.py:95-137).               *)
LockHasALivingHolder ==
  lockedBy # Nobody => pc[lockedBy] \in {"rewrite_locked", "write_locked"}
=============================================================================
