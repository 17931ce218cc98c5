---------------------------- MODULE StartupCheck ----------------------------
(***************************************************************************)
(* A start of the application, from the entrypoint of a container (or from *)
(* the service manager) through the layers of startup_license_check in     *)
(* licensing/license_middleware.py to the running application, on several  *)
(* nodes that share a license directory.                                   *)
(*                                                                         *)
(* The layers use what they find out about their machine (VMDetector,      *)
(* HardwareId, IntegrityChecker) and the beacon (PhoneHome).  Three        *)
(* components have modules of their own and are reduced here to what the   *)
(* other layers see of them.  AutoActivator and LicenseValidator: whether  *)
(* the activation, and the checks of the license other than that of the    *)
(* identity, would pass now is `licensed`.  ConcurrencyGuard: the age of a *)
(* lock is whether it is stale, it goes stale when no instance refreshes   *)
(* it, and its file is never removed; but acquire() and refresh() read it  *)
(* and replace it in two steps, with others in between.                    *)
(***************************************************************************)
EXTENDS HardwareId, VMDetector, IntegrityChecker, PhoneHome

CONSTANTS
  Views,            \* what a process can find on the machine it runs on
  Scenarios,        \* the installations: [docker: mode = "docker", at: a view for each node]
  Rebuilds,         \* pairs of views of one host: what it is like before and after
  Home,             \* the machine the license was issued for, if not for containers
  BlockVm,          \* block_vm
  Hashed,           \* file_hashes of the license: the names
  MaxHwidChanges,   \* max_hwid_changes
  MaxGlitches,      \* bound on probes that time out or fail
  NoLock            \* no lock file

ASSUME StartupAssumption ==
  /\ \A s \in Scenarios : s.docker \in BOOLEAN /\ s.at \in [Nodes -> Views]
  /\ \A r \in Rebuilds : r \in Views \X Views /\ r[1].host = r[2].host
  /\ Home \in Views /\ BlockVm \in BOOLEAN
  /\ MaxHwidChanges \in Nat /\ MaxGlitches \in Nat

VARIABLES
  docker,      \* mode = "docker"
  view,        \* environment: what each node finds
  licensed,    \* environment: activation, signature, time and revocation would pass
  pc,          \* the layer each node is at
  hwid,        \* _concurrency.hwid, from acquire() on
  lock,        \* .active_lock, with its age as `stale`
  existing,    \* acquire(), refresh(): the lock that was read
  migrations,  \* the entries of .hwid_history
  glitches,    \* probes that have failed so far
  reason,      \* the layer that refused the last start of a node
  keeper,      \* history: the host that wrote the lock
  blind,       \* history: nodes whose VM detection was incomplete
  shaken,      \* history: hosts that have had more than one identity
  lapsed,      \* history: nodes whose lock went stale while they ran
  raced,       \* history: nodes whose lock was replaced by one who had not seen it
  unsettled    \* history: nodes whose license changed between layers 5 and 6,
               \*   and gave layer 6 no hashes

nodeVars == <<pc, hwid, existing, reason>>

past == <<keeper, blind, shaken, lapsed, raced, unsettled>>

vars == <<docker, view, licensed, nodeVars, lock, migrations, glitches, past, phVars>>

Hosts == {v.host : v \in Views}

(* generate_license: the identity is that of the target, and empty for     *)
(* containers, whose host the activation binds. *)
Bound == IF docker THEN NoHwid ELSE GenerateHwid(Home, {})

Identity(n) == GenerateHwid(view[n], {})

(* Whatever a process may take for its identity. *)
Identities == {GenerateHwid(v, lost) : v \in Views, lost \in {{}, Commands}}

ASSUME IdentitiesAssumption ==
  NoHwid \notin Identities /\ NoLock \notin [id : Identities, stale : BOOLEAN]

DockerIdentity(n) == GenerateDockerHwid(view[n], "configured")

(* The probes that may be lost when the identity is determined, if it is.  *)
Losses(called) == {{}} \cup {c \in {Commands} : called /\ glitches < MaxGlitches}

TypeOK ==
  /\ docker \in BOOLEAN /\ licensed \in BOOLEAN
  /\ view \in [Nodes -> Views]
  /\ pc \in [Nodes -> {"off", "entry", "vm", "activation", "validate", "integrity",
                       "lock", "replace", "announce", "running", "refreshing", "refused"}]
  /\ hwid \in [Nodes -> Identities \cup {NoHwid}]
  /\ \A n \in Nodes : pc[n] \in {"replace", "announce", "running", "refreshing"} => hwid[n] # NoHwid
  /\ lock \in {NoLock} \cup [id : Identities, stale : BOOLEAN]
  /\ existing \in [Nodes -> {NoLock} \cup [id : Identities, stale : BOOLEAN]]
  /\ keeper \in Hosts
  /\ migrations \in 0..MaxHwidChanges /\ glitches \in 0..MaxGlitches
  /\ reason \in [Nodes -> {"none", "entry", "vm", "activation", "license", "hwid",
                           "integrity", "own lock", "lock", "announce"}]
  /\ blind \subseteq Nodes /\ shaken \subseteq Hosts
  /\ lapsed \subseteq Nodes /\ raced \subseteq Nodes /\ unsettled \subseteq Nodes
  /\ network \in BOOLEAN /\ attempts \in [Nodes -> 0..(Retries - 1)] /\ NoHwid \notin known

Init ==
  /\ \E s \in Scenarios : docker = s.docker /\ view = s.at
  /\ licensed = TRUE
  /\ pc = [n \in Nodes |-> "off"]
  /\ hwid = [n \in Nodes |-> NoHwid]
  /\ lock = NoLock /\ existing = [n \in Nodes |-> NoLock]
  /\ migrations = 0 /\ glitches = 0
  /\ reason = [n \in Nodes |-> "none"]
  /\ keeper = Home.host /\ blind = {} /\ lapsed = {} /\ raced = {} /\ unsettled = {}
  /\ shaken = {view[m].host : m \in {k \in Nodes : \E n \in Nodes :
                view[n].host = view[k].host /\ Identity(n) # Identity(k)}}
  /\ PhInit

GoTo(n, layer) == pc' = [pc EXCEPT ![n] = layer] /\ UNCHANGED reason

Refuse(n, why) == pc' = [pc EXCEPT ![n] = "refused"] /\ reason' = [reason EXCEPT ![n] = why]

Pass(n, passes, layer, why) == IF passes THEN GoTo(n, layer) ELSE Refuse(n, why)

Glitch(happened) == glitches' = glitches + (IF happened THEN 1 ELSE 0)

(* A host that has, or is taken to have, more than one identity.           *)
Shake(n, happened) == shaken' = shaken \cup {h \in {view[n].host} : happened}

(* What a process knew, and what is excused of it, ends with it. *)
Forget(n) ==
  /\ reason' = [reason EXCEPT ![n] = "none"]
  /\ hwid' = [hwid EXCEPT ![n] = NoHwid]
  /\ existing' = [existing EXCEPT ![n] = NoLock]
  /\ lapsed' = lapsed \ {n} /\ raced' = raced \ {n} /\ unsettled' = unsettled \ {n}

-----------------------------------------------------------------------------
(* A process is started, or started again after it exited. *)
Begin(n) ==
  /\ pc[n] \in {"off", "refused"}
  /\ pc' = [pc EXCEPT ![n] = IF docker THEN "entry" ELSE "vm"]
  /\ Forget(n)
  /\ blind' = blind \ {n}
  /\ UNCHANGED <<docker, view, licensed, lock, migrations, glitches, keeper, shaken, phVars>>

(* docker_entrypoint.main; the URL is looked at again by the application. *)
EntrypointPasses(n) ==
  /\ CheckBindMounts(view[n])
  /\ view[n].url
  /\ GenerateDockerHwid(view[n], "default") # NoHwid
  /\ licensed

Entrypoint(n) ==
  /\ pc[n] = "entry"
  /\ Pass(n, EntrypointPasses(n), "activation", "entry")
  /\ UNCHANGED <<docker, view, licensed, hwid, existing, lock, migrations, glitches, past, phVars>>

(* Layer 0, only outside of containers: what fails counts for no sign, so  *)
(* that the loss of every check stands for that of some of them. *)
DetectVm(n) ==
  /\ pc[n] = "vm"
  /\ \E failed \in {{}} \cup (IF glitches < MaxGlitches THEN {Checks} ELSE {}) :
       /\ Pass(n, ~(BlockVm /\ IsVirtual(view[n], failed)), "validate", "vm")
       /\ Glitch(failed # {})
       /\ blind' = blind \cup {m \in {n} : failed # {}}
  /\ UNCHANGED <<docker, view, licensed, hwid, existing, lock, migrations, keeper, shaken,
                 lapsed, raced, unsettled, phVars>>

(* Only in containers; the identity for layer 8 is determined here. *)
LoadActivation(n) ==
  /\ pc[n] = "activation"
  /\ Pass(n, DockerIdentity(n) # NoHwid /\ licensed, "validate", "activation")
  /\ UNCHANGED <<docker, view, licensed, hwid, existing, lock, migrations, glitches, past, phVars>>

(* Mutant: one migration too many. *)
PassesOnceMore(id) == docker \/ id = Bound \/ migrations <= MaxHwidChanges

(* Layer 3, on a machine that takes `id` for its identity.  A migration is *)
(* recorded before the later layers have had their say. *)
IdentityPasses(id) == docker \/ id = Bound \/ migrations < MaxHwidChanges

Migrate(id) == migrations' = migrations + (IF docker \/ id = Bound THEN 0 ELSE 1)

(* Layers 1 to 5: refused before layer 3, by it, or after it. *)
Validate(n) ==
  /\ pc[n] = "validate"
  /\ \/ /\ ~licensed
        /\ Refuse(n, "license")
        /\ UNCHANGED <<migrations, glitches, shaken>>
     \/ \E lost \in Losses(~docker) :
          LET id == GenerateHwid(view[n], lost)
          IN /\ Glitch(lost # {})
             /\ Shake(n, id # Identity(n))
             /\ \/ /\ IdentityPasses(id)
                   /\ Pass(n, licensed, "integrity", "license")
                   /\ Migrate(id)
                \/ /\ ~IdentityPasses(id)
                   /\ Refuse(n, "hwid")
                   /\ UNCHANGED migrations
  /\ UNCHANGED <<docker, view, licensed, hwid, existing, lock, keeper, blind,
                 lapsed, raced, unsettled, phVars>>

(* Mutant: the hashes of the license are not given to the checker. *)
BaselinesOfTheirOwn == {Hashed, {}}

(* The hashes layer 6 compares with: a license file that has become        *)
(* missing or illegible since layer 5 is passed over, and the files are    *)
(* then their own baseline. *)
Baselines == {Hashed} \cup (IF licensed THEN {} ELSE {{}})

(* Layer 6. *)
CheckIntegrity(n) ==
  /\ pc[n] = "integrity"
  /\ \E hashes \in Baselines :
       /\ Pass(n, Verify(view[n], hashes), "lock", "integrity")
       /\ unsettled' = unsettled \ {m \in {n} : hashes # {}}
  /\ UNCHANGED <<docker, view, licensed, hwid, existing, lock, migrations, glitches,
                 keeper, blind, shaken, lapsed, raced, phVars>>

(* Mutant: the lock is taken in the name of the license. *)
LicenseIdentity(n, lost) == Bound

(* Layer 7: the identity is determined anew. *)
LockIdentity(n, lost) == GenerateHwid(view[n], lost)

(* Mutant: a lock that nobody refreshes still blocks. *)
BlocksForever(l, id) == l # NoLock /\ l.id # id

Blocks(l, id) == l # NoLock /\ l.id # id /\ ~l.stale

(* acquire(): the lock is read, and refuses or lets pass. *)
ReadLock(n) ==
  /\ pc[n] = "lock"
  /\ \E lost \in Losses(TRUE) :
       LET id == LockIdentity(n, lost)
       IN /\ Glitch(lost # {})
          /\ Shake(n, id # Identity(n))
          /\ \/ /\ Blocks(lock, id)
                /\ Refuse(n, IF keeper = view[n].host THEN "own lock" ELSE "lock")
                /\ UNCHANGED <<hwid, existing>>
             \/ /\ ~Blocks(lock, id)
                /\ hwid' = [hwid EXCEPT ![n] = id]
                /\ existing' = [existing EXCEPT ![n] = lock]
                /\ GoTo(n, "replace")
  /\ UNCHANGED <<docker, view, licensed, lock, migrations, keeper, blind,
                 lapsed, raced, unsettled, phVars>>

(* Those past layer 7 with this identity, and those whom the lock is of.   *)
Holders(id) == {m \in Nodes : pc[m] \in {"announce", "running", "refreshing"} /\ hwid[m] = id}

Holds(n) == lock # NoLock /\ n \in Holders(lock.id)

(* A fresh lock in the name of n takes the place of whatever is there now, *)
(* though something else was there when it was read. *)
Replace(n) ==
  /\ lock' = [id |-> hwid[n], stale |-> FALSE]
  /\ existing' = [existing EXCEPT ![n] = NoLock]
  /\ keeper' = view[n].host
  /\ lapsed' = lapsed \ Holders(hwid[n])
  /\ raced' = (raced \cup {m \in Nodes : Holds(m) /\ lock # existing[n]}) \ Holders(hwid[n])

(* acquire(): the lock is replaced. *)
ReplaceLock(n) ==
  /\ pc[n] = "replace"
  /\ Replace(n)
  /\ GoTo(n, IF docker THEN "announce" ELSE "running")
  /\ UNCHANGED <<docker, view, licensed, hwid, migrations, glitches, blind, shaken,
                 unsettled, phVars>>

(* Layer 8, only in containers: a refusal leaves the lock as it is.        *)
Announce(n) ==
  /\ pc[n] = "announce"
  /\ \/ AttemptSucceeds(n, DockerIdentity(n)) /\ GoTo(n, "running")
     \/ AttemptFails(n, DockerIdentity(n)) /\ UNCHANGED <<pc, reason>>
     \/ LastAttemptFails(n, DockerIdentity(n)) /\ Refuse(n, "announce")
  /\ UNCHANGED <<docker, view, licensed, hwid, existing, lock, migrations, glitches, past>>

Startup(n) ==
  \/ Entrypoint(n) \/ DetectVm(n) \/ LoadActivation(n) \/ Validate(n)
  \/ CheckIntegrity(n) \/ ReadLock(n) \/ ReplaceLock(n) \/ Announce(n)

-----------------------------------------------------------------------------
(* A running application. *)

Running(n) == pc[n] \in {"running", "refreshing"}

(* With its host from a container, else with the identity in the license.  *)
SendBeacon(n) == IF docker THEN Send(DockerIdentity(n)) ELSE UNCHANGED phVars

(* A beat that validates reads the lock, and refreshes it if it is still   *)
(* the own one; otherwise it goes on to send a beacon. *)
Beat(n) ==
  /\ pc[n] = "running" /\ licensed
  /\ \E lost \in Losses(~docker) :
       LET id == GenerateHwid(view[n], lost)
       IN /\ IdentityPasses(id)
          /\ Migrate(id)
          /\ Glitch(lost # {})
          /\ Shake(n, id # Identity(n))
  /\ \/ /\ Holds(n)
        /\ GoTo(n, "refreshing")
        /\ existing' = [existing EXCEPT ![n] = lock]
        /\ UNCHANGED phVars
     \/ /\ ~Holds(n)
        /\ SendBeacon(n)
        /\ UNCHANGED <<pc, reason, existing>>
  /\ UNCHANGED <<docker, view, licensed, hwid, lock, keeper, blind, lapsed, raced, unsettled>>

(* refresh(): the lock is replaced, and the beacon sent. *)
Refresh(n) ==
  /\ pc[n] = "refreshing"
  /\ Replace(n)
  /\ SendBeacon(n)
  /\ GoTo(n, "running")
  /\ UNCHANGED <<docker, view, licensed, hwid, migrations, glitches, blind, shaken, unsettled>>

(* A beat that does not pass because of what is checked after the identity *)
(* changes nothing but the migrations. *)
BeatIsRefused(n) ==
  /\ pc[n] = "running" /\ ~licensed /\ ~docker
  /\ \E lost \in Losses(TRUE) :
       LET id == GenerateHwid(view[n], lost)
       IN /\ IdentityPasses(id)
          /\ Migrate(id)
          /\ Glitch(lost # {})
          /\ Shake(n, id # Identity(n))
  /\ UNCHANGED <<docker, view, licensed, nodeVars, lock, keeper, blind,
                 lapsed, raced, unsettled, phVars>>

(* A node whose beats refresh the lock, or who has just acquired it.       *)
Refreshes(n) ==
  /\ Holds(n)
  /\ pc[n] = "running" => licensed /\ IdentityPasses(Identity(n))

(* ConcurrencyGuard!StaleMeansDead: only the lock of an instance that is   *)
(* dead, or whose beats fail, gets old enough. *)
LockExpires ==
  /\ lock # NoLock /\ ~lock.stale
  /\ \A n \in Nodes : ~Refreshes(n)
  /\ lock' = [lock EXCEPT !.stale = TRUE]
  /\ lapsed' = lapsed \cup {n \in Nodes : Holds(n)}
  /\ UNCHANGED <<docker, view, licensed, nodeVars, migrations, glitches,
                 keeper, blind, shaken, raced, unsettled, phVars>>

-----------------------------------------------------------------------------
(* The environment. *)

Exit(n) ==
  /\ pc[n] # "off"
  /\ pc' = [pc EXCEPT ![n] = "off"]
  /\ Forget(n)
  /\ attempts' = [attempts EXCEPT ![n] = 0]
  /\ UNCHANGED <<docker, view, licensed, lock, migrations, glitches,
                 keeper, blind, shaken, network, known>>

(* A container is made anew, or a machine repaired, on the same host. *)
Rebuild(n) ==
  /\ pc[n] = "off"
  /\ \E v \in Views :
       /\ <<view[n], v>> \in Rebuilds
       /\ view' = [view EXCEPT ![n] = v]
       /\ Shake(n, GenerateHwid(v, {}) # Identity(n))
  /\ UNCHANGED <<docker, licensed, nodeVars, lock, migrations, glitches,
                 keeper, blind, lapsed, raced, unsettled, phVars>>

LicenseChanges ==
  /\ licensed' = ~licensed
  /\ unsettled' = unsettled \cup {n \in Nodes : pc[n] = "integrity"}
  /\ UNCHANGED <<docker, view, nodeVars, lock, migrations, glitches,
                 keeper, blind, shaken, lapsed, raced, phVars>>

ServerChanges ==
  /\ NetworkChanges
  /\ UNCHANGED <<docker, view, licensed, nodeVars, lock, migrations, glitches, past>>

Next ==
  \/ \E n \in Nodes :
       Begin(n) \/ Startup(n) \/ Beat(n) \/ Refresh(n) \/ BeatIsRefused(n) \/ Exit(n) \/ Rebuild(n)
  \/ LockExpires \/ LicenseChanges \/ ServerChanges

(* A start goes on, one that was refused is made again, a lock that nobody *)
(* refreshes gets old. *)
Fairness ==
  /\ \A n \in Nodes : WF_vars(Startup(n)) /\ WF_vars(pc[n] = "refused" /\ Begin(n))
  /\ WF_vars(LockExpires)

Spec == Init /\ [][Next]_vars /\ Fairness

-----------------------------------------------------------------------------
(* Properties.                                                             *)

(* What should tell one machine from another. *)
Identifiers(v) ==
  ({v.host_id, v.own_id, v.env, v.mac} \cup {v.dmi[f] : f \in DmiFields \ {"board_vendor"}})
    \ (Nothing \cup {Placeholder})

(* The license runs on two machines at once only for one of three reasons: *)
(* they have something in common that makes one identity of them - a       *)
(* cloned machine-id, serial numbers that say nothing -; the beats of one  *)
(* have failed until its lock was stale; or its lock was replaced by a     *)
(* start, or a refresh, that had read the lock before it was there.  So    *)
(* two that start together may both run, one after the other may not       *)
(* (concurrency.py:80-104, 114-128, license_middleware.py:287-302,         *)
(* docker_hwid.py:439-469, hwid_generator.py:225-252). *)
TwoHostsLookAlike ==
  \A m, n \in Nodes :
    /\ Running(m) /\ Running(n)
    /\ view[m].host # view[n].host
    /\ {m, n} \cap (lapsed \cup raced) = {}
    => /\ hwid[m] = hwid[n]
       /\ Identifiers(view[m]) \cap Identifiers(view[n]) # {}

(* Nothing runs that a layer has not cleared.  A container runs only when  *)
(* the server has received the identity of its host, whatever was lost on  *)
(* the way, and under that same identity it is in the lock, although the   *)
(* two are determined in different layers with different keys; a machine   *)
(* with two signs of virtualization, where they are not allowed, runs only *)
(* when their detection failed; and an installation with an altered file   *)
(* the license has the hash of, only when the license changed after layer  *)
(* 5 had accepted it and before layer 6 read it, for which it then had no  *)
(* hashes (license_middleware.py:170-201, 255-302, 334-362). *)
NothingRunsUncleared ==
  \A n \in Nodes : Running(n) =>
    /\ docker => DockerIdentity(n) \in known
    /\ docker /\ IsDocker(view[n]) => hwid[n] = DockerIdentity(n)
    /\ ~docker /\ BlockVm /\ n \notin blind => ~IsVirtual(view[n], {})
    /\ n \notin unsettled => Tampered(view[n], Hashed) = {}

(* No start is refused for its own past.  A lock of the same host refuses  *)
(* it only outside of what is recognised as a container - a container that *)
(* is made anew keeps the identity of its host - and only after a probe    *)
(* has failed or the machine has changed; the same holds for the machine   *)
(* the license was issued for and its identity, and a probe that fails     *)
(* never makes a virtual machine of a real one                             *)
(* (hwid_generator.py:235-246, license_middleware.py:170-192, 287-302).    *)
RefusalsAreEarned ==
  \A n \in Nodes :
    /\ reason[n] = "own lock" => view[n].host \in shaken /\ ~IsDocker(view[n])
    /\ reason[n] = "hwid" => view[n].host # Home.host \/ view[n].host \in shaken
    /\ reason[n] = "vm" => IsVirtual(view[n], {})

Admissible(n) ==
  /\ licensed /\ network
  /\ docker => EntrypointPasses(n) /\ DockerIdentity(n) # NoHwid
  /\ ~docker => Identity(n) = Bound /\ ~(BlockVm /\ IsVirtual(view[n], {}))
  /\ Tampered(view[n], Hashed) = {}

(* What a failed start leaves behind does not last: once the other nodes   *)
(* are down for good, a node with nothing wrong with it gets to run,       *)
(* although the last layer of another start failed with the lock held      *)
(* (license_middleware.py:296-302, 334-362). *)
HealthyMachineStarts ==
  \A n \in Nodes :
    <>[](Admissible(n) /\ pc[n] # "off" /\ \A m \in Nodes \ {n} : pc[m] = "off") =>
      <>[]Running(n)
=============================================================================
