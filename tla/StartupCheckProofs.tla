------------------------- MODULE StartupCheckProofs -------------------------
(***************************************************************************)
(* StartupCheck for any number of nodes, any machines and installations,   *)
(* and any number of failing probes: its types; that nothing runs a layer  *)
(* has not cleared; that what runs at once has one identity, and machines  *)
(* with one identity something in common; and that a refusal has a cause,  *)
(* which in an installation that is in order is never its own past.        *)
(***************************************************************************)
EXTENDS StartupCheck, FiniteSetTheorems, TLAPS

(* Where a process is once its machine is known, once its files are, once  *)
(* it has taken something for its identity, and once it has the lock; and  *)
(* where it is about to replace a lock it has read.                        *)
Known   == {"validate", "integrity", "lock", "replace", "announce", "running", "refreshing"}
Intact  == {"lock", "replace", "announce", "running", "refreshing"}
Named   == {"replace", "announce", "running", "refreshing"}
Locked  == {"announce", "running", "refreshing"}
Flight  == {"replace", "refreshing"}

Determined(v) == GenerateDockerHwid(v, "default") # NoHwid

(* Which layers there are depends on the installation. *)
PlaceInv ==
  \A n \in Nodes :
    /\ pc[n] \in {"entry", "activation", "announce"} => docker
    /\ pc[n] = "vm" => ~docker

(* What a layer has found stays true of the machine as long as its process *)
(* lives. *)
ClearedInv ==
  \A n \in Nodes :
    /\ docker /\ pc[n] \in Known => DockerIdentity(n) # NoHwid
    /\ docker /\ pc[n] \in Known \cup {"activation"} => Determined(view[n])
    /\ docker /\ Running(n) => DockerIdentity(n) \in known
    /\ ~docker /\ BlockVm /\ n \notin blind /\ pc[n] \in Known => ~IsVirtual(view[n], {})
    /\ pc[n] = "integrity" /\ n \notin unsettled => licensed
    /\ pc[n] \in Intact /\ n \notin unsettled => Tampered(view[n], Hashed) = {}

(* Who is past layer 7, has kept its beats up and has not lost a race has  *)
(* the lock; who has a lock that went stale has lapsed; and who is about   *)
(* to replace a lock has read one that did not block it. *)
LockInv ==
  \A n \in Nodes :
    /\ pc[n] \in Locked /\ n \notin lapsed \cup raced => Holds(n)
    /\ Holds(n) /\ lock.stale => n \in lapsed
    /\ pc[n] \in Flight => ~Blocks(existing[n], hwid[n])

PlacesOK ==
  /\ pc \in [Nodes -> {"off", "entry", "vm", "activation", "validate", "integrity",
                        "lock", "replace", "announce", "running", "refreshing", "refused"}]
  /\ reason \in [Nodes -> {"none", "entry", "vm", "activation", "license", "hwid",
                            "integrity", "own lock", "lock", "announce"}]

Inv == TypeOK /\ PlaceInv /\ ClearedInv /\ LockInv

-----------------------------------------------------------------------------
(* What a process takes for its identity is one.                           *)
LEMMA LossesAreCommands ==
  ASSUME NEW called \in BOOLEAN, NEW lost \in Losses(called)
  PROVE  lost \in {{}, Commands}
  BY DEF Losses

LEMMA IdentityIsOne ==
  ASSUME TypeOK, NEW n \in Nodes, NEW lost \in {{}, Commands}
  PROVE  GenerateHwid(view[n], lost) \in Identities
<1>1. view[n] \in Views
  BY DEF TypeOK
<1>2. \E v \in Views, l \in {{}, Commands} : GenerateHwid(view[n], lost) = GenerateHwid(v, l)
  BY <1>1
<1> QED
  BY <1>2, SMT DEF Identities

LEMMA LockingIdentityIsOne ==
  ASSUME TypeOK, NEW n \in Nodes, NEW lost \in Losses(TRUE)
  PROVE  LockIdentity(n, lost) \in Identities
  BY LossesAreCommands, IdentityIsOne DEF LockIdentity

(* A glitch happens only while there may be one.                           *)
LEMMA GlitchesBounded ==
  ASSUME TypeOK, NEW called \in BOOLEAN, NEW lost \in Losses(called), Glitch(lost # {})
  PROVE  glitches' \in 0..MaxGlitches
<1>1. lost # {} => glitches < MaxGlitches
  BY DEF Losses
<1>2. glitches \in 0..MaxGlitches /\ MaxGlitches \in Nat
  BY StartupAssumption DEF TypeOK
<1>3. CASE lost = {}
  BY <1>2, <1>3 DEF Glitch
<1>4. CASE lost # {}
  BY <1>1, <1>2, <1>4 DEF Glitch
<1> QED
  BY <1>3, <1>4

(* A migration happens only while there may be one.                        *)
LEMMA MigrationsBounded ==
  ASSUME TypeOK, NEW id, IdentityPasses(id), Migrate(id)
  PROVE  migrations' \in 0..MaxHwidChanges
<1>1. migrations \in 0..MaxHwidChanges /\ MaxHwidChanges \in Nat
  BY StartupAssumption DEF TypeOK
<1>2. CASE docker \/ id = Bound
  BY <1>1, <1>2 DEF Migrate
<1>3. CASE ~(docker \/ id = Bound)
  BY <1>1, <1>3 DEF IdentityPasses, Migrate
<1> QED
  BY <1>2, <1>3

LEMMA ShakenAreHosts ==
  ASSUME TypeOK, NEW n \in Nodes, NEW happened, Shake(n, happened)
  PROVE  shaken' \subseteq Hosts
  BY DEF TypeOK, Shake, Hosts

-----------------------------------------------------------------------------
(* The initial states.                                                     *)
LEMMA InitInv == Init => Inv
<1> SUFFICES ASSUME Init PROVE Inv
  OBVIOUS
<1>1. docker \in BOOLEAN /\ view \in [Nodes -> Views]
  BY StartupAssumption DEF Init
<1>2. Home.host \in Hosts
  BY StartupAssumption DEF Hosts
<1>3. shaken \subseteq Hosts
  BY <1>1 DEF Init, Hosts
<1>4. TypeOK
  BY <1>1, <1>2, <1>3, StartupAssumption, RetriesAssumption DEF Init, TypeOK, PhInit
<1>5. PlaceInv /\ ClearedInv /\ LockInv
  BY DEF Init, PlaceInv, ClearedInv, LockInv, Known, Intact, Locked, Flight, Holds, Running
<1> QED
  BY <1>4, <1>5 DEF Inv

(* Where a step of one process leads: the others stay where they are.      *)
LEMMA Moves ==
  ASSUME TypeOK, NEW n \in Nodes, NEW layer, GoTo(n, layer)
  PROVE  pc' = [pc EXCEPT ![n] = layer] /\ reason' = reason /\ pc'[n] = layer
  BY DEF GoTo, TypeOK

-----------------------------------------------------------------------------
(* The types.                                                              *)

LEMMA TypesStep == Inv /\ [Next]_vars => TypeOK'
<1> SUFFICES ASSUME Inv, [Next]_vars PROVE TypeOK'
  OBVIOUS
<1>t. TypeOK
  BY DEF Inv
<1> USE <1>t DEF GoTo, Refuse, Pass, past, nodeVars, phVars
<1>1. ASSUME NEW n \in Nodes, Begin(n) PROVE TypeOK'
  BY <1>1 DEF Begin, Forget, TypeOK
<1>2. ASSUME NEW n \in Nodes, Entrypoint(n) PROVE TypeOK'
  <2>1. PlacesOK' /\ \A m \in Nodes : pc'[m] \in Named => pc[m] \in Named
    <3>1. GoTo(n, "activation") \/ Refuse(n, "entry")
      BY <1>2 DEF Entrypoint
    <3> QED
      BY <3>1 DEF TypeOK, PlacesOK, Named
  <2>2. UNCHANGED <<docker, view, licensed, hwid, existing, lock, migrations, glitches, past, phVars>>
    BY <1>2 DEF Entrypoint
  <2> QED
    BY <2>1, <2>2 DEF TypeOK, PlacesOK, Named
<1>3. ASSUME NEW n \in Nodes, DetectVm(n) PROVE TypeOK'
  <2>1. PICK failed \in {{}} \cup (IF glitches < MaxGlitches THEN {Checks} ELSE {}) :
          /\ Pass(n, ~(BlockVm /\ IsVirtual(view[n], failed)), "validate", "vm")
          /\ Glitch(failed # {})
          /\ blind' = blind \cup {m \in {n} : failed # {}}
    BY <1>3 DEF DetectVm
  <2>2. glitches \in 0..MaxGlitches /\ MaxGlitches \in Nat
    BY StartupAssumption DEF TypeOK
  <2>3. glitches' \in 0..MaxGlitches
    <3>1. CASE failed = {}
      BY <2>1, <2>2, <3>1 DEF Glitch
    <3>2. CASE failed # {}
      <4>1. glitches < MaxGlitches
        BY <3>2
      <4> QED
        BY <2>1, <2>2, <3>2, <4>1 DEF Glitch
    <3> QED
      BY <3>1, <3>2
  <2>4. UNCHANGED <<docker, view, licensed, hwid, existing, lock, migrations, keeper, shaken, lapsed,
                    raced, unsettled, network, known, attempts>>
    BY <1>3 DEF DetectVm
  <2>5. blind' \subseteq Nodes
    BY <2>1 DEF TypeOK
  <2>6. PlacesOK' /\ \A m \in Nodes : pc'[m] \in Named => pc[m] \in Named
    BY <2>1 DEF TypeOK, PlacesOK, Named
  <2> QED
    BY <2>3, <2>4, <2>5, <2>6 DEF TypeOK, PlacesOK, Named
<1>4. ASSUME NEW n \in Nodes, LoadActivation(n) PROVE TypeOK'
  <2>1. PlacesOK' /\ \A m \in Nodes : pc'[m] \in Named => pc[m] \in Named
    <3>1. GoTo(n, "validate") \/ Refuse(n, "activation")
      BY <1>4 DEF LoadActivation
    <3> QED
      BY <3>1 DEF TypeOK, PlacesOK, Named
  <2>2. UNCHANGED <<docker, view, licensed, hwid, existing, lock, migrations, glitches, past, phVars>>
    BY <1>4 DEF LoadActivation
  <2> QED
    BY <2>1, <2>2 DEF TypeOK, PlacesOK, Named
<1>5. ASSUME NEW n \in Nodes, Validate(n) PROVE TypeOK'
  <2>1. glitches' \in 0..MaxGlitches /\ shaken' \subseteq Hosts
    BY <1>5, GlitchesBounded, ShakenAreHosts DEF Validate, TypeOK
  <2>2. migrations' \in 0..MaxHwidChanges
    BY <1>5, MigrationsBounded DEF Validate, TypeOK
  <2>3. PlacesOK' /\ \A m \in Nodes : pc'[m] \in Named => pc[m] \in Named
    <3>1. GoTo(n, "integrity") \/ Refuse(n, "license") \/ Refuse(n, "hwid")
      BY <1>5 DEF Validate
    <3> QED
      BY <3>1 DEF TypeOK, PlacesOK, Named
  <2>4. UNCHANGED <<docker, view, licensed, hwid, existing, lock, keeper, blind, lapsed, raced,
                    unsettled, network, known, attempts>>
    BY <1>5 DEF Validate
  <2> QED
    BY <2>1, <2>2, <2>3, <2>4 DEF TypeOK, PlacesOK, Named
<1>6. ASSUME NEW n \in Nodes, CheckIntegrity(n) PROVE TypeOK'
  <2>1. PlacesOK' /\ \A m \in Nodes : pc'[m] \in Named => pc[m] \in Named
    <3>1. GoTo(n, "lock") \/ Refuse(n, "integrity")
      BY <1>6 DEF CheckIntegrity
    <3> QED
      BY <3>1 DEF TypeOK, PlacesOK, Named
  <2>2. /\ UNCHANGED <<docker, view, licensed, hwid, existing, lock, migrations, glitches, keeper,
                        blind, shaken, lapsed, raced, network, known, attempts>>
        /\ unsettled' \subseteq unsettled
    BY <1>6 DEF CheckIntegrity
  <2> QED
    BY <2>1, <2>2 DEF TypeOK, PlacesOK, Named
<1>7. ASSUME NEW n \in Nodes, ReadLock(n) PROVE TypeOK'
  <2>1. PICK lost \in Losses(TRUE) :
          LET id == LockIdentity(n, lost)
          IN /\ Glitch(lost # {})
             /\ Shake(n, id # Identity(n))
             /\ \/ /\ Refuse(n, IF keeper = view[n].host THEN "own lock" ELSE "lock")
                   /\ UNCHANGED <<hwid, existing>>
                \/ /\ hwid' = [hwid EXCEPT ![n] = id]
                   /\ existing' = [existing EXCEPT ![n] = lock]
                   /\ GoTo(n, "replace")
    BY <1>7 DEF ReadLock
  <2>2. glitches' \in 0..MaxGlitches /\ shaken' \subseteq Hosts
    BY <2>1, GlitchesBounded, ShakenAreHosts
  <2>3. LockIdentity(n, lost) \in Identities
    BY LockingIdentityIsOne
  <2>4. UNCHANGED <<docker, view, licensed, lock, migrations, keeper, blind, lapsed, raced,
                    unsettled, network, known, attempts>>
    BY <1>7 DEF ReadLock
  <2>5. /\ hwid' \in [Nodes -> Identities \cup {NoHwid}]
        /\ existing' \in [Nodes -> {NoLock} \cup [id : Identities, stale : BOOLEAN]]
    <3>1. CASE UNCHANGED <<hwid, existing>>
      BY <3>1 DEF TypeOK
    <3>2. CASE /\ hwid' = [hwid EXCEPT ![n] = LockIdentity(n, lost)]
               /\ existing' = [existing EXCEPT ![n] = lock]
      BY <2>3, <3>2 DEF TypeOK
    <3> QED
      BY <2>1, <3>1, <3>2
  <2>6. \A m \in Nodes : pc'[m] \in Named => hwid'[m] # NoHwid
    BY <2>1, <2>3, IdentitiesAssumption DEF TypeOK, Named
  <2>7. PlacesOK'
    BY <2>1 DEF TypeOK, PlacesOK
  <2> QED
    BY <2>2, <2>4, <2>5, <2>6, <2>7 DEF TypeOK, PlacesOK, Named
<1>r. ASSUME NEW n \in Nodes, pc[n] \in Named, Replace(n)
      PROVE  /\ lock' \in {NoLock} \cup [id : Identities, stale : BOOLEAN]
             /\ existing' \in [Nodes -> {NoLock} \cup [id : Identities, stale : BOOLEAN]]
             /\ keeper' \in Hosts /\ lapsed' \subseteq Nodes /\ raced' \subseteq Nodes
  <2>1. hwid[n] \in Identities /\ view[n].host \in Hosts
    BY <1>r DEF TypeOK, Named, Hosts
  <2> QED
    BY <1>r, <2>1 DEF Replace, TypeOK
<1>16. ASSUME NEW n \in Nodes, ReplaceLock(n) PROVE TypeOK'
  <2>1. PlacesOK' /\ \A m \in Nodes : pc'[m] \in Named => pc[m] \in Named
    BY <1>16 DEF ReplaceLock, TypeOK, PlacesOK, Named
  <2>2. UNCHANGED <<docker, view, licensed, hwid, migrations, glitches, blind, shaken,
                    unsettled, network, known, attempts>>
    BY <1>16 DEF ReplaceLock
  <2>3. /\ lock' \in {NoLock} \cup [id : Identities, stale : BOOLEAN]
        /\ existing' \in [Nodes -> {NoLock} \cup [id : Identities, stale : BOOLEAN]]
        /\ keeper' \in Hosts /\ lapsed' \subseteq Nodes /\ raced' \subseteq Nodes
    BY <1>16, <1>r DEF ReplaceLock, Named
  <2> QED
    BY <2>1, <2>2, <2>3 DEF TypeOK, PlacesOK, Named
<1>8. ASSUME NEW n \in Nodes, Announce(n) PROVE TypeOK'
  <2>1. DockerIdentity(n) # NoHwid
    BY <1>8 DEF Announce, Inv, PlaceInv, ClearedInv, Known
  <2>2. attempts' \in [Nodes -> 0..(Retries - 1)] /\ NoHwid \notin known' /\ network' \in BOOLEAN
    <3>1. /\ attempts \in [Nodes -> 0..(Retries - 1)] /\ NoHwid \notin known
          /\ network \in BOOLEAN /\ Retries \in Nat \ {0}
      BY RetriesAssumption DEF TypeOK
    <3>2. AttemptSucceeds(n, DockerIdentity(n)) \/ AttemptFails(n, DockerIdentity(n))
          \/ LastAttemptFails(n, DockerIdentity(n))
      BY <1>8 DEF Announce
    <3>3. NoHwid \notin known' /\ network' = network
      BY <2>1, <3>1, <3>2 DEF AttemptSucceeds, AttemptFails, LastAttemptFails
    <3>4. \E k \in 0..(Retries - 1) : attempts' = [attempts EXCEPT ![n] = k]
      BY <3>1, <3>2 DEF AttemptSucceeds, AttemptFails, LastAttemptFails
    <3> QED
      BY <3>1, <3>3, <3>4
  <2>3. UNCHANGED <<docker, view, licensed, hwid, existing, lock, migrations, glitches, past>>
    BY <1>8 DEF Announce
  <2>4. PlacesOK' /\ \A m \in Nodes : pc'[m] \in Named => pc[m] \in Named
    BY <1>8 DEF Announce, TypeOK, PlacesOK, Named
  <2> QED
    BY <2>2, <2>3, <2>4 DEF TypeOK, PlacesOK, Named
<1>s. ASSUME NEW n \in Nodes, pc[n] \in Known, SendBeacon(n)
      PROVE  network' \in BOOLEAN /\ attempts' = attempts /\ NoHwid \notin known'
  <2>1. docker => DockerIdentity(n) # NoHwid
    BY <1>s DEF Inv, ClearedInv
  <2>2. network \in BOOLEAN /\ NoHwid \notin known
    BY DEF TypeOK
  <2>3. IF docker THEN Send(DockerIdentity(n)) ELSE UNCHANGED phVars
    BY <1>s DEF SendBeacon
  <2> QED
    BY <2>1, <2>2, <2>3 DEF Send
<1>9. ASSUME NEW n \in Nodes, Beat(n) PROVE TypeOK'
  <2>1. glitches' \in 0..MaxGlitches /\ shaken' \subseteq Hosts
    BY <1>9, GlitchesBounded, ShakenAreHosts DEF Beat, TypeOK
  <2>2. migrations' \in 0..MaxHwidChanges
    BY <1>9, MigrationsBounded DEF Beat
  <2>3. existing' \in [Nodes -> {NoLock} \cup [id : Identities, stale : BOOLEAN]]
    <3>1. existing' = existing \/ existing' = [existing EXCEPT ![n] = lock]
      BY <1>9 DEF Beat
    <3>2. /\ lock \in {NoLock} \cup [id : Identities, stale : BOOLEAN]
          /\ existing \in [Nodes -> {NoLock} \cup [id : Identities, stale : BOOLEAN]]
      BY DEF TypeOK
    <3> QED
      BY <3>1, <3>2
  <2>4. network' \in BOOLEAN /\ attempts' \in [Nodes -> 0..(Retries - 1)] /\ NoHwid \notin known'
    <3>1. SendBeacon(n) \/ UNCHANGED <<network, known, attempts>>
      BY <1>9 DEF Beat
    <3> QED
      BY <1>9, <1>s, <3>1 DEF Beat, Known, TypeOK
  <2>5. PlacesOK' /\ \A m \in Nodes : pc'[m] \in Named => pc[m] \in Named
    BY <1>9 DEF Beat, TypeOK, PlacesOK, Named
  <2>6. UNCHANGED <<docker, view, licensed, hwid, lock, keeper, blind, lapsed, raced, unsettled>>
    BY <1>9 DEF Beat
  <2> QED
    BY <2>1, <2>2, <2>3, <2>4, <2>5, <2>6 DEF TypeOK, PlacesOK, Named
<1>17. ASSUME NEW n \in Nodes, Refresh(n) PROVE TypeOK'
  <2>1. PlacesOK' /\ \A m \in Nodes : pc'[m] \in Named => pc[m] \in Named
    BY <1>17 DEF Refresh, TypeOK, PlacesOK, Named
  <2>2. UNCHANGED <<docker, view, licensed, hwid, migrations, glitches, blind, shaken, unsettled>>
    BY <1>17 DEF Refresh
  <2>3. /\ lock' \in {NoLock} \cup [id : Identities, stale : BOOLEAN]
        /\ existing' \in [Nodes -> {NoLock} \cup [id : Identities, stale : BOOLEAN]]
        /\ keeper' \in Hosts /\ lapsed' \subseteq Nodes /\ raced' \subseteq Nodes
    BY <1>17, <1>r DEF Refresh, Named
  <2>4. network' \in BOOLEAN /\ attempts' = attempts /\ NoHwid \notin known'
    BY <1>17, <1>s DEF Refresh, Known
  <2> QED
    BY <2>1, <2>2, <2>3, <2>4 DEF TypeOK, PlacesOK, Named
<1>10. ASSUME NEW n \in Nodes, BeatIsRefused(n) PROVE TypeOK'
  <2>1. glitches' \in 0..MaxGlitches /\ shaken' \subseteq Hosts
    BY <1>10, GlitchesBounded, ShakenAreHosts DEF BeatIsRefused
  <2>2. migrations' \in 0..MaxHwidChanges
    BY <1>10, MigrationsBounded DEF BeatIsRefused
  <2> QED
    BY <1>10, <2>1, <2>2 DEF BeatIsRefused, TypeOK
<1>11. CASE LockExpires
  <2>1. lock' \in [id : Identities, stale : BOOLEAN]
    BY <1>11 DEF LockExpires, TypeOK
  <2> QED
    BY <1>11, <2>1 DEF LockExpires, TypeOK
<1>12. ASSUME NEW n \in Nodes, Exit(n) PROVE TypeOK'
  <2>1. attempts' \in [Nodes -> 0..(Retries - 1)]
    <3>1. attempts \in [Nodes -> 0..(Retries - 1)]
      BY DEF TypeOK
    <3>2. 0 \in 0..(Retries - 1)
      BY RetriesAssumption
    <3>3. attempts' = [attempts EXCEPT ![n] = 0]
      BY <1>12 DEF Exit
    <3> QED
      BY <3>1, <3>2, <3>3
  <2> QED
    BY <1>12, <2>1 DEF Exit, Forget, TypeOK
<1>13. ASSUME NEW n \in Nodes, Rebuild(n) PROVE TypeOK'
  <2>1. shaken' \subseteq Hosts
    BY <1>13, ShakenAreHosts DEF Rebuild
  <2>2. view' \in [Nodes -> Views]
    BY <1>13, StartupAssumption DEF Rebuild, TypeOK
  <2> QED
    BY <1>13, <2>1, <2>2 DEF Rebuild, TypeOK
<1>14. CASE LicenseChanges \/ ServerChanges
  BY <1>14 DEF LicenseChanges, ServerChanges, NetworkChanges, TypeOK
<1>15. CASE UNCHANGED vars
  BY <1>15 DEF vars, TypeOK
<1> QED
  BY <1>1, <1>2, <1>3, <1>4, <1>5, <1>6, <1>7, <1>8, <1>9, <1>10, <1>11, <1>12, <1>13,
     <1>14, <1>15, <1>16, <1>17 DEF Next, Startup

-----------------------------------------------------------------------------
(* Which layers a process goes through.                                    *)
LEMMA PlaceStep == Inv /\ [Next]_vars => PlaceInv'
<1> SUFFICES ASSUME Inv, [Next]_vars PROVE PlaceInv'
  OBVIOUS
<1>1. docker' = docker
  BY DEF Next, Startup, Begin, Entrypoint, DetectVm, LoadActivation, Validate, CheckIntegrity,
     ReadLock, ReplaceLock, Announce, Beat, Refresh, BeatIsRefused, LockExpires, Exit, Rebuild,
     LicenseChanges, ServerChanges, vars
<1>2. CASE pc' = pc
  BY <1>1, <1>2 DEF Inv, PlaceInv
<1>3. ASSUME NEW n \in Nodes, Begin(n) \/ Exit(n) PROVE PlaceInv'
  BY <1>1, <1>3 DEF Begin, Exit, Inv, PlaceInv, TypeOK
<1>4. ASSUME NEW n \in Nodes, Startup(n) \/ Beat(n) \/ Refresh(n) PROVE PlaceInv'
  <2>1. \E layer \in {"activation", "validate", "integrity", "lock", "replace", "announce",
                      "running", "refreshing", "refused"} :
          /\ pc' = [pc EXCEPT ![n] = layer] \/ pc' = pc
          /\ layer \in {"activation", "announce"} => docker
    BY <1>4 DEF Startup, Entrypoint, DetectVm, LoadActivation, Validate, CheckIntegrity,
       ReadLock, ReplaceLock, Announce, Beat, Refresh, GoTo, Refuse, Pass, Inv, PlaceInv
  <2> QED
    BY <1>1, <2>1 DEF Inv, PlaceInv, TypeOK
<1> QED
  BY <1>2, <1>3, <1>4 DEF Next, BeatIsRefused, LockExpires, Rebuild, LicenseChanges,
     ServerChanges, vars, nodeVars

-----------------------------------------------------------------------------
(* What the layers have found.                                             *)

(* A process that is up knows its machine to stay the same.                *)
LEMMA MachineStays ==
  ASSUME Inv, [Next]_vars, NEW n \in Nodes, pc'[n] \notin {"off"}, pc[n] # "off"
  PROVE  view'[n] = view[n] /\ docker' = docker /\ known \subseteq known'
<1>1. docker' = docker
  BY DEF Next, Startup, Begin, Entrypoint, DetectVm, LoadActivation, Validate, CheckIntegrity,
     ReadLock, ReplaceLock, Announce, Beat, Refresh, BeatIsRefused, LockExpires, Exit, Rebuild,
     LicenseChanges, ServerChanges, vars
<1>2. known \subseteq known'
  BY DEF Next, Startup, Begin, Entrypoint, DetectVm, LoadActivation, Validate, CheckIntegrity,
     ReadLock, ReplaceLock, Announce, AttemptSucceeds, AttemptFails, LastAttemptFails, Beat,
     Refresh, SendBeacon, Send, BeatIsRefused, LockExpires, Exit, Rebuild, LicenseChanges,
     ServerChanges, NetworkChanges, vars, phVars
<1>3. view'[n] = view[n]
  BY DEF Next, Startup, Begin, Entrypoint, DetectVm, LoadActivation, Validate, CheckIntegrity,
     ReadLock, ReplaceLock, Announce, Beat, Refresh, BeatIsRefused, LockExpires, Exit, Rebuild,
     LicenseChanges, ServerChanges, vars, Inv, TypeOK
<1> QED
  BY <1>1, <1>2, <1>3

(* The ways past a layer.                                                  *)
LEMMA WaysPast ==
  ASSUME Inv, [Next]_vars, NEW n \in Nodes, pc'[n] # pc[n], pc'[n] \in Known
  PROVE  \/ LoadActivation(n) /\ pc[n] = "activation" /\ pc'[n] = "validate"
         \/ DetectVm(n) /\ pc[n] = "vm" /\ pc'[n] = "validate"
         \/ Validate(n) /\ pc[n] = "validate" /\ pc'[n] = "integrity"
         \/ CheckIntegrity(n) /\ pc[n] = "integrity" /\ pc'[n] = "lock"
         \/ ReadLock(n) /\ pc[n] = "lock" /\ pc'[n] = "replace"
         \/ ReplaceLock(n) /\ pc[n] = "replace" /\ pc'[n] = IF docker THEN "announce" ELSE "running"
         \/ Announce(n) /\ pc[n] = "announce" /\ pc'[n] = "running"
         \/ Beat(n) /\ Holds(n) /\ pc[n] = "running" /\ pc'[n] = "refreshing"
         \/ Refresh(n) /\ pc[n] = "refreshing" /\ pc'[n] = "running"
<1>1. DOMAIN pc = Nodes
  BY DEF Inv, TypeOK
<1>2. PICK m \in Nodes : Begin(m) \/ Startup(m) \/ Exit(m) \/ Beat(m) \/ Refresh(m)
  BY DEF Next, BeatIsRefused, LockExpires, Rebuild, LicenseChanges, ServerChanges, vars, nodeVars
<1>3. \E layer : pc' = [pc EXCEPT ![m] = layer] \/ pc' = pc
  BY <1>2 DEF Startup, Begin, Exit, Entrypoint, DetectVm, LoadActivation, Validate,
     CheckIntegrity, ReadLock, ReplaceLock, Announce, Beat, Refresh, GoTo, Refuse, Pass
<1>4. m = n
  BY <1>1, <1>3
<1>5. Startup(n) \/ Beat(n) \/ Refresh(n)
  BY <1>1, <1>2, <1>4 DEF Begin, Exit, Known
<1>6. ~Entrypoint(n)
  BY <1>1 DEF Entrypoint, GoTo, Refuse, Pass, Known
<1>7. CASE DetectVm(n)
  BY <1>1, <1>7 DEF DetectVm, GoTo, Refuse, Pass, Known
<1>8. CASE LoadActivation(n)
  BY <1>1, <1>8 DEF LoadActivation, GoTo, Refuse, Pass, Known
<1>9. CASE Validate(n)
  BY <1>1, <1>9 DEF Validate, GoTo, Refuse, Pass, Known
<1>10. CASE CheckIntegrity(n)
  BY <1>1, <1>10 DEF CheckIntegrity, GoTo, Refuse, Pass, Known
<1>11. CASE ReadLock(n)
  BY <1>1, <1>11 DEF ReadLock, GoTo, Refuse, Known
<1>12. CASE ReplaceLock(n)
  BY <1>1, <1>12 DEF ReplaceLock, GoTo
<1>13. CASE Announce(n)
  BY <1>1, <1>13 DEF Announce, GoTo, Refuse, Known
<1>14. CASE Beat(n)
  BY <1>1, <1>14 DEF Beat, GoTo
<1>15. CASE Refresh(n)
  BY <1>1, <1>15 DEF Refresh, GoTo
<1> QED
  BY <1>5, <1>6, <1>7, <1>8, <1>9, <1>10, <1>11, <1>12, <1>13, <1>14, <1>15 DEF Startup

(* What becomes of the excuses: only a start, or its end, takes back that  *)
(* a detection failed, and only layer 6, too, that a license changed.      *)
LEMMA ExcusesStep ==
  ASSUME [Next]_vars, NEW n \in Nodes
  PROVE  /\ n \in blind /\ n \notin blind' => Begin(n)
         /\ n \in unsettled /\ n \notin unsettled' => Begin(n) \/ Exit(n) \/ CheckIntegrity(n)
<1>1. blind' = blind \/ (\E m \in Nodes : blind' = blind \ {m} /\ Begin(m)) \/ blind \subseteq blind'
  BY DEF Next, Startup, Begin, Entrypoint, DetectVm, LoadActivation, Validate, CheckIntegrity,
     ReadLock, ReplaceLock, Announce, Beat, Refresh, BeatIsRefused, LockExpires, Exit, Rebuild,
     LicenseChanges, ServerChanges, vars, past
<1>2. \/ unsettled \subseteq unsettled'
      \/ \E m \in Nodes : /\ unsettled \ {m} \subseteq unsettled'
                          /\ Begin(m) \/ Exit(m) \/ CheckIntegrity(m)
  BY DEF Next, Startup, Begin, Forget, Entrypoint, DetectVm, LoadActivation, Validate,
     CheckIntegrity, ReadLock, ReplaceLock, Announce, Beat, Refresh, BeatIsRefused, LockExpires,
     Exit, Rebuild, LicenseChanges, ServerChanges, vars, past
<1> QED
  BY <1>1, <1>2

LEMMA ClearedStep == Inv /\ [Next]_vars => ClearedInv'
<1> SUFFICES ASSUME Inv, [Next]_vars, NEW n \in Nodes
    PROVE  /\ docker' /\ pc'[n] \in Known => DockerIdentity(n)' # NoHwid
           /\ docker' /\ pc'[n] \in Known \cup {"activation"} => Determined(view'[n])
           /\ docker' /\ Running(n)' => DockerIdentity(n)' \in known'
           /\ ~docker' /\ BlockVm /\ n \notin blind' /\ pc'[n] \in Known => ~IsVirtual(view'[n], {})
           /\ pc'[n] = "integrity" /\ n \notin unsettled' => licensed'
           /\ pc'[n] \in Intact /\ n \notin unsettled' => Tampered(view'[n], Hashed) = {}
  BY DEF ClearedInv
<1>0. DOMAIN pc = Nodes
  BY DEF Inv, TypeOK
<1>1. CASE pc'[n] \notin Known
  <2>1. pc'[n] \notin Intact /\ pc'[n] # "integrity" /\ ~Running(n)'
    BY <1>1 DEF Known, Intact, Running
  <2>2. ASSUME docker', pc'[n] = "activation" PROVE Determined(view'[n])
    <3>1. CASE pc[n] = "activation"
      <4>1. view'[n] = view[n] /\ docker' = docker
        BY <2>2, <3>1, MachineStays
      <4> QED
        BY <2>2, <3>1, <4>1 DEF Inv, ClearedInv
    <3>2. CASE pc[n] # "activation"
      <4>1. PICK m \in Nodes : Begin(m) \/ Startup(m) \/ Exit(m) \/ Beat(m) \/ Refresh(m)
        BY <2>2, <3>2 DEF Next, BeatIsRefused, LockExpires, Rebuild, LicenseChanges,
           ServerChanges, vars, nodeVars
      <4>2. Entrypoint(m)
        BY <1>0, <2>2, <3>2, <4>1 DEF Startup, Begin, Exit, DetectVm, LoadActivation, Validate,
           CheckIntegrity, ReadLock, ReplaceLock, Announce, Beat, Refresh, GoTo, Refuse, Pass
      <4>3. m = n /\ EntrypointPasses(n) /\ view' = view
        BY <1>0, <2>2, <3>2, <4>2 DEF Entrypoint, GoTo, Refuse, Pass
      <4> QED
        BY <4>3 DEF EntrypointPasses, Determined
    <3> QED
      BY <3>1, <3>2
  <2> QED
    BY <1>1, <2>1, <2>2
<1>2. CASE pc'[n] \in Known
  <2>1. pc[n] # "off" /\ pc'[n] # "off" /\ ~Begin(n) /\ ~Exit(n)
    BY <1>0, <1>2, WaysPast DEF Known, Begin, Exit
  <2>2. view'[n] = view[n] /\ docker' = docker /\ known \subseteq known'
    BY <2>1, MachineStays
  <2>3. DockerIdentity(n)' = DockerIdentity(n)
    BY <2>2 DEF DockerIdentity
  <2>4. docker => DockerIdentity(n) # NoHwid /\ Determined(view[n])
    <3>1. CASE pc[n] \in Known
      BY <3>1 DEF Inv, ClearedInv
    <3>2. CASE pc[n] \notin Known
      <4>1. LoadActivation(n) \/ DetectVm(n)
        BY <1>2, <3>2, WaysPast DEF Known
      <4>2. CASE LoadActivation(n)
        <5>1. Pass(n, DockerIdentity(n) # NoHwid /\ licensed, "validate", "activation")
              /\ pc[n] = "activation"
          BY <4>2 DEF LoadActivation
        <5>2. DockerIdentity(n) # NoHwid
          BY <1>0, <1>2, <5>1 DEF Pass, Refuse, Known
        <5> QED
          BY <5>1, <5>2 DEF Inv, ClearedInv
      <4>3. CASE DetectVm(n)
        BY <4>3 DEF DetectVm, Inv, PlaceInv
      <4> QED
        BY <4>1, <4>2, <4>3
    <3> QED
      BY <3>1, <3>2
  <2>5. docker /\ Running(n)' => DockerIdentity(n) \in known'
    <3>1. CASE Running(n)
      BY <2>2, <3>1 DEF Inv, ClearedInv
    <3>2. CASE ~Running(n) /\ docker /\ Running(n)'
      <4>1. Announce(n) /\ pc'[n] = "running"
        BY <1>2, <3>2, WaysPast DEF Running
      <4> QED
        BY <1>0, <3>2, <4>1 DEF Announce, AttemptSucceeds, Refuse, Running
    <3> QED
      BY <3>1, <3>2
  <2>6. ~docker /\ BlockVm /\ n \notin blind' => ~IsVirtual(view[n], {})
    <3>1. CASE pc[n] \in Known
      <4>1. n \in blind => n \in blind'
        BY <2>1, ExcusesStep
      <4> QED
        BY <3>1, <4>1 DEF Inv, ClearedInv
    <3>2. CASE pc[n] \notin Known
      <4>1. LoadActivation(n) \/ DetectVm(n)
        BY <1>2, <3>2, WaysPast DEF Known
      <4>2. CASE LoadActivation(n)
        BY <4>2 DEF LoadActivation, Inv, PlaceInv
      <4>3. CASE DetectVm(n)
        BY <1>2, <4>3 DEF DetectVm, Pass, Refuse, Inv, TypeOK, Known
      <4> QED
        BY <4>1, <4>2, <4>3
    <3> QED
      BY <3>1, <3>2
  <2>7. ASSUME pc'[n] = "integrity", n \notin unsettled' PROVE licensed'
    <3>1. CASE pc[n] = "integrity"
      <4>1. ~CheckIntegrity(n)
        BY <1>0, <2>7 DEF CheckIntegrity, Pass, GoTo, Refuse
      <4>2. n \notin unsettled /\ licensed
        BY <2>1, <2>7, <3>1, <4>1, ExcusesStep DEF Inv, ClearedInv
      <4>3. ~LicenseChanges
        BY <2>7, <3>1 DEF LicenseChanges
      <4>4. licensed' = licensed
        BY <4>3 DEF Next, Startup, Begin, Entrypoint, DetectVm, LoadActivation, Validate,
           CheckIntegrity, ReadLock, ReplaceLock, Announce, Beat, Refresh, BeatIsRefused,
           LockExpires, Exit, Rebuild, ServerChanges, vars
      <4> QED
        BY <4>2, <4>4
    <3>2. CASE pc[n] # "integrity"
      <4>1. Validate(n)
        BY <1>2, <2>7, <3>2, WaysPast
      <4>2. licensed' = licensed
        BY <4>1 DEF Validate
      <4>3. licensed
        BY <1>0, <2>7, <4>1 DEF Validate, Pass, Refuse
      <4> QED
        BY <4>2, <4>3
    <3> QED
      BY <3>1, <3>2
  <2>8. ASSUME pc'[n] \in Intact, n \notin unsettled' PROVE Tampered(view[n], Hashed) = {}
    <3>1. CASE pc[n] \in Intact
      <4>1. n \notin unsettled
        BY <2>1, <2>8, <3>1, ExcusesStep DEF CheckIntegrity, Intact
      <4> QED
        BY <3>1, <4>1 DEF Inv, ClearedInv
    <3>2. CASE pc[n] \notin Intact
      <4>1. CheckIntegrity(n) /\ pc[n] = "integrity"
        BY <1>2, <2>8, <3>2, WaysPast DEF Intact
      <4>2. PICK hashes \in Baselines :
              /\ Pass(n, Verify(view[n], hashes), "lock", "integrity")
              /\ unsettled' = unsettled \ {m \in {n} : hashes # {}}
        BY <4>1 DEF CheckIntegrity
      <4>3. Verify(view[n], hashes)
        BY <1>0, <2>8, <4>2 DEF Pass, Refuse, Intact
      <4>4. hashes = Hashed
        <5>1. hashes # Hashed => hashes = {} /\ ~licensed
          BY <4>2 DEF Baselines
        <5>2. hashes # Hashed => n \notin unsettled
          BY <2>8, <4>2, <5>1
        <5> QED
          BY <4>1, <5>1, <5>2 DEF Inv, ClearedInv
      <4> QED
        BY <4>3, <4>4 DEF Verify
    <3> QED
      BY <3>1, <3>2
  <2> QED
    BY <2>2, <2>3, <2>4, <2>5, <2>6, <2>7, <2>8
<1> QED
  BY <1>1, <1>2

-----------------------------------------------------------------------------
(* Who has the lock.                                                       *)

(* Where the lock is left alone and nobody gets past layer 7.              *)
LEMMA LockLeftAlone ==
  ASSUME LockInv, UNCHANGED <<hwid, existing, lock, lapsed, raced>>,
         \A n \in Nodes : /\ pc'[n] \in Locked <=> pc[n] \in Locked
                          /\ pc'[n] \in Flight => pc[n] \in Flight
  PROVE  LockInv'
<1>0. hwid' = hwid /\ existing' = existing /\ lock' = lock /\ lapsed' = lapsed /\ raced' = raced
  OBVIOUS
<1>1. \A n \in Nodes : Holds(n)' <=> Holds(n)
  BY <1>0 DEF Holds, Holders, Locked
<1>2. \A n \in Nodes : Blocks(existing[n], hwid[n])' <=> Blocks(existing[n], hwid[n])
  BY <1>0 DEF Blocks
<1> QED
  BY <1>0, <1>1, <1>2 DEF LockInv

(* Whoever replaces a lock that did not block it has it then, and of those *)
(* who had it before, all who have kept their beats up and have not lost a *)
(* race. *)
LEMMA ReplaceStep ==
  ASSUME Inv, NEW m \in Nodes, pc[m] \in Flight, Replace(m), hwid' = hwid,
         pc'[m] \in Locked, \A n \in Nodes \ {m} : pc'[n] = pc[n]
  PROVE  LockInv'
<1>t. /\ LockInv
      /\ lock = NoLock \/ lock \in [id : Identities, stale : BOOLEAN]
      /\ NoLock \notin [id : Identities, stale : BOOLEAN]
      /\ hwid[m] \in Identities
      /\ DOMAIN existing = Nodes
  BY IdentitiesAssumption DEF Inv, TypeOK, Flight
<1>1. lock' # NoLock /\ lock'.id = hwid[m] /\ ~lock'.stale
  <2>1. lock' = [id |-> hwid[m], stale |-> FALSE]
    BY DEF Replace
  <2>2. lock' \in [id : Identities, stale : BOOLEAN]
    BY <1>t, <2>1
  <2> QED
    BY <1>t, <2>1, <2>2
<1>2. /\ lapsed' = lapsed \ Holders(hwid[m])
      /\ raced' = (raced \cup {k \in Nodes : Holds(k) /\ lock # existing[m]}) \ Holders(hwid[m])
      /\ existing' = [existing EXCEPT ![m] = NoLock]
  BY DEF Replace
<1>3. ~Blocks(existing[m], hwid[m])
  BY <1>t DEF LockInv
<1>4. ASSUME NEW n \in Nodes, pc'[n] \in Locked, n \notin lapsed' \cup raced'
      PROVE  Holds(n)'
  <2>1. CASE hwid[n] = hwid[m]
    BY <1>1, <1>4, <2>1 DEF Holds, Holders, Locked
  <2>2. CASE hwid[n] # hwid[m]
    <3>1. n # m /\ pc[n] \in Locked /\ n \notin Holders(hwid[m])
      BY <1>4, <2>2 DEF Holders
    <3>2. n \notin lapsed \cup raced
      BY <1>2, <1>4, <3>1
    <3>3. Holds(n) /\ ~lock.stale
      BY <1>t, <3>1, <3>2 DEF LockInv
    <3>4. lock = existing[m]
      BY <1>2, <1>4, <3>1, <3>3
    <3>5. lock # NoLock /\ lock.id = hwid[n]
      BY <3>3 DEF Holds, Holders
    <3> QED
      BY <1>3, <2>2, <3>3, <3>4, <3>5 DEF Blocks
  <2> QED
    BY <2>1, <2>2
<1>5. ASSUME NEW n \in Nodes, pc'[n] \in Flight PROVE ~Blocks(existing[n], hwid[n])'
  <2>1. CASE n = m
    BY <1>t, <1>2, <2>1 DEF Blocks
  <2>2. CASE n # m
    <3>1. existing'[n] = existing[n] /\ ~Blocks(existing[n], hwid[n])
      BY <1>t, <1>2, <1>5, <2>2 DEF LockInv
    <3> QED
      BY <3>1 DEF Blocks
  <2> QED
    BY <2>1, <2>2
<1> QED
  BY <1>1, <1>4, <1>5 DEF LockInv

LEMMA LockStep == Inv /\ [Next]_vars => LockInv'
<1> SUFFICES ASSUME Inv, [Next]_vars PROVE LockInv'
  OBVIOUS
<1>t. /\ TypeOK /\ LockInv
      /\ lock = NoLock \/ lock \in [id : Identities, stale : BOOLEAN]
      /\ NoLock \notin [id : Identities, stale : BOOLEAN]
      /\ DOMAIN pc = Nodes /\ DOMAIN hwid = Nodes /\ DOMAIN existing = Nodes
  BY IdentitiesAssumption DEF Inv, TypeOK
<1>1. ASSUME NEW m \in Nodes, Begin(m) \/ Exit(m) PROVE LockInv'
  <2>1. /\ lock' = lock /\ lapsed' = lapsed \ {m} /\ raced' = raced \ {m}
        /\ pc'[m] \notin Locked \cup Flight
        /\ \A n \in Nodes \ {m} :
             pc'[n] = pc[n] /\ hwid'[n] = hwid[n] /\ existing'[n] = existing[n]
    BY <1>t, <1>1 DEF Begin, Exit, Forget, Locked, Flight
  <2>2. ~Holds(m)' /\ \A n \in Nodes \ {m} : Holds(n)' <=> Holds(n)
    BY <2>1 DEF Holds, Holders, Locked
  <2>3. \A n \in Nodes \ {m} : Blocks(existing[n], hwid[n])' <=> Blocks(existing[n], hwid[n])
    BY <2>1 DEF Blocks
  <2> QED
    BY <1>t, <2>1, <2>2, <2>3 DEF LockInv
<1>2. ASSUME NEW m \in Nodes,
             \/ Entrypoint(m) \/ DetectVm(m) \/ LoadActivation(m) \/ Validate(m)
             \/ CheckIntegrity(m)
      PROVE  LockInv'
  <2>1. UNCHANGED <<hwid, existing, lock, lapsed, raced>>
    BY <1>2 DEF Entrypoint, DetectVm, LoadActivation, Validate, CheckIntegrity, past
  <2>2. \A n \in Nodes : /\ pc'[n] \in Locked <=> pc[n] \in Locked
                         /\ pc'[n] \in Flight => pc[n] \in Flight
    <3>1. CASE Validate(m)
      BY <1>t, <3>1 DEF Validate, GoTo, Refuse, Pass, Locked, Flight
    <3>2. CASE Entrypoint(m) \/ DetectVm(m) \/ LoadActivation(m) \/ CheckIntegrity(m)
      BY <1>t, <3>2 DEF Entrypoint, DetectVm, LoadActivation, CheckIntegrity, GoTo, Refuse, Pass,
         Locked, Flight
    <3> QED
      BY <1>2, <3>1, <3>2
  <2> QED
    BY <1>t, <2>1, <2>2, LockLeftAlone
<1>3. ASSUME NEW m \in Nodes, Announce(m) PROVE LockInv'
  <2>1. UNCHANGED <<hwid, existing, lock, lapsed, raced>>
    BY <1>3 DEF Announce, past
  <2>2. /\ pc[m] = "announce" /\ pc'[m] \in {"announce", "running", "refused"}
        /\ \A n \in Nodes \ {m} : pc'[n] = pc[n]
    BY <1>t, <1>3 DEF Announce, GoTo, Refuse
  <2>3. \A n \in Nodes : /\ Holds(n)' => Holds(n)
                         /\ pc'[n] \in Locked => (pc[n] \in Locked /\ (Holds(n) => Holds(n)'))
                         /\ pc'[n] \in Flight => pc[n] \in Flight
    BY <2>1, <2>2 DEF Holds, Holders, Locked, Flight
  <2>4. \A n \in Nodes : Blocks(existing[n], hwid[n])' <=> Blocks(existing[n], hwid[n])
    BY <2>1 DEF Blocks
  <2> QED
    BY <1>t, <2>1, <2>3, <2>4 DEF LockInv
<1>4. ASSUME NEW m \in Nodes, ReadLock(m) PROVE LockInv'
  <2>1. PICK id :
          \/ /\ Refuse(m, IF keeper = view[m].host THEN "own lock" ELSE "lock")
             /\ UNCHANGED <<hwid, existing>>
          \/ /\ ~Blocks(lock, id)
             /\ hwid' = [hwid EXCEPT ![m] = id]
             /\ existing' = [existing EXCEPT ![m] = lock]
             /\ GoTo(m, "replace")
    BY <1>4 DEF ReadLock
  <2>2. lock' = lock /\ lapsed' = lapsed /\ raced' = raced /\ pc[m] = "lock"
    BY <1>4 DEF ReadLock
  <2>3. /\ pc'[m] \in {"refused", "replace"}
        /\ \A n \in Nodes \ {m} :
             pc'[n] = pc[n] /\ hwid'[n] = hwid[n] /\ existing'[n] = existing[n]
    BY <1>t, <2>1 DEF GoTo, Refuse
  <2>4. \A n \in Nodes : (Holds(n)' <=> Holds(n)) /\ (pc'[n] \in Locked <=> pc[n] \in Locked)
    BY <2>2, <2>3 DEF Holds, Holders, Locked
  <2>5. ASSUME NEW n \in Nodes, pc'[n] \in Flight PROVE ~Blocks(existing[n], hwid[n])'
    <3>1. CASE n = m
      <4>1. hwid'[m] = id /\ existing'[m] = lock /\ ~Blocks(lock, id)
        BY <1>t, <2>1, <2>5, <3>1 DEF Refuse, Flight
      <4> QED
        BY <3>1, <4>1 DEF Blocks
    <3>2. CASE n # m
      <4>1. ~Blocks(existing[n], hwid[n])
        BY <1>t, <2>3, <2>5, <3>2 DEF LockInv
      <4> QED
        BY <2>3, <3>2, <4>1 DEF Blocks
    <3> QED
      BY <3>1, <3>2
  <2> QED
    BY <1>t, <2>2, <2>4, <2>5 DEF LockInv
<1>5. ASSUME NEW m \in Nodes, ReplaceLock(m) \/ Refresh(m) PROVE LockInv'
  <2>1. /\ pc[m] \in Flight /\ Replace(m) /\ hwid' = hwid
        /\ pc'[m] \in Locked /\ \A n \in Nodes \ {m} : pc'[n] = pc[n]
    BY <1>t, <1>5 DEF ReplaceLock, Refresh, GoTo, Flight, Locked
  <2> QED
    BY <2>1, ReplaceStep
<1>6. ASSUME NEW m \in Nodes, Beat(m) PROVE LockInv'
  <2>1. /\ UNCHANGED <<hwid, lock, lapsed, raced>>
        /\ \A n \in Nodes \ {m} : pc'[n] = pc[n] /\ existing'[n] = existing[n]
    BY <1>t, <1>6 DEF Beat, GoTo
  <2>2. pc[m] = "running" /\ pc'[m] \in {"running", "refreshing"}
    BY <1>t, <1>6 DEF Beat, GoTo
  <2>3. \A n \in Nodes : (Holds(n)' <=> Holds(n)) /\ (pc'[n] \in Locked <=> pc[n] \in Locked)
    BY <2>1, <2>2 DEF Holds, Holders, Locked
  <2>4. ASSUME NEW n \in Nodes, pc'[n] \in Flight PROVE ~Blocks(existing[n], hwid[n])'
    <3>1. CASE n = m
      <4>1. Holds(m) /\ existing'[m] = lock
        BY <1>t, <1>6, <2>2, <2>4, <3>1 DEF Beat, Flight
      <4> QED
        BY <2>1, <3>1, <4>1 DEF Holds, Holders, Blocks
    <3>2. CASE n # m
      <4>1. ~Blocks(existing[n], hwid[n])
        BY <1>t, <2>1, <2>4, <3>2 DEF LockInv
      <4> QED
        BY <2>1, <3>2, <4>1 DEF Blocks
    <3> QED
      BY <3>1, <3>2
  <2> QED
    BY <1>t, <2>1, <2>3, <2>4 DEF LockInv
<1>7. CASE LockExpires
  <2>1. lock \in [id : Identities, stale : BOOLEAN]
    BY <1>t, <1>7 DEF LockExpires
  <2>2. /\ lock' = [lock EXCEPT !.stale = TRUE] /\ lapsed' = lapsed \cup {n \in Nodes : Holds(n)}
        /\ raced' = raced /\ pc' = pc /\ hwid' = hwid /\ existing' = existing
    BY <1>7 DEF LockExpires, nodeVars
  <2>3. lock' # NoLock /\ lock'.id = lock.id
    BY <1>t, <2>1, <2>2
  <2>4. \A n \in Nodes : Holds(n)' <=> Holds(n)
    BY <1>t, <2>1, <2>2, <2>3 DEF Holds, Holders
  <2>5. \A n \in Nodes : Blocks(existing[n], hwid[n])' <=> Blocks(existing[n], hwid[n])
    BY <2>2 DEF Blocks
  <2> QED
    BY <1>t, <2>2, <2>4, <2>5 DEF LockInv
<1>8. CASE UNCHANGED <<pc, hwid, existing, lock, lapsed, raced>>
  BY <1>t, <1>8, LockLeftAlone
<1> QED
  BY <1>1, <1>2, <1>3, <1>4, <1>5, <1>6, <1>7, <1>8 DEF Next, Startup, BeatIsRefused, Rebuild,
     LicenseChanges, ServerChanges, vars, past, nodeVars

-----------------------------------------------------------------------------
(* The invariant holds throughout. *)
LEMMA StartupInvariant == Spec => []Inv
<1>1. Inv /\ [Next]_vars => Inv'
  BY TypesStep, PlaceStep, ClearedStep, LockStep DEF Inv
<1> QED
  BY <1>1, InitInv, PTL DEF Spec

(* What the layers keep of a start has its type, whatever machines there   *)
(* are and however many probes fail (license_middleware.py:140-371). *)
THEOREM StartupTypes == Spec => []TypeOK
<1>1. Inv => TypeOK
  BY DEF Inv
<1> QED
  BY <1>1, StartupInvariant, PTL

(* The half of TwoHostsLookAlike that is about the lock: what runs at once *)
(* on any number of nodes has one identity, unless beats have failed until *)
(* a lock was stale, or a lock was replaced by a start or a refresh that   *)
(* had read it before it was there (concurrency.py:80-104, 114-128,        *)
(* license_middleware.py:287-302). *)
OneIdentityRuns ==
  \A m, n \in Nodes :
    Running(m) /\ Running(n) /\ {m, n} \cap (lapsed \cup raced) = {} => hwid[m] = hwid[n]

THEOREM OneIdentityAtATime == Spec => []OneIdentityRuns
<1>1. Inv => OneIdentityRuns
  BY DEF Inv, LockInv, Holds, Holders, Locked, Running, OneIdentityRuns
<1> QED
  BY <1>1, StartupInvariant, PTL

-----------------------------------------------------------------------------
(* What one host is taken for.                                             *)

(* A host that has never had more than one identity has that of any of its *)
(* nodes. *)
OneIdentityPerHost ==
  \A m, n \in Nodes :
    view[m].host = view[n].host /\ view[m].host \notin shaken => Identity(m) = Identity(n)

(* What a process took for its identity at layer 7 is one of its machine,  *)
(* and the only one of a host that has never had another. *)
OwnIdentity ==
  \A n \in Nodes : pc[n] \in Named =>
    /\ \E lost \in {{}, Commands} : hwid[n] = GenerateHwid(view[n], lost)
    /\ view[n].host \notin shaken => hwid[n] = Identity(n)

(* The lock has the identity of the host that wrote it.                    *)
KeeperIdentity ==
  lock # NoLock =>
    \A n \in Nodes : view[n].host = keeper /\ keeper \notin shaken => lock.id = Identity(n)

(* A refusal lasts until the next start, and is the last that happened.    *)
RefusedInv ==
  \A n \in Nodes :
    /\ reason[n] # "none" => pc[n] = "refused"
    /\ reason[n] = "own lock" => view[n].host \in shaken
    /\ reason[n] = "vm" => IsVirtual(view[n], {})

HostInv == OneIdentityPerHost /\ OwnIdentity /\ KeeperIdentity /\ RefusedInv

LEMMA FourAreFinite ==
  ASSUME NEW a, NEW b, NEW c, NEW d
  PROVE  IsFiniteSet({a, b, c, d})
<1>1. IsFiniteSet({a} \cup {b})
  BY FS_Singleton, FS_AddElement
<1>2. IsFiniteSet(({a} \cup {b}) \cup {c})
  BY <1>1, FS_AddElement
<1>3. IsFiniteSet((({a} \cup {b}) \cup {c}) \cup {d})
  BY <1>2, FS_AddElement
<1>4. (({a} \cup {b}) \cup {c}) \cup {d} = {a, b, c, d}
  OBVIOUS
<1> QED
  BY <1>3, <1>4

(* Checks that fail report less. *)
LEMMA FailingHides ==
  ASSUME NEW v, NEW failed, IsVirtual(v, failed)
  PROVE  IsVirtual(v, {})
<1>1. ChecksOf(v.platform) \subseteq Checks /\ IsFiniteSet(Checks)
  <2>1. Checks = {"mac_address_oui", "windows_bios_string", "windows_registry", "windows_wmi_model",
                  "windows_vm_process", "linux_dmi_string", "linux_cpuid_hypervisor",
                  "linux_container", "linux_vm_process", "macos_model", "macos_vm_process"}
    BY DEF Checks, LooksFor
  <2>2. ChecksOf(v.platform) \subseteq Checks
    BY <2>1 DEF ChecksOf
  <2>3. IsFiniteSet(Checks)
    <3>1. Checks = ({"mac_address_oui", "windows_bios_string", "windows_registry", "windows_wmi_model"}
                     \cup {"windows_vm_process", "linux_dmi_string", "linux_cpuid_hypervisor", "linux_container"})
                     \cup {"linux_vm_process", "macos_model", "macos_vm_process", "mac_address_oui"}
      BY <2>1
    <3> QED
      BY <3>1, FourAreFinite, FS_Union
  <2> QED
    BY <2>2, <2>3
<1>2. Positive(v, failed) \subseteq Positive(v, {}) /\ Positive(v, {}) \subseteq Checks
  BY <1>1 DEF Positive
<1>3. IsFiniteSet(Positive(v, {}))
  BY <1>1, <1>2, FS_Subset
<1>4. Cardinality(Positive(v, failed)) <= Cardinality(Positive(v, {}))
  BY <1>2, <1>3, FS_Subset
<1>5. Cardinality(Positive(v, failed)) \in Nat /\ Cardinality(Positive(v, {})) \in Nat
  BY <1>2, <1>3, FS_Subset, FS_CardinalityType
<1> QED
  BY <1>4, <1>5 DEF IsVirtual

(* What a machine is changes only when it is rebuilt, and that a host has  *)
(* had two identities is never forgotten. *)
LEMMA MachinesStep ==
  ASSUME Inv, [Next]_vars
  PROVE  /\ docker' = docker /\ shaken \subseteq shaken'
         /\ view' = view \/ \E n \in Nodes : Rebuild(n)
<1>1. docker' = docker
  BY DEF Next, Startup, Begin, Entrypoint, DetectVm, LoadActivation, Validate, CheckIntegrity,
     ReadLock, ReplaceLock, Announce, Beat, Refresh, BeatIsRefused, LockExpires, Exit, Rebuild,
     LicenseChanges, ServerChanges, vars
<1>2. shaken \subseteq shaken'
  <2>1. ASSUME NEW n \in Nodes, NEW happened, Shake(n, happened) PROVE shaken \subseteq shaken'
    BY <2>1 DEF Shake
  <2>2. ASSUME NEW n \in Nodes,
               Validate(n) \/ ReadLock(n) \/ Beat(n) \/ BeatIsRefused(n) \/ Rebuild(n)
        PROVE  shaken \subseteq shaken'
    <3>1. CASE Validate(n)
      BY <2>1, <3>1 DEF Validate
    <3>2. CASE ReadLock(n)
      BY <2>1, <3>2 DEF ReadLock
    <3>3. CASE Beat(n) \/ BeatIsRefused(n)
      BY <2>1, <3>3 DEF Beat, BeatIsRefused
    <3>4. CASE Rebuild(n)
      BY <2>1, <3>4 DEF Rebuild
    <3> QED
      BY <2>2, <3>1, <3>2, <3>3, <3>4
  <2>3. CASE shaken' = shaken
    BY <2>3
  <2>4. shaken' = shaken \/ \E n \in Nodes :
          Validate(n) \/ ReadLock(n) \/ Beat(n) \/ BeatIsRefused(n) \/ Rebuild(n)
    BY DEF Next, Startup, Begin, Entrypoint, DetectVm, LoadActivation, CheckIntegrity,
       ReplaceLock, Announce, Refresh, LockExpires, Exit, LicenseChanges, ServerChanges, vars, past
  <2> QED
    BY <2>2, <2>3, <2>4
<1>3. view' = view \/ \E n \in Nodes : Rebuild(n)
  BY DEF Next, Startup, Begin, Entrypoint, DetectVm, LoadActivation, Validate, CheckIntegrity,
     ReadLock, ReplaceLock, Announce, Beat, Refresh, BeatIsRefused, LockExpires, Exit,
     LicenseChanges, ServerChanges, vars
<1> QED
  BY <1>1, <1>2, <1>3

(* A machine that is rebuilt stays on its host, and shakes it if that      *)
(* changes its identity. *)
LEMMA RebuildStep ==
  ASSUME Inv, NEW m \in Nodes, Rebuild(m)
  PROVE  /\ pc[m] = "off" /\ pc' = pc /\ hwid' = hwid /\ reason' = reason
         /\ lock' = lock /\ keeper' = keeper
         /\ <<view[m], view'[m]>> \in Rebuilds
         /\ \A n \in Nodes \ {m} : view'[n] = view[n]
         /\ view'[m].host = view[m].host
         /\ shaken' = shaken \cup {h \in {view[m].host} : Identity(m)' # Identity(m)}
<1>1. PICK v \in Views :
        /\ <<view[m], v>> \in Rebuilds
        /\ view' = [view EXCEPT ![m] = v]
        /\ Shake(m, GenerateHwid(v, {}) # Identity(m))
  BY DEF Rebuild
<1>2. view'[m] = v /\ \A n \in Nodes \ {m} : view'[n] = view[n]
  BY <1>1 DEF Inv, TypeOK
<1>3. v.host = view[m].host
  <2>1. <<view[m], v>>[1].host = <<view[m], v>>[2].host
    BY <1>1, StartupAssumption
  <2> QED
    BY <2>1
<1>4. Identity(m)' = GenerateHwid(v, {})
  BY <1>2 DEF Identity
<1> QED
  BY <1>1, <1>2, <1>3, <1>4 DEF Rebuild, Shake, nodeVars

(* What acquire() makes of the lock it reads, on a machine that takes      *)
(* something for its identity. *)
LEMMA ReadStep ==
  ASSUME Inv, NEW m \in Nodes, ReadLock(m)
  PROVE  /\ pc[m] = "lock" /\ view' = view /\ lock' = lock /\ keeper' = keeper
         /\ \E lost \in {{}, Commands} :
              LET id == GenerateHwid(view[m], lost)
              IN /\ shaken' = shaken \cup {h \in {view[m].host} : id # Identity(m)}
                 /\ \/ /\ Blocks(lock, id)
                       /\ Refuse(m, IF keeper = view[m].host THEN "own lock" ELSE "lock")
                       /\ hwid' = hwid
                    \/ /\ hwid' = [hwid EXCEPT ![m] = id]
                       /\ GoTo(m, "replace")
  BY LossesAreCommands DEF ReadLock, LockIdentity, Shake

(* Who has taken something for its identity has just done so, or keeps to  *)
(* it. *)
LEMMA PastTheLock ==
  ASSUME Inv, [Next]_vars, NEW n \in Nodes, pc'[n] \in Named
  PROVE  (pc[n] \in Named /\ hwid'[n] = hwid[n]) \/ ReadLock(n)
<1>1. CASE pc[n] \notin Named
  BY <1>1, WaysPast DEF Known, Named
<1>2. CASE pc[n] \in Named
  <2>1. DOMAIN hwid = Nodes /\ DOMAIN pc = Nodes
    BY DEF Inv, TypeOK
  <2>2. CASE hwid' = hwid
    BY <1>2, <2>2
  <2>3. ASSUME NEW m \in Nodes, Begin(m) \/ Exit(m) PROVE hwid'[n] = hwid[n]
    <3>1. pc'[m] \notin Named
      BY <2>1, <2>3 DEF Begin, Exit, Named
    <3>2. m # n
      BY <3>1
    <3> QED
      BY <2>1, <2>3, <3>2 DEF Begin, Exit, Forget
  <2>4. ASSUME NEW m \in Nodes, ReadLock(m) PROVE hwid'[n] = hwid[n]
    <3>1. m # n
      BY <1>2, <2>4 DEF ReadLock, Named
    <3> QED
      BY <2>1, <2>4, <3>1, ReadStep
  <2> QED
    BY <1>2, <2>2, <2>3, <2>4 DEF Next, Startup, Entrypoint, DetectVm, LoadActivation, Validate,
       CheckIntegrity, ReplaceLock, Announce, Beat, Refresh, BeatIsRefused, LockExpires, Rebuild,
       LicenseChanges, ServerChanges, vars, nodeVars
<1> QED
  BY <1>1, <1>2

(* Who has written the lock: whoever wrote it before, or one who replaces  *)
(* it in the name of its own identity. *)
LEMMA LockStepOf ==
  ASSUME Inv, [Next]_vars, lock' # NoLock
  PROVE  \/ lock # NoLock /\ lock'.id = lock.id /\ keeper' = keeper
         \/ \E m \in Nodes : pc[m] \in Named /\ view' = view
                             /\ lock'.id = hwid[m] /\ keeper' = view[m].host
<1>1. \/ lock = NoLock \/ lock \in [id : Identities, stale : BOOLEAN]
  BY DEF Inv, TypeOK
<1>2. CASE lock' = lock /\ keeper' = keeper
  BY <1>2
<1>3. ASSUME NEW m \in Nodes, ReplaceLock(m) \/ Refresh(m)
      PROVE  pc[m] \in Named /\ view' = view /\ lock'.id = hwid[m] /\ keeper' = view[m].host
  BY <1>3 DEF ReplaceLock, Refresh, Replace, Named
<1>4. CASE LockExpires
  <2>1. lock # NoLock /\ lock' = [lock EXCEPT !.stale = TRUE] /\ keeper' = keeper
    BY <1>4 DEF LockExpires
  <2> QED
    BY <1>1, <2>1
<1> QED
  BY <1>2, <1>3, <1>4 DEF Next, Startup, Begin, Entrypoint, DetectVm, LoadActivation, Validate,
     CheckIntegrity, ReadLock, Announce, Beat, BeatIsRefused, Exit, Rebuild, LicenseChanges,
     ServerChanges, vars, past

LEMMA HostInit == Init => HostInv
<1> SUFFICES ASSUME Init PROVE HostInv
  OBVIOUS
<1>1. OneIdentityPerHost
  BY DEF Init, OneIdentityPerHost
<1>2. OwnIdentity /\ KeeperIdentity /\ RefusedInv
  BY DEF Init, OwnIdentity, KeeperIdentity, RefusedInv, Named
<1> QED
  BY <1>1, <1>2 DEF HostInv

(* A step leaves a host that has not been shaken with the identity it had. *)
LEMMA IdentitiesKept ==
  ASSUME Inv, [Next]_vars, NEW n \in Nodes
  PROVE  /\ view'[n].host = view[n].host
         /\ view[n].host \notin shaken' => Identity(n)' = Identity(n)
<1>1. CASE view' = view
  BY <1>1 DEF Identity
<1>2. ASSUME NEW m \in Nodes, Rebuild(m)
      PROVE  /\ view'[n].host = view[n].host
             /\ view[n].host \notin shaken' => Identity(n)' = Identity(n)
  <2>1. CASE n = m
    BY <1>2, <2>1, RebuildStep
  <2>2. CASE n # m
    BY <1>2, <2>2, RebuildStep DEF Identity
  <2> QED
    BY <2>1, <2>2
<1> QED
  BY <1>1, <1>2, MachinesStep

LEMMA HostStep == Inv /\ HostInv /\ [Next]_vars => OneIdentityPerHost' /\ OwnIdentity' /\ KeeperIdentity'
<1> SUFFICES ASSUME Inv, HostInv, [Next]_vars
    PROVE    OneIdentityPerHost' /\ OwnIdentity' /\ KeeperIdentity'
  OBVIOUS
<1>s. shaken \subseteq shaken'
  BY MachinesStep
<1>i. \A n \in Nodes : /\ view'[n].host = view[n].host
                       /\ view[n].host \notin shaken' => Identity(n)' = Identity(n)
  BY IdentitiesKept
<1>1. OneIdentityPerHost'
  <2> SUFFICES ASSUME NEW m \in Nodes, NEW n \in Nodes,
                      view'[m].host = view'[n].host, view'[m].host \notin shaken'
      PROVE  Identity(m)' = Identity(n)'
    BY DEF OneIdentityPerHost
  <2>1. Identity(m) = Identity(n)
    BY <1>s, <1>i DEF HostInv, OneIdentityPerHost
  <2> QED
    BY <1>i, <2>1
<1>2. OwnIdentity'
  <2> SUFFICES ASSUME NEW n \in Nodes, pc'[n] \in Named
      PROVE  /\ \E lost \in {{}, Commands} : hwid'[n] = GenerateHwid(view'[n], lost)
             /\ view'[n].host \notin shaken' => hwid'[n] = Identity(n)'
    BY DEF OwnIdentity
  <2>1. CASE pc[n] \in Named /\ hwid'[n] = hwid[n]
    <3>1. view'[n] = view[n]
      BY <2>1, MachineStays DEF Named
    <3>2. /\ \E lost \in {{}, Commands} : hwid[n] = GenerateHwid(view[n], lost)
          /\ view[n].host \notin shaken => hwid[n] = Identity(n)
      BY <2>1 DEF HostInv, OwnIdentity
    <3> QED
      BY <1>s, <1>i, <2>1, <3>1, <3>2
  <2>2. CASE ReadLock(n)
    <3>1. PICK lost \in {{}, Commands} :
            /\ shaken' = shaken \cup {h \in {view[n].host} : GenerateHwid(view[n], lost) # Identity(n)}
            /\ \/ pc' = [pc EXCEPT ![n] = "refused"]
               \/ hwid' = [hwid EXCEPT ![n] = GenerateHwid(view[n], lost)]
      BY <2>2, ReadStep DEF Refuse
    <3>2. hwid'[n] = GenerateHwid(view[n], lost) /\ view' = view
      BY <2>2, <3>1, ReadStep DEF Inv, TypeOK, Named
    <3>3. view[n].host \notin shaken' => GenerateHwid(view[n], lost) = Identity(n)
      BY <3>1
    <3> QED
      BY <1>i, <3>2, <3>3
  <2> QED
    BY <2>1, <2>2, PastTheLock
<1>3. KeeperIdentity'
  <2> SUFFICES ASSUME lock' # NoLock, NEW n \in Nodes, view'[n].host = keeper', keeper' \notin shaken'
      PROVE  lock'.id = Identity(n)'
    BY DEF KeeperIdentity
  <2>1. view[n].host = keeper' /\ Identity(n)' = Identity(n)
    BY <1>i
  <2>2. CASE lock # NoLock /\ lock'.id = lock.id /\ keeper' = keeper
    BY <1>s, <2>1, <2>2 DEF HostInv, KeeperIdentity
  <2>3. ASSUME NEW m \in Nodes, pc[m] \in Named, lock'.id = hwid[m], keeper' = view[m].host
        PROVE  lock'.id = Identity(n)
    <3>1. hwid[m] = Identity(m)
      BY <1>s, <2>3 DEF HostInv, OwnIdentity
    <3>2. Identity(m) = Identity(n)
      BY <1>s, <2>1, <2>3 DEF HostInv, OneIdentityPerHost
    <3> QED
      BY <2>3, <3>1, <3>2
  <2> QED
    BY <2>1, <2>2, <2>3, LockStepOf
<1> QED
  BY <1>1, <1>2, <1>3

(* How a start comes to be refused, and what becomes of one that was.      *)
LEMMA ReasonStep ==
  ASSUME Inv, [Next]_vars, NEW n \in Nodes
  PROVE  \/ reason'[n] = "none"
         \/ reason'[n] = reason[n] /\ (pc[n] = "refused" => pc'[n] = "refused")
         \/ /\ pc[n] # "off" /\ pc'[n] = "refused"
            /\ reason'[n] = "own lock" => ReadLock(n)
            /\ reason'[n] = "vm" => DetectVm(n)
            /\ reason'[n] = "hwid" => Validate(n)
<1>1. DOMAIN pc = Nodes /\ DOMAIN reason = Nodes
  BY DEF Inv, TypeOK
<1>2. CASE pc' = pc /\ reason' = reason
  BY <1>2
<1>3. ASSUME NEW m \in Nodes, Begin(m) \/ Exit(m)
      PROVE  reason'[n] = "none" \/ (reason'[n] = reason[n] /\ pc'[n] = pc[n])
  BY <1>1, <1>3 DEF Begin, Exit, Forget
<1>4. ASSUME NEW m \in Nodes, Startup(m), m # n
      PROVE  reason'[n] = reason[n] /\ pc'[n] = pc[n]
  <2>1. CASE Validate(m)
    BY <1>1, <1>4, <2>1 DEF Validate, GoTo, Refuse, Pass
  <2>2. CASE ReadLock(m) \/ ReplaceLock(m)
    BY <1>1, <1>4, <2>2 DEF ReadLock, ReplaceLock, GoTo, Refuse
  <2>3. CASE Announce(m)
    BY <1>1, <1>4, <2>3 DEF Announce, GoTo, Refuse
  <2>4. CASE DetectVm(m)
    BY <1>1, <1>4, <2>4 DEF DetectVm, GoTo, Refuse, Pass
  <2>5. CASE Entrypoint(m) \/ LoadActivation(m) \/ CheckIntegrity(m)
    BY <1>1, <1>4, <2>5 DEF Entrypoint, LoadActivation, CheckIntegrity, GoTo, Refuse, Pass
  <2> QED
    BY <1>4, <2>1, <2>2, <2>3, <2>4, <2>5 DEF Startup
<1>5. ASSUME Startup(n)
      PROVE  \/ reason'[n] = reason[n] /\ (pc[n] = "refused" => pc'[n] = "refused")
             \/ /\ pc[n] # "off" /\ pc'[n] = "refused"
                /\ reason'[n] = "own lock" => ReadLock(n)
                /\ reason'[n] = "vm" => DetectVm(n)
                /\ reason'[n] = "hwid" => Validate(n)
  <2>1. CASE Validate(n)
    BY <1>1, <2>1 DEF Validate, GoTo, Refuse, Pass
  <2>2. CASE ReadLock(n) \/ ReplaceLock(n)
    BY <1>1, <2>2 DEF ReadLock, ReplaceLock, GoTo, Refuse
  <2>3. CASE Announce(n)
    BY <1>1, <2>3 DEF Announce, GoTo, Refuse
  <2>4. CASE DetectVm(n)
    BY <1>1, <2>4 DEF DetectVm, GoTo, Refuse, Pass
  <2>5. CASE Entrypoint(n) \/ LoadActivation(n) \/ CheckIntegrity(n)
    BY <1>1, <2>5 DEF Entrypoint, LoadActivation, CheckIntegrity, GoTo, Refuse, Pass
  <2> QED
    BY <1>5, <2>1, <2>2, <2>3, <2>4, <2>5 DEF Startup
<1>6. ASSUME NEW m \in Nodes, Beat(m) \/ Refresh(m)
      PROVE  reason'[n] = reason[n] /\ (pc[n] = "refused" => pc'[n] = "refused")
  BY <1>1, <1>6 DEF Beat, Refresh, GoTo
<1> QED
  BY <1>2, <1>3, <1>4, <1>5, <1>6 DEF Next, BeatIsRefused, LockExpires, Rebuild, LicenseChanges,
     ServerChanges, vars, nodeVars

(* The lock of the own host blocks only who takes itself for another, or   *)
(* whom another has been taken for. *)
LEMMA OwnLockBlocks ==
  ASSUME Inv, HostInv, NEW n \in Nodes, ReadLock(n), reason'[n] = "own lock", reason[n] # "own lock"
  PROVE  /\ view' = view /\ view[n].host \in shaken'
         /\ lock # NoLock /\ keeper = view[n].host
         /\ \E lost \in {{}, Commands} : lock.id # GenerateHwid(view[n], lost)
<1>1. PICK lost \in {{}, Commands} :
        /\ shaken' = shaken \cup {h \in {view[n].host} : GenerateHwid(view[n], lost) # Identity(n)}
        /\ \/ /\ Blocks(lock, GenerateHwid(view[n], lost))
              /\ Refuse(n, IF keeper = view[n].host THEN "own lock" ELSE "lock")
           \/ reason' = reason
  BY ReadStep DEF GoTo
<1>2. Blocks(lock, GenerateHwid(view[n], lost))
      /\ reason'[n] = IF keeper = view[n].host THEN "own lock" ELSE "lock"
  BY <1>1 DEF Refuse, Inv, TypeOK
<1>3. lock # NoLock /\ lock.id # GenerateHwid(view[n], lost) /\ keeper = view[n].host
  BY <1>2 DEF Blocks
<1>4. view[n].host \in shaken'
  <2> SUFFICES ASSUME view[n].host \notin shaken' PROVE FALSE
    OBVIOUS
  <2>1. GenerateHwid(view[n], lost) = Identity(n) /\ view[n].host \notin shaken
    BY <1>1
  <2>2. lock.id = Identity(n)
    BY <1>3, <2>1 DEF HostInv, KeeperIdentity
  <2> QED
    BY <1>3, <2>1, <2>2
<1> QED
  BY <1>3, <1>4, ReadStep

LEMMA RefusedStep == Inv /\ HostInv /\ [Next]_vars => RefusedInv'
<1> SUFFICES ASSUME Inv, HostInv, [Next]_vars, NEW n \in Nodes, reason'[n] # "none"
    PROVE  /\ pc'[n] = "refused"
           /\ reason'[n] = "own lock" => view'[n].host \in shaken'
           /\ reason'[n] = "vm" => IsVirtual(view'[n], {})
  BY DEF RefusedInv
<1>1. CASE reason'[n] = reason[n] /\ (pc[n] = "refused" => pc'[n] = "refused")
  <2>1. pc[n] = "refused" /\ pc'[n] = "refused"
    BY <1>1 DEF HostInv, RefusedInv
  <2>2. view'[n] = view[n] /\ shaken \subseteq shaken'
    BY <2>1, MachineStays, MachinesStep
  <2> QED
    BY <1>1, <2>1, <2>2 DEF HostInv, RefusedInv
<1>2. CASE /\ pc[n] # "off" /\ pc'[n] = "refused"
           /\ reason'[n] = "own lock" => ReadLock(n)
           /\ reason'[n] = "vm" => DetectVm(n)
  <2>1. reason[n] # "none" => pc[n] = "refused"
    BY DEF HostInv, RefusedInv
  <2>2. reason'[n] = "own lock" => view'[n].host \in shaken'
    <3>1. CASE ReadLock(n) /\ reason'[n] = "own lock"
      <4>1. reason[n] # "own lock"
        BY <2>1, <3>1 DEF ReadLock
      <4> QED
        BY <3>1, <4>1, OwnLockBlocks
    <3> QED
      BY <1>2, <3>1
  <2>3. reason'[n] = "vm" => IsVirtual(view'[n], {})
    <3>1. CASE DetectVm(n) /\ reason'[n] = "vm"
      <4>1. reason[n] # "vm" /\ view' = view
        BY <2>1, <3>1 DEF DetectVm
      <4>2. PICK failed : Pass(n, ~(BlockVm /\ IsVirtual(view[n], failed)), "validate", "vm")
        BY <3>1 DEF DetectVm
      <4>3. IsVirtual(view[n], failed)
        BY <3>1, <4>1, <4>2 DEF Pass, GoTo
      <4> QED
        BY <4>1, <4>3, FailingHides
    <3> QED
      BY <1>2, <3>1
  <2> QED
    BY <1>2, <2>2, <2>3
<1> QED
  BY <1>1, <1>2, ReasonStep

LEMMA HostInvariant == Spec => [](Inv /\ HostInv)
<1>1. Inv /\ [Next]_vars => Inv'
  BY TypesStep, PlaceStep, ClearedStep, LockStep DEF Inv
<1>2. Inv /\ HostInv /\ [Next]_vars => HostInv'
  BY HostStep, RefusedStep DEF HostInv
<1> QED
  BY <1>1, <1>2, InitInv, HostInit, PTL DEF Spec

(* The identity of a container does not depend on where the key is that    *)
(* signs it, if it is found. *)
LEMMA KeysAgree ==
  ASSUME NEW v, IsDocker(v), Determined(v), GenerateDockerHwid(v, "configured") # NoHwid, NEW lost
  PROVE  GenerateHwid(v, lost) = GenerateDockerHwid(v, "configured")
<1>1. GenerateHwid(v, lost) = GenerateDockerHwid(v, "default")
  BY DEF Determined, GenerateHwid
<1>2. CASE v.env # Missing
  <2>1. EnvHwid(v, "default") = <<v.env>> /\ EnvHwid(v, "configured") = <<v.env>>
    BY <1>2 DEF Determined, GenerateDockerHwid, EnvHwid
  <2> QED
    BY <1>1, <1>2, <2>1 DEF GenerateDockerHwid
<1>3. CASE v.env = Missing
  BY <1>1, <1>3 DEF GenerateDockerHwid
<1> QED
  BY <1>2, <1>3

(* On any machines, behind any server, with any license: what runs has     *)
(* been cleared by layer 0, by layer 6 unless the license changed under    *)
(* it, and in a container by layer 8, in the name it has in the lock       *)
(* (license_middleware.py:170-201, 255-302, 334-362). *)
THEOREM RunningIsCleared == Spec => []NothingRunsUncleared
<1>1. Inv /\ HostInv => NothingRunsUncleared
  <2> SUFFICES ASSUME Inv, HostInv, NEW n \in Nodes, Running(n)
      PROVE  /\ docker => DockerIdentity(n) \in known
             /\ docker /\ IsDocker(view[n]) => hwid[n] = DockerIdentity(n)
             /\ ~docker /\ BlockVm /\ n \notin blind => ~IsVirtual(view[n], {})
             /\ n \notin unsettled => Tampered(view[n], Hashed) = {}
    BY DEF NothingRunsUncleared
  <2>1. pc[n] \in Known /\ pc[n] \in Intact /\ pc[n] \in Named
    BY DEF Running, Known, Intact, Named
  <2>2. ASSUME docker, IsDocker(view[n]) PROVE hwid[n] = DockerIdentity(n)
    <3>1. DockerIdentity(n) # NoHwid /\ Determined(view[n])
      BY <2>1, <2>2 DEF Inv, ClearedInv
    <3>2. PICK lost \in {{}, Commands} : hwid[n] = GenerateHwid(view[n], lost)
      BY <2>1 DEF HostInv, OwnIdentity
    <3> QED
      BY <2>2, <3>1, <3>2, KeysAgree DEF DockerIdentity
  <2> QED
    BY <2>1, <2>2 DEF Inv, ClearedInv
<1> QED
  BY <1>1, HostInvariant, PTL

(* The two parts of RefusalsAreEarned that need nothing of the machines.   *)
RefusalsAreCaused ==
  \A n \in Nodes :
    /\ reason[n] = "own lock" => view[n].host \in shaken
    /\ reason[n] = "vm" => IsVirtual(view[n], {})

(* On any machines, however they are installed and rebuilt: a lock of the  *)
(* same host refuses a start only if the host has, or a probe that failed  *)
(* has made it seem to have, more than one identity; and a machine is      *)
(* taken for a virtual one only if all its checks together say so          *)
(* (license_middleware.py:170-192, 287-302). *)
THEOREM RefusalsHaveCauses == Spec => []RefusalsAreCaused
<1>1. Inv /\ HostInv => RefusalsAreCaused
  BY DEF HostInv, RefusedInv, RefusalsAreCaused
<1> QED
  BY <1>1, HostInvariant, PTL

-----------------------------------------------------------------------------
(* An installation that is in order.                                       *)

(* Two containers that are given the same of their host: the same mounts,  *)
(* the same variables, and an own machine-id that is the same or that      *)
(* nobody asks for. *)
Agree(v, w) ==
  /\ IsDocker(v) /\ IsDocker(w)
  /\ v.env = w.env /\ v.kubernetes = w.kubernetes /\ v.signed = w.signed /\ v.keys = w.keys
  /\ v.host_id = w.host_id /\ v.dmi_dir = w.dmi_dir /\ v.dmi = w.dmi
  /\ v.own_id = w.own_id \/ HostMachineId(v) # Missing

(* The containers of one host agree, and so do a container and the one     *)
(* that replaces it. *)
SharedMounts ==
  /\ \A s \in Scenarios : \A m, n \in Nodes :
       s.at[m].host = s.at[n].host /\ IsDocker(s.at[m]) => Agree(s.at[m], s.at[n])
  /\ \A r \in Rebuilds : IsDocker(r[1]) \/ IsDocker(r[2]) => Agree(r[1], r[2])

(* What is installed as a machine, and is a container all the same, can    *)
(* tell its host; in docker mode docker_entrypoint.py sees to that. *)
MachinesAreDetermined ==
  \A s \in Scenarios : ~s.docker =>
    \A n \in Nodes : IsDocker(s.at[n]) => Determined(s.at[n])

(* The machine the license was issued for is installed as it was then.     *)
IssuedForHome ==
  \A s \in Scenarios : ~s.docker =>
    \A n \in Nodes : s.at[n].host = Home.host => GenerateHwid(s.at[n], {}) = GenerateHwid(Home, {})

InOrder == SharedMounts /\ MachinesAreDetermined /\ IssuedForHome

(* A container that is given the same of its host as another has the same  *)
(* identity, whatever its own network card and name are                    *)
(* (docker_hwid.py:381-469). *)
THEOREM AgreeingIdentities ==
  ASSUME NEW v, NEW w, Agree(v, w), NEW path
  PROVE  GenerateDockerHwid(v, path) = GenerateDockerHwid(w, path)
<1>1. EnvHwid(v, path) = EnvHwid(w, path)
  BY DEF Agree, EnvHwid
<1>2. /\ HostMachineId(v) = HostMachineId(w) /\ HostDmi(v) = HostDmi(w)
      /\ ValidDmi(v) = ValidDmi(w)
      /\ \A f : Field(v, f) = Field(w, f)
  BY DEF Agree, HostMachineId, HostDmi, ValidDmi, Field
<1>3. Components(v) = Components(w)
  BY <1>2 DEF Components
<1>4. CASE v.own_id = w.own_id
  <2>1. VmMachineId(v) = VmMachineId(w)
    BY <1>4 DEF VmMachineId
  <2>2. CheckBindMounts(v) = CheckBindMounts(w)
    BY <2>1 DEF Agree, CheckBindMounts
  <2> QED
    BY <1>1, <1>2, <1>3, <2>1, <2>2 DEF Agree, GenerateDockerHwid
<1>5. CASE HostMachineId(v) # Missing
  <2>1. CheckBindMounts(v) /\ CheckBindMounts(w)
    BY <1>5 DEF Agree, CheckBindMounts, HostMachineId, Nothing
  <2>2. Components(v) # <<>>
    <3>1. Components(v) = (<<HostMachineId(v)>> \o Given(Field(v, "product_uuid")))
            \o Given(Field(v, IF "board_serial" \in HostDmi(v) THEN "board_serial" ELSE "product_serial"))
      BY <1>5 DEF Components, Given
    <3>2. \A c : Given(c) = <<>> \/ Given(c) = <<c>>
      BY DEF Given
    <3> QED
      BY <3>1, <3>2
  <2> QED
    BY <1>1, <1>2, <1>3, <2>1, <2>2 DEF Agree, GenerateDockerHwid
<1> QED
  BY <1>4, <1>5 DEF Agree

LEMMA AgreeingIsEquivalence ==
  /\ \A v, w : Agree(v, w) => Agree(w, v)
  /\ \A u, v, w : Agree(u, v) /\ Agree(v, w) => Agree(u, w)
<1>1. \A v, w : v.host_id = w.host_id => HostMachineId(v) = HostMachineId(w)
  BY DEF HostMachineId
<1> QED
  BY <1>1 DEF Agree

(* The containers of one host agree, then as now. *)
ContainersAgree ==
  \A m, n \in Nodes : view[m].host = view[n].host /\ IsDocker(view[m]) => Agree(view[m], view[n])

(* A container in which the license is checked as on a machine can tell    *)
(* its host. *)
HostIsTold == ~docker => \A n \in Nodes : IsDocker(view[n]) => Determined(view[n])

(* The home of the license keeps its identity, unless it is shaken.        *)
HomeIdentity ==
  ~docker => \A n \in Nodes :
    view[n].host = Home.host /\ Home.host \notin shaken => Identity(n) = GenerateHwid(Home, {})

(* The lock of a host of containers has the identity of that host.         *)
KeptByHost ==
  lock # NoLock => \A n \in Nodes :
    view[n].host = keeper /\ IsDocker(view[n]) => lock.id = GenerateDockerHwid(view[n], "default")

EarnedReasons ==
  \A n \in Nodes :
    /\ reason[n] = "own lock" => ~IsDocker(view[n])
    /\ reason[n] = "hwid" => view[n].host # Home.host \/ view[n].host \in shaken

OrderInv == ContainersAgree /\ HostIsTold /\ HomeIdentity /\ KeptByHost /\ EarnedReasons

LEMMA OrderInit == InOrder /\ Init => OrderInv
<1> SUFFICES ASSUME InOrder, Init PROVE OrderInv
  OBVIOUS
<1>1. PICK s \in Scenarios : docker = s.docker /\ view = s.at
  BY DEF Init
<1>2. ContainersAgree
  BY <1>1 DEF InOrder, SharedMounts, ContainersAgree
<1>3. HostIsTold
  BY <1>1 DEF InOrder, MachinesAreDetermined, HostIsTold
<1>4. HomeIdentity
  BY <1>1 DEF InOrder, IssuedForHome, HomeIdentity, Identity
<1>5. KeptByHost /\ EarnedReasons
  BY DEF Init, KeptByHost, EarnedReasons
<1> QED
  BY <1>2, <1>3, <1>4, <1>5 DEF OrderInv

(* A container that is made anew agrees with the one it replaces.          *)
LEMMA ContainersKept ==
  ASSUME InOrder, Inv, [Next]_vars, NEW n \in Nodes
  PROVE  /\ view'[n].host = view[n].host
         /\ \/ view'[n] = view[n]
            \/ ~IsDocker(view[n]) /\ ~IsDocker(view'[n])
            \/ Agree(view[n], view'[n])
<1>1. CASE view' = view
  BY <1>1
<1>2. ASSUME NEW m \in Nodes, Rebuild(m)
      PROVE  \/ view'[n] = view[n]
             \/ ~IsDocker(view[n]) /\ ~IsDocker(view'[n])
             \/ Agree(view[n], view'[n])
  <2>1. CASE n # m
    BY <1>2, <2>1, RebuildStep
  <2>2. CASE n = m
    <3>1. <<view[n], view'[n]>> \in Rebuilds
      BY <1>2, <2>2, RebuildStep
    <3>2. IsDocker(view[n]) \/ IsDocker(view'[n]) => Agree(view[n], view'[n])
      BY <3>1 DEF InOrder, SharedMounts
    <3> QED
      BY <3>2
  <2> QED
    BY <2>1, <2>2
<1> QED
  BY <1>1, <1>2, MachinesStep, IdentitiesKept

(* What a container takes for its identity past layer 2 does not depend on *)
(* its probes. *)
LEMMA ContainersIdentity ==
  ASSUME NEW v, IsDocker(v), Determined(v), NEW lost
  PROVE  GenerateHwid(v, lost) = GenerateDockerHwid(v, "default")
  BY DEF Determined, GenerateHwid

LEMMA ToldOfContainers ==
  ASSUME Inv, HostIsTold, NEW n \in Nodes, IsDocker(view[n]), pc[n] \in Known
  PROVE  Determined(view[n])
  BY DEF HostIsTold, Inv, TypeOK, ClearedInv

LEMMA OrderStep == InOrder /\ Inv /\ HostInv /\ OrderInv /\ [Next]_vars => OrderInv'
<1> SUFFICES ASSUME InOrder, Inv, HostInv, OrderInv, [Next]_vars
    PROVE    OrderInv'
  OBVIOUS
<1>o. ContainersAgree /\ HostIsTold /\ HomeIdentity /\ KeptByHost /\ EarnedReasons
  BY DEF OrderInv
<1>s. docker' = docker /\ shaken \subseteq shaken'
  BY MachinesStep
<1>i. \A n \in Nodes :
        /\ view'[n].host = view[n].host
        /\ \/ view'[n] = view[n]
           \/ ~IsDocker(view[n]) /\ ~IsDocker(view'[n])
           \/ Agree(view[n], view'[n])
  BY ContainersKept
<1>d. \A n \in Nodes : IsDocker(view'[n]) =>
        /\ IsDocker(view[n])
        /\ GenerateDockerHwid(view'[n], "default") = GenerateDockerHwid(view[n], "default")
        /\ Determined(view[n]) => Determined(view'[n])
  <2> SUFFICES ASSUME NEW n \in Nodes, IsDocker(view'[n])
      PROVE  /\ IsDocker(view[n])
             /\ GenerateDockerHwid(view'[n], "default") = GenerateDockerHwid(view[n], "default")
             /\ Determined(view[n]) => Determined(view'[n])
    OBVIOUS
  <2>1. CASE view'[n] = view[n]
    BY <2>1
  <2>2. CASE Agree(view[n], view'[n])
    <3>1. IsDocker(view[n])
      BY <2>2 DEF Agree
    <3>2. GenerateDockerHwid(view'[n], "default") = GenerateDockerHwid(view[n], "default")
      BY <2>2, AgreeingIdentities
    <3> QED
      BY <3>1, <3>2 DEF Determined
  <2> QED
    BY <1>i, <2>1, <2>2
<1>1. ContainersAgree'
  <2> SUFFICES ASSUME NEW m \in Nodes, NEW n \in Nodes,
                      view'[m].host = view'[n].host, IsDocker(view'[m])
      PROVE  Agree(view'[m], view'[n])
    BY DEF ContainersAgree
  <2>1. Agree(view[m], view[n])
    BY <1>o, <1>i, <1>d DEF ContainersAgree
  <2>2. IsDocker(view[m]) /\ IsDocker(view[n])
    BY <2>1 DEF Agree
  <2>3. view'[m] = view[m] \/ Agree(view[m], view'[m])
    BY <1>i, <2>2
  <2>4. view'[n] = view[n] \/ Agree(view[n], view'[n])
    BY <1>i, <2>2
  <2>5. Agree(view'[m], view[n])
    BY <2>1, <2>3, AgreeingIsEquivalence
  <2> QED
    BY <2>4, <2>5, AgreeingIsEquivalence
<1>2. HostIsTold'
  BY <1>o, <1>s, <1>d DEF HostIsTold
<1>3. HomeIdentity'
  <2> SUFFICES ASSUME ~docker, NEW n \in Nodes, view'[n].host = Home.host, Home.host \notin shaken'
      PROVE  Identity(n)' = GenerateHwid(Home, {})
    BY <1>s DEF HomeIdentity
  <2>1. Identity(n)' = Identity(n) /\ view[n].host = Home.host
    BY IdentitiesKept
  <2> QED
    BY <1>o, <1>s, <2>1 DEF HomeIdentity
<1>4. KeptByHost'
  <2> SUFFICES ASSUME lock' # NoLock, NEW n \in Nodes, view'[n].host = keeper', IsDocker(view'[n])
      PROVE  lock'.id = GenerateDockerHwid(view[n], "default")
    BY <1>d DEF KeptByHost
  <2>1. view[n].host = keeper' /\ IsDocker(view[n])
    BY <1>i, <1>d
  <2>2. CASE lock # NoLock /\ lock'.id = lock.id /\ keeper' = keeper
    BY <1>o, <2>1, <2>2 DEF KeptByHost
  <2>3. ASSUME NEW m \in Nodes, keeper' = view[m].host
        PROVE  /\ IsDocker(view[m])
               /\ GenerateDockerHwid(view[m], "default") = GenerateDockerHwid(view[n], "default")
    <3>1. Agree(view[n], view[m])
      BY <1>o, <2>1, <2>3 DEF ContainersAgree
    <3> QED
      BY <3>1, AgreeingIdentities DEF Agree
  <2>4. ASSUME NEW m \in Nodes, pc[m] \in Named, lock'.id = hwid[m], keeper' = view[m].host
        PROVE  lock'.id = GenerateDockerHwid(view[n], "default")
    <3>1. Determined(view[m])
      BY <1>o, <2>3, <2>4, ToldOfContainers DEF Known, Named
    <3>2. \E lost \in {{}, Commands} : hwid[m] = GenerateHwid(view[m], lost)
      BY <2>4 DEF HostInv, OwnIdentity
    <3> QED
      BY <2>3, <2>4, <3>1, <3>2, ContainersIdentity
  <2> QED
    BY <2>2, <2>4, LockStepOf
<1>5. EarnedReasons'
  <2> SUFFICES ASSUME NEW n \in Nodes, reason'[n] # "none"
      PROVE  /\ reason'[n] = "own lock" => ~IsDocker(view'[n])
             /\ reason'[n] = "hwid" => view'[n].host # Home.host \/ view'[n].host \in shaken'
    BY DEF EarnedReasons
  <2>1. CASE reason'[n] = reason[n] /\ (pc[n] = "refused" => pc'[n] = "refused")
    <3>1. pc[n] = "refused" /\ pc'[n] = "refused"
      BY <2>1 DEF HostInv, RefusedInv
    <3>2. view'[n] = view[n]
      BY <3>1, MachineStays
    <3> QED
      BY <1>o, <1>s, <2>1, <3>2 DEF EarnedReasons
  <2>2. CASE /\ pc[n] # "off" /\ pc'[n] = "refused"
             /\ reason'[n] = "own lock" => ReadLock(n)
             /\ reason'[n] = "hwid" => Validate(n)
    <3>1. reason[n] # "none" => pc[n] = "refused"
      BY DEF HostInv, RefusedInv
    <3>2. ASSUME ReadLock(n), reason'[n] = "own lock" PROVE ~IsDocker(view'[n])
      <4>1. reason[n] # "own lock" /\ pc[n] = "lock"
        BY <3>1, <3>2 DEF ReadLock
      <4>2. /\ view' = view /\ lock # NoLock /\ keeper = view[n].host
            /\ \E lost \in {{}, Commands} : lock.id # GenerateHwid(view[n], lost)
        BY <3>2, <4>1, OwnLockBlocks
      <4>3. ASSUME IsDocker(view[n]) PROVE FALSE
        <5>1. Determined(view[n])
          BY <1>o, <4>1, <4>3, ToldOfContainers DEF Known
        <5>2. lock.id = GenerateDockerHwid(view[n], "default")
          BY <1>o, <4>2, <4>3 DEF KeptByHost
        <5> QED
          BY <4>2, <4>3, <5>1, <5>2, ContainersIdentity
      <4> QED
        BY <4>2, <4>3
    <3>3. ASSUME Validate(n), reason'[n] = "hwid", view'[n].host = Home.host
          PROVE  view'[n].host \in shaken'
      <4>1. reason[n] # "hwid" /\ view' = view
        BY <3>1, <3>3 DEF Validate
      <4>2. PICK lost :
              /\ Shake(n, GenerateHwid(view[n], lost) # Identity(n))
              /\ \/ Pass(n, licensed, "integrity", "license")
                 \/ ~IdentityPasses(GenerateHwid(view[n], lost))
        BY <3>3, <4>1 DEF Validate, Refuse, Inv, TypeOK
      <4>3. ~IdentityPasses(GenerateHwid(view[n], lost))
        BY <3>3, <4>1, <4>2 DEF Pass, GoTo, Refuse, Inv, TypeOK
      <4>4. ~docker /\ GenerateHwid(view[n], lost) # GenerateHwid(Home, {})
        BY <4>3 DEF IdentityPasses, Bound
      <4>5. CASE Home.host \notin shaken
        <5>1. Identity(n) = GenerateHwid(Home, {})
          BY <1>o, <3>3, <4>1, <4>4, <4>5 DEF HomeIdentity
        <5> QED
          BY <4>1, <4>2, <4>4, <5>1 DEF Shake
      <4> QED
        BY <1>s, <3>3, <4>5
    <3> QED
      BY <2>2, <3>2, <3>3
  <2> QED
    BY <2>1, <2>2, ReasonStep
<1> QED
  BY <1>1, <1>2, <1>3, <1>4, <1>5 DEF OrderInv

(* In an installation that is in order, no start is refused for its own    *)
(* past: a container never finds the lock of its own host in its way,      *)
(* however often it is made anew and whichever probes fail, and the home   *)
(* of the license is refused for its identity only after that has changed  *)
(* or a probe has failed                                                   *)
(* (hwid_generator.py:235-246, license_middleware.py:170-192, 287-302). *)
THEOREM RefusalsStayEarned == InOrder => (Spec => []RefusalsAreEarned)
<1>1. Inv /\ [Next]_vars => Inv'
  BY TypesStep, PlaceStep, ClearedStep, LockStep DEF Inv
<1>2. Inv /\ HostInv /\ [Next]_vars => HostInv'
  BY HostStep, RefusedStep DEF HostInv
<1>3. HostInv /\ OrderInv => RefusalsAreEarned
  BY DEF HostInv, RefusedInv, OrderInv, EarnedReasons, RefusalsAreEarned
<1> SUFFICES ASSUME InOrder PROVE Spec => []RefusalsAreEarned
  OBVIOUS
<1>4. Init => OrderInv
  BY OrderInit
<1>5. Inv /\ HostInv /\ OrderInv /\ [Next]_vars => OrderInv'
  BY OrderStep
<1> QED
  BY <1>1, <1>2, <1>3, <1>4, <1>5, InitInv, HostInit, PTL DEF Spec

-----------------------------------------------------------------------------
(* What makes one identity of two machines.                                *)

(* A machine has a network card, and what is read as a machine-id or as    *)
(* the name of a node is not a manufacturer's placeholder. *)
Legible(v) ==
  /\ v.mac \notin Nothing \cup {Placeholder}
  /\ Placeholder \notin {v.host_id, v.own_id, v.env}
  /\ v.env # Unreadable

LEMMA GivenIsOfSet ==
  ASSUME NEW S, NEW x, x # Missing => x \in S
  PROVE  Given(x) \in Seq(S)
<1>1. CASE x = Missing
  <2>1. Given(x) = <<>>
    BY <1>1 DEF Given
  <2> QED
    BY <2>1
<1>2. CASE x # Missing
  <2>1. Given(x) = <<x>> /\ x \in S
    BY <1>2 DEF Given
  <2>2. <<x>> \in Seq(S)
    BY <2>1
  <2> QED
    BY <2>1, <2>2
<1> QED
  BY <1>1, <1>2

(* Every part of the identity of a container's host tells something.       *)
LEMMA ComponentsTell ==
  ASSUME NEW v, Legible(v)
  PROVE  Components(v) \in Seq(Identifiers(v))
<1> DEFINE a == HostMachineId(v)
           b == Field(v, "product_uuid")
           c == Field(v, IF "board_serial" \in HostDmi(v) THEN "board_serial" ELSE "product_serial")
<1>1. a # Missing => a \in Identifiers(v)
  BY DEF HostMachineId, Legible, Identifiers, Nothing
<1>2. \A f \in {"product_uuid", "board_serial", "product_serial"} :
        Field(v, f) # Missing => Field(v, f) \in Identifiers(v)
  BY DEF Field, HostDmi, DmiFields, Identifiers
<1>3. b # Missing => b \in Identifiers(v)
  BY <1>2
<1>4. c # Missing => c \in Identifiers(v)
  BY <1>2
<1>5. Components(v) = (Given(a) \o Given(b)) \o Given(c)
  BY DEF Components
<1>6. /\ Given(a) \in Seq(Identifiers(v)) /\ Given(b) \in Seq(Identifiers(v))
      /\ Given(c) \in Seq(Identifiers(v))
  BY <1>1, <1>3, <1>4, GivenIsOfSet
<1> HIDE DEF a, b, c
<1>7. Given(a) \o Given(b) \in Seq(Identifiers(v))
  BY <1>6
<1> QED
  BY <1>5, <1>6, <1>7

LEMMA ContainersTell ==
  ASSUME NEW v, Legible(v), NEW path, GenerateDockerHwid(v, path) # NoHwid
  PROVE  /\ 1 \in DOMAIN GenerateDockerHwid(v, path)
         /\ \A i \in DOMAIN GenerateDockerHwid(v, path) : GenerateDockerHwid(v, path)[i] \in Identifiers(v)
<1>1. CASE v.env # Missing
  <2>1. GenerateDockerHwid(v, path) = <<v.env>>
    BY <1>1 DEF GenerateDockerHwid, EnvHwid
  <2>2. v.env \in Identifiers(v)
    BY <1>1 DEF Legible, Identifiers, Nothing
  <2> QED
    BY <2>1, <2>2
<1>2. CASE v.env = Missing /\ Components(v) # <<>>
  <2>1. GenerateDockerHwid(v, path) = Components(v)
    BY <1>2 DEF GenerateDockerHwid
  <2>2. Components(v) \in Seq(Identifiers(v))
    BY ComponentsTell
  <2>3. 1 \in DOMAIN Components(v)
    BY <1>2, <2>2
  <2> QED
    BY <2>1, <2>2, <2>3
<1>3. CASE v.env = Missing /\ Components(v) = <<>>
  <2>1. GenerateDockerHwid(v, path) = <<VmMachineId(v)>> /\ VmMachineId(v) # Missing
    BY <1>3 DEF GenerateDockerHwid
  <2>2. VmMachineId(v) \in Identifiers(v)
    BY <2>1 DEF VmMachineId, Legible, Identifiers
  <2> QED
    BY <2>1, <2>2
<1> QED
  BY <1>1, <1>2, <1>3

LEMMA MachinesTell ==
  ASSUME NEW v, Legible(v), NEW lost
  PROVE  /\ DOMAIN LocalHwid(v, lost) = 1..3
         /\ LocalHwid(v, lost)[3] \in Identifiers(v)
<1>1. v.mac \in Identifiers(v)
  BY DEF Legible, Identifiers
<1> QED
  BY <1>1 DEF LocalHwid

(* Two machines that are taken for one have something in common. *)
LEMMA OneIdentityMeansLikeness ==
  ASSUME NEW v, NEW w, Legible(v), Legible(w), NEW lost, NEW missed,
         GenerateHwid(v, lost) = GenerateHwid(w, missed)
  PROVE  Identifiers(v) \cap Identifiers(w) # {}
<1> DEFINE h == GenerateHwid(v, lost)
<1>v. \/ 1 \in DOMAIN h /\ \A i \in DOMAIN h : h[i] \in Identifiers(v)
      \/ DOMAIN h = 1..3 /\ h[3] \in Identifiers(v)
  BY ContainersTell, MachinesTell DEF GenerateHwid
<1>w. \/ 1 \in DOMAIN h /\ \A i \in DOMAIN h : h[i] \in Identifiers(w)
      \/ DOMAIN h = 1..3 /\ h[3] \in Identifiers(w)
  BY ContainersTell, MachinesTell DEF GenerateHwid
<1> HIDE DEF h
<1>1. \E i \in DOMAIN h : h[i] \in Identifiers(v) /\ h[i] \in Identifiers(w)
  BY <1>v, <1>w
<1> QED
  BY <1>1

(* On any machines with a network card and legible machine-ids, in any     *)
(* number and however they are installed: the license runs on two of them  *)
(* at once only if something they have in common has made one identity of  *)
(* them, if the beats of one have failed until its lock was stale, or if   *)
(* its lock was replaced by one that had read the lock before it was there *)
(* (concurrency.py:80-104, 114-128, docker_hwid.py:439-469,                *)
(* hwid_generator.py:225-252). *)
THEOREM TwoHostsAlwaysLookAlike ==
  (\A v \in Views : Legible(v)) => (Spec => []TwoHostsLookAlike)
<1> SUFFICES ASSUME \A v \in Views : Legible(v)
    PROVE    Spec => []TwoHostsLookAlike
  OBVIOUS
<1>1. Inv /\ HostInv => TwoHostsLookAlike
  <2> SUFFICES ASSUME Inv, HostInv, NEW m \in Nodes, NEW n \in Nodes,
                      Running(m), Running(n), {m, n} \cap (lapsed \cup raced) = {}
      PROVE  hwid[m] = hwid[n] /\ Identifiers(view[m]) \cap Identifiers(view[n]) # {}
    BY DEF TwoHostsLookAlike
  <2>1. hwid[m] = hwid[n]
    BY DEF Inv, LockInv, Holds, Holders, Locked, Running
  <2>2. PICK lost \in {{}, Commands} : hwid[m] = GenerateHwid(view[m], lost)
    BY DEF HostInv, OwnIdentity, Named, Running
  <2>3. PICK missed \in {{}, Commands} : hwid[n] = GenerateHwid(view[n], missed)
    BY DEF HostInv, OwnIdentity, Named, Running
  <2>4. Legible(view[m]) /\ Legible(view[n])
    BY DEF Inv, TypeOK
  <2> QED
    BY <2>1, <2>2, <2>3, <2>4, OneIdentityMeansLikeness
<1> QED
  BY <1>1, HostInvariant, PTL
=============================================================================
