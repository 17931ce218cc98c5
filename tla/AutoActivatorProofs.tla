------------------------- MODULE AutoActivatorProofs -------------------------
(***************************************************************************)
(* AutoActivator for any number of replicas, hosts, boots, crashes, clock  *)
(* corrections and renewals, with replicas that boot beside each other:    *)
(* its types; that a boot waits for a living one; that no boot is refused  *)
(* without a cause; that only a race uncounts a boot; and that only the    *)
(* three ways to lose the count let a license onto more hosts.             *)
(***************************************************************************)
EXTENDS AutoActivator, FiniteSetTheorems, TLAPS

Places == {"off", "check", "verify", "activate",
           "rewrite", "rewrite_queue", "rewrite_locked", "flush", "match",
           "write", "write_queue", "write_locked", "save",
           "start", "running", "blocked", "tampered"}

(* From its decision until it has compared the record, or saved it, a      *)
(* replica has one. *)
HasRecord(r) == Decided(r) \/ Writing(r) \/ pc[r] = "match"

DraftInv == \A r \in Replicas : HasRecord(r) => draft[r] \in Record

TypeInv == TypeOK /\ DraftInv

-----------------------------------------------------------------------------
(* A record whose boots, time or key change is still a record.             *)
LEMMA KeyChanges ==
  ASSUME NEW rec \in Record, NEW k \in Nat
  PROVE  [rec EXCEPT !.key = k] \in Record /\ [rec EXCEPT !.key = k].key = k
  BY DEF Record

LEMMA CountChanges ==
  ASSUME NEW rec \in Record, NEW n \in Nat
  PROVE  /\ [rec EXCEPT !.boot = rec.boot + 1, !.seen = n] \in Record
         /\ [rec EXCEPT !.boot = rec.boot + 1, !.seen = n].key = rec.key
<1>1. rec.boot + 1 \in Nat
  BY DEF Record
<1>2. [rec EXCEPT !.boot = rec.boot + 1] \in Record
  BY <1>1 DEF Record
<1>3. [rec EXCEPT !.boot = rec.boot + 1].key = rec.key
  BY DEF Record
<1>4. ASSUME NEW other \in Record
      PROVE [other EXCEPT !.seen = n] \in Record /\ [other EXCEPT !.seen = n].key = other.key
  BY DEF Record
<1> QED
  BY <1>2, <1>3, <1>4

(* What a readable file holds. *)
LEMMA ReadableRecord == ASSUME TypeOK, Readable PROVE file \in Record
  BY DEF TypeOK, Readable

(* What an activation binds.                                               *)
LEMMA BoundRecord ==
  ASSUME TypeOK, NEW r \in Replicas
  PROVE  [host |-> HostOf[r], jti |-> license, key |-> license,
          count |-> ActivationCount(r), boot |-> 1, seen |-> clock] \in Record
<1>1. ActivationCount(r) \in Nat
  <2>1. CASE Readable /\ file.host # HostOf[r]
    <3>1. file.count \in Nat
      BY <2>1, ReadableRecord DEF Record
    <3> QED
      BY <2>1, <3>1 DEF ActivationCount
  <2>2. CASE ~(Readable /\ file.host # HostOf[r])
    BY <2>2 DEF ActivationCount
  <2> QED
    BY <2>1, <2>2
<1>2. license \in Nat /\ clock \in Nat /\ HostOf[r] \in Hosts
  BY BoundsAssumption DEF TypeOK, Hosts
<1> QED
  BY <1>1, <1>2 DEF Record

(* A step of the entrypoint moves only its own replica, its own record, and *)
(* what the replicas share.                                                *)
LEMMA OthersStay ==
  ASSUME TypeInv, NEW r \in Replicas, Entrypoint(r)
  PROVE  /\ UNCHANGED environment
         /\ pc' \in [Replicas -> Places]
         /\ \A s \in Replicas \ {r} : pc'[s] = pc[s] /\ draft'[s] = draft[s]
<1> USE DEF TypeInv, TypeOK, Places, GoTo
<1>1. CASE CheckActivated(r) \/ VerifyFails(r) \/ VerifyTampered(r) \/ ActivateBlocked(r)
  BY <1>1 DEF CheckActivated, VerifyFails, VerifyTampered, ActivateBlocked
<1>2. CASE VerifyCounts(r) \/ VerifyMatches(r) \/ ActivateBinds(r)
  BY <1>2 DEF VerifyCounts, VerifyMatches, ActivateBinds
<1>3. CASE OpenForWriting(r) \/ TakeLock(r) \/ ReleaseLock(r)
  BY <1>3 DEF OpenForWriting, TakeLock, ReleaseLock
<1>4. CASE CloseRewritten(r) \/ CloseActivated(r) \/ StartApplication(r)
  BY <1>4 DEF CloseRewritten, CloseActivated, StartApplication
<1> QED
  BY <1>1, <1>2, <1>3, <1>4 DEF Entrypoint, Verify, Activate, Write

(* The types hold at first. *)
LEMMA TypeInvInit == Init => TypeInv
  BY BoundsAssumption DEF Init, TypeInv, TypeOK, DraftInv, HasRecord, Decided, Writing, NoRecord

(* What a step of one replica keeps: its record is one, if it has one, and *)
(* so is the file. *)
LEMMA EntrypointTypes ==
  ASSUME TypeInv, NEW r \in Replicas, Entrypoint(r)
  PROVE  TypeInv'
<1> USE DEF TypeInv
<1>0. /\ license \in Nat /\ license \in 0..MaxRenewals /\ clock \in Nat /\ HostOf[r] \in Hosts
      /\ pc \in [Replicas -> Places]
      /\ UNCHANGED environment /\ pc' \in [Replicas -> Places]
      /\ \A s \in Replicas \ {r} : pc'[s] = pc[s] /\ draft'[s] = draft[s]
  BY BoundsAssumption, OthersStay DEF TypeOK, Hosts, Places
<1>1. ASSUME NEW d \in Record \cup {Absent}, draft' = [draft EXCEPT ![r] = d],
             HasRecord(r)' => d \in Record
      PROVE  draft' \in [Replicas -> Record \cup {Absent}] /\ DraftInv'
  <2>1. draft' \in [Replicas -> Record \cup {Absent}] /\ draft'[r] = d
    BY <1>1 DEF TypeOK
  <2>2. \A s \in Replicas \ {r} : HasRecord(s)' = HasRecord(s)
    BY <1>0 DEF HasRecord, Decided, Writing
  <2> QED
    BY <1>0, <1>1, <2>1, <2>2 DEF DraftInv
<1>2. ASSUME draft' \in [Replicas -> Record \cup {Absent}], DraftInv',
             file' \in NoRecord \/ file' \in Record,
             lockedBy' \in Replicas \cup {Nobody},
             granted' \subseteq Hosts, bound' \subseteq Hosts, recorded' \in Nat,
             disturbed' \subseteq {"race", "crash", "home"}
      PROVE  TypeInv'
  BY <1>0, <1>2 DEF TypeOK, Places, environment
<1>3. CASE CheckActivated(r) \/ VerifyFails(r) \/ VerifyTampered(r) \/ ActivateBlocked(r)
  <2>1. UNCHANGED <<file, lockedBy, draft, history>> /\ ~HasRecord(r)'
    BY <1>0, <1>3 DEF CheckActivated, VerifyFails, VerifyTampered, ActivateBlocked, GoTo,
                      HasRecord, Decided, Writing
  <2>2. draft' = [draft EXCEPT ![r] = draft[r]] /\ draft[r] \in Record \cup {Absent}
    BY <2>1 DEF TypeOK
  <2> QED
    BY <1>1, <1>2, <2>1, <2>2 DEF history, TypeOK
<1>4. CASE VerifyCounts(r)
  <2>1. [file EXCEPT !.boot = file.boot + 1, !.seen = clock] \in Record
    BY <1>0, <1>4, ReadableRecord, CountChanges DEF VerifyCounts
  <2>2. draft' = [draft EXCEPT ![r] = [file EXCEPT !.boot = file.boot + 1, !.seen = clock]]
    BY <1>4 DEF VerifyCounts
  <2>3. draft' \in [Replicas -> Record \cup {Absent}] /\ DraftInv'
    BY <1>1, <2>1, <2>2
  <2> QED
    BY <1>2, <1>4, <2>3 DEF VerifyCounts, DecideBeside, Disturb, TypeOK
<1>5. CASE VerifyMatches(r)
  <2>1. draft' = [draft EXCEPT ![r] = Absent] /\ ~HasRecord(r)'
    BY <1>0, <1>5 DEF VerifyMatches, GoTo, HasRecord, Decided, Writing
  <2>2. draft' \in [Replicas -> Record \cup {Absent}] /\ DraftInv'
    BY <1>1, <2>1
  <2> QED
    BY <1>2, <1>5, <2>2 DEF VerifyMatches, history, TypeOK
<1>6. CASE ActivateBinds(r)
  <2>1. draft' \in [Replicas -> Record \cup {Absent}] /\ DraftInv'
    BY <1>1, <1>6, BoundRecord DEF ActivateBinds
  <2> QED
    BY <1>2, <1>6, <2>1 DEF ActivateBinds, TypeOK
<1>7. CASE OpenForWriting(r)
  <2>1. draft[r] \in Record
    BY <1>7 DEF OpenForWriting, DraftInv, HasRecord
  <2>2. [draft[r] EXCEPT !.key = license] \in Record
    BY <1>0, <2>1, KeyChanges
  <2>3. draft' = [draft EXCEPT ![r] = [draft[r] EXCEPT !.key = license]]
    BY <1>7 DEF OpenForWriting
  <2>4. draft' \in [Replicas -> Record \cup {Absent}] /\ DraftInv'
    BY <1>1, <2>2, <2>3
  <2> QED
    BY <1>2, <1>7, <2>4 DEF OpenForWriting, OpenBeside, Disturb, TypeOK, NoRecord
<1>8. CASE TakeLock(r) \/ ReleaseLock(r)
  <2>1. draft[r] \in Record /\ draft' = draft
    BY <1>8 DEF TakeLock, ReleaseLock, DraftInv, HasRecord, Writing
  <2>2. draft' \in [Replicas -> Record \cup {Absent}] /\ DraftInv'
    BY <1>1, <2>1 DEF TypeOK
  <2> QED
    BY <1>2, <1>8, <2>2 DEF TakeLock, ReleaseLock, history, TypeOK
<1>9. CASE CloseRewritten(r) \/ CloseActivated(r)
  <2>1. draft[r] \in Record /\ file' \in Written(r)
    BY <1>9 DEF CloseRewritten, CloseActivated, DraftInv, HasRecord, Writing
  <2>2. file' \in NoRecord \/ file' \in Record
    BY <2>1 DEF Written, NoRecord
  <2>3. draft' = [draft EXCEPT ![r] = draft[r]] \/ (draft' = [draft EXCEPT ![r] = Absent] /\ ~HasRecord(r)')
    BY <1>0, <1>9 DEF CloseRewritten, CloseActivated, TypeOK, GoTo, HasRecord, Decided, Writing
  <2>4. draft' \in [Replicas -> Record \cup {Absent}] /\ DraftInv'
    BY <1>1, <2>1, <2>3
  <2>5. /\ UNCHANGED <<lockedBy, granted, disturbed>>
        /\ recorded' \in {recorded + 1, 1} /\ bound' \in {bound, bound \cup {HostOf[r]}}
    BY <1>9 DEF CloseRewritten, CloseActivated
  <2>6. bound' \subseteq Hosts /\ recorded' \in Nat
    BY <1>0, <2>5 DEF TypeOK
  <2> QED
    BY <1>2, <2>2, <2>4, <2>5, <2>6 DEF TypeOK
<1>10. CASE StartApplication(r)
  <2>1. draft' = draft /\ ~HasRecord(r)'
    BY <1>0, <1>10 DEF StartApplication, GoTo, HasRecord, Decided, Writing
  <2>2. draft' = [draft EXCEPT ![r] = draft[r]] /\ draft[r] \in Record \cup {Absent}
    BY <2>1 DEF TypeOK
  <2>3. draft' \in [Replicas -> Record \cup {Absent}] /\ DraftInv'
    BY <1>1, <2>1, <2>2
  <2> QED
    BY <1>0, <1>2, <1>10, <2>3 DEF StartApplication, TypeOK
<1> QED
  BY <1>3, <1>4, <1>5, <1>6, <1>7, <1>8, <1>9, <1>10 DEF Entrypoint, Verify, Activate, Write

(* Every step keeps the types. *)
LEMMA TypeInvStep == TypeInv /\ [Next]_vars => TypeInv'
<1> SUFFICES ASSUME TypeInv, [Next]_vars PROVE TypeInv'
  OBVIOUS
<1> USE BoundsAssumption DEF TypeInv, TypeOK, DraftInv, HasRecord, Decided, Writing
<1>1. CASE TimePasses \/ ClockStepsBack
  <2>1. /\ UNCHANGED <<file, lockedBy, license, pc, draft, boots, granted, bound, recorded, disturbed>>
        /\ clock' \in 0..1
    BY <1>1 DEF TimePasses, ClockStepsBack, history
  <2>2. incidents' \in 0..MaxIncidents
    BY <1>1 DEF TimePasses, ClockStepsBack, Incident
  <2> QED
    BY <2>1, <2>2
<1>2. CASE Renew
  BY <1>2 DEF Renew, Incident, history
<1>3. ASSUME NEW r \in Replicas, Boot(r) PROVE TypeInv'
  BY <1>3 DEF Boot, GoTo, history
<1>4. ASSUME NEW r \in Replicas, Exit(r) PROVE TypeInv'
  BY <1>4 DEF Exit, GoTo, history, environment
<1>5. ASSUME NEW r \in Replicas, Crash(r) PROVE TypeInv'
  <2>1. lockedBy' \in Replicas \cup {Nobody} /\ disturbed' \subseteq {"race", "crash", "home"}
    BY <1>5 DEF Crash, Disturb
  <2>2. /\ pc' = [pc EXCEPT ![r] = "off"] /\ draft' = [draft EXCEPT ![r] = Absent]
        /\ incidents' \in 0..MaxIncidents
    BY <1>5 DEF Crash, GoTo, Incident
  <2>3. UNCHANGED <<file, license, clock, boots, granted, bound, recorded>>
    BY <1>5 DEF Crash
  <2> QED
    BY <2>1, <2>2, <2>3
<1>6. ASSUME NEW r \in Replicas, Entrypoint(r) PROVE TypeInv'
  BY <1>6, EntrypointTypes
<1>7. CASE UNCHANGED vars
  BY <1>7 DEF vars
<1> QED
  BY <1>1, <1>2, <1>3, <1>4, <1>5, <1>6, <1>7 DEF Next

(* The activation, its file, its lock and its counters keep their types.   *)
THEOREM ActivatorTypeCorrect == Spec => []TypeOK
<1>1. TypeInv => TypeOK
  BY DEF TypeInv
<1> QED
  BY <1>1, TypeInvInit, TypeInvStep, PTL DEF Spec

-----------------------------------------------------------------------------
(* The lock. *)

(* What happens beside the entrypoints: nothing reaches the file, the      *)
(* records and the counts of what was written, and a replica stops.        *)
LEMMA OtherSteps ==
  ASSUME TypeInv, [Next]_vars, \A r \in Replicas : ~Entrypoint(r)
  PROVE  /\ UNCHANGED <<file, granted, bound, recorded>>
         /\ \A s \in Replicas : \/ pc'[s] = pc[s] /\ draft'[s] = draft[s]
                                \/ pc'[s] \in {"off", "check"}
         /\ license <= license' /\ license \in Nat /\ license' \in Nat
         /\ lockedBy' \in {lockedBy, Nobody}
         /\ \A s \in Replicas : lockedBy' = s => \/ pc[s] \notin {"rewrite_locked", "write_locked"}
                                                 \/ pc'[s] = pc[s]
         /\ \/ disturbed' = disturbed
               /\ \A s \in Replicas : Writing(s) => pc'[s] = pc[s] /\ draft'[s] = draft[s]
            \/ disturbed' = disturbed \cup {"crash"}
<1> USE DEF TypeInv, TypeOK, GoTo
<1>0. license \in Nat /\ pc \in [Replicas -> Places]
  BY BoundsAssumption DEF Places
<1>1. CASE TimePasses \/ ClockStepsBack \/ UNCHANGED vars
  BY <1>0, <1>1 DEF TimePasses, ClockStepsBack, history, vars
<1>2. CASE Renew
  BY <1>0, <1>2 DEF Renew, history
<1>3. ASSUME NEW r \in Replicas, Boot(r) \/ Exit(r)
      PROVE  /\ UNCHANGED <<file, lockedBy, license, draft, history>>
             /\ pc[r] \in {"off", "running", "blocked", "tampered"} /\ pc'[r] \in {"off", "check"}
             /\ \A s \in Replicas \ {r} : pc'[s] = pc[s]
  BY <1>3 DEF Boot, Exit, history, environment
<1>4. ASSUME NEW r \in Replicas, Boot(r) \/ Exit(r)
      PROVE  /\ \A s \in Replicas : \/ pc[s] \notin {"rewrite_locked", "write_locked"}
                                    \/ pc'[s] = pc[s]
             /\ \A s \in Replicas : Writing(s) => pc'[s] = pc[s] /\ draft'[s] = draft[s]
  <2>1. ~Writing(r) /\ pc[r] \notin {"rewrite_locked", "write_locked"}
    BY <1>3, <1>4 DEF Writing
  <2> QED
    BY <1>3, <1>4, <2>1
<1>5. ASSUME NEW r \in Replicas, Crash(r)
      PROVE  /\ UNCHANGED <<file, license, granted, bound, recorded>> /\ pc'[r] = "off"
             /\ \A s \in Replicas \ {r} : pc'[s] = pc[s] /\ draft'[s] = draft[s]
             /\ lockedBy' = Nobody \/ (lockedBy' = lockedBy /\ lockedBy # r)
             /\ disturbed' = disturbed \cup {"crash"} \/ (disturbed' = disturbed /\ ~Writing(r))
  <2>1. /\ UNCHANGED <<file, license, granted, bound, recorded>> /\ pc'[r] = "off"
        /\ \A s \in Replicas \ {r} : pc'[s] = pc[s] /\ draft'[s] = draft[s]
    BY <1>5 DEF Crash
  <2>2. lockedBy' = Nobody \/ (lockedBy' = lockedBy /\ lockedBy \in Replicas \ {r})
    BY <1>5 DEF Crash
  <2>3. disturbed' = disturbed \cup {"crash"} \/ (disturbed' = disturbed /\ ~Writing(r))
    BY <1>5 DEF Crash, Disturb
  <2> QED
    BY <2>1, <2>2, <2>3
<1>6. CASE \E r \in Replicas : Boot(r) \/ Exit(r)
  BY <1>0, <1>3, <1>4, <1>6 DEF history
<1>7. CASE \E r \in Replicas : Crash(r)
  <2>1. PICK r \in Replicas : Crash(r)
    BY <1>7
  <2>2. ~Writing(r) => \A s \in Replicas : Writing(s) => pc'[s] = pc[s] /\ draft'[s] = draft[s]
    BY <1>2, <1>5, <2>1
  <2> QED
    BY <1>0, <1>5, <2>1, <2>2, NobodyAssumption
<1> QED
  BY <1>1, <1>2, <1>6, <1>7 DEF Next

(* Every step leaves the lock to a replica that is writing, or to nobody.  *)
LEMMA LockStep ==
  ASSUME TypeInv, LockHasALivingHolder, [Next]_vars
  PROVE  LockHasALivingHolder'
<1>1. CASE \A r \in Replicas : ~Entrypoint(r)
  BY <1>1, OtherSteps, NobodyAssumption DEF LockHasALivingHolder, TypeInv, TypeOK
<1>2. ASSUME NEW r \in Replicas, Entrypoint(r) PROVE LockHasALivingHolder'
  <2>1. CASE TakeLock(r) \/ ReleaseLock(r)
    BY <2>1 DEF TakeLock, ReleaseLock, GoTo, LockHasALivingHolder, TypeInv, TypeOK
  <2>2. CASE lockedBy' = lockedBy /\ pc[r] \notin {"rewrite_locked", "write_locked"}
    <3>1. lockedBy # Nobody => lockedBy \in Replicas \ {r}
      BY <2>2 DEF LockHasALivingHolder, TypeInv, TypeOK
    <3> QED
      BY <1>2, <2>2, <3>1, OthersStay DEF LockHasALivingHolder
  <2> QED
    BY <1>2, <2>1, <2>2 DEF Entrypoint, CheckActivated, Verify, VerifyFails, VerifyTampered,
       VerifyCounts, VerifyMatches, Activate, ActivateBlocked, ActivateBinds, Write,
       OpenForWriting, CloseRewritten, CloseActivated, StartApplication, Decided
<1> QED
  BY <1>1, <1>2

(* No boot waits at the lock for a replica that is gone: for any number of *)
(* replicas and crashes. *)
THEOREM NobodyWaitsForTheDead == Spec => []LockHasALivingHolder
<1>1. Init => TypeInv /\ LockHasALivingHolder
  BY TypeInvInit DEF Init, LockHasALivingHolder
<1>2. TypeInv /\ LockHasALivingHolder /\ [Next]_vars => (TypeInv /\ LockHasALivingHolder)'
  BY TypeInvStep, LockStep
<1> QED
  BY <1>1, <1>2, PTL DEF Spec

-----------------------------------------------------------------------------
(* The causes of a refusal. *)

(* Before the first renewal everything is signed with the first license.   *)
KeyInv ==
  license = 0 => /\ Readable => file.key = 0
                 /\ \A r \in Replicas : /\ HasRecord(r) => draft[r].key = 0
                                        /\ pc[r] # "tampered"

(* The hosts in the records were bound; a replica about to bind has its    *)
(* own. *)
BoundInv ==
  /\ Readable => file.host \in bound
  /\ \A r \in Replicas :
       /\ pc[r] \in {"rewrite", "rewrite_queue", "rewrite_locked", "flush", "match"} =>
            draft[r].host \in bound
       /\ pc[r] \in {"write", "write_queue", "write_locked", "save"} => draft[r].host = HostOf[r]
       /\ pc[r] = "blocked" => bound \ {HostOf[r]} # {}

(* A record that was counted up counts one boot more.                      *)
LEMMA CountedUp ==
  ASSUME NEW rec \in Record, NEW n \in Nat
  PROVE  /\ [rec EXCEPT !.boot = rec.boot + 1, !.seen = n].boot = rec.boot + 1
         /\ [rec EXCEPT !.boot = rec.boot + 1, !.seen = n].host = rec.host
         /\ [rec EXCEPT !.boot = rec.boot + 1, !.seen = n].count = rec.count
  BY DEF Record

(* A record that is signed anew stays what it was.                         *)
LEMMA SignedAnew ==
  ASSUME NEW rec \in Record, NEW k \in Nat
  PROVE  /\ [rec EXCEPT !.key = k].boot = rec.boot
         /\ [rec EXCEPT !.key = k].host = rec.host
         /\ [rec EXCEPT !.key = k].count = rec.count
  BY DEF Record

(* The records of a step: the one a replica has afterwards, and the file.  *)
LEMMA RecordsOfStep ==
  ASSUME TypeInv, NEW r \in Replicas, Entrypoint(r)
  PROVE  \/ /\ UNCHANGED <<file, bound, recorded>> /\ draft'[r] = draft[r]
            /\ ~HasRecord(r) /\ ~HasRecord(r)'
            /\ pc'[r] = "blocked" => Readable /\ file.host # HostOf[r]
            /\ pc'[r] = "tampered" => Readable /\ file.key # license
         \/ /\ UNCHANGED <<file, bound, recorded>> /\ pc'[r] \in {"start", "activate"}
            /\ pc[r] = "match"
         \/ /\ UNCHANGED <<file, bound, recorded>> /\ pc[r] = "verify" /\ pc'[r] = "rewrite"
            /\ Readable /\ file \in Record /\ file.key = license
            /\ draft'[r].host = file.host /\ draft'[r].key = file.key
            /\ draft'[r].boot = file.boot + 1 /\ draft'[r].count = file.count
         \/ /\ UNCHANGED <<file, bound, recorded>> /\ pc[r] = "activate" /\ pc'[r] = "write"
            /\ draft'[r].host = HostOf[r] /\ draft'[r].key = license /\ draft'[r].boot = 1
            /\ draft'[r].count = ActivationCount(r)
         \/ /\ file' = Empty /\ UNCHANGED <<bound, recorded>>
            /\ \/ pc[r] = "rewrite" /\ pc'[r] = "rewrite_queue"
               \/ pc[r] = "write" /\ pc'[r] = "write_queue"
            /\ draft[r] \in Record
            /\ draft'[r].host = draft[r].host /\ draft'[r].key = license
            /\ draft'[r].boot = draft[r].boot /\ draft'[r].count = draft[r].count
         \/ /\ UNCHANGED <<file, bound, recorded>> /\ draft'[r] = draft[r]
            /\ \/ pc[r] = "rewrite_queue" /\ pc'[r] = "rewrite_locked"
               \/ pc[r] = "write_queue" /\ pc'[r] = "write_locked"
               \/ pc[r] = "rewrite_locked" /\ pc'[r] = "flush"
               \/ pc[r] = "write_locked" /\ pc'[r] = "save"
         \/ /\ file' \in {draft[r], Garbled} /\ (file = Empty => file' = draft[r])
            /\ draft'[r] = draft[r] /\ draft[r] \in Record
            /\ pc[r] = "flush" /\ pc'[r] = "match" /\ bound' = bound /\ recorded' = recorded + 1
         \/ /\ file' \in {draft[r], Garbled} /\ (file = Empty => file' = draft[r])
            /\ draft[r] \in Record
            /\ pc[r] = "save" /\ pc'[r] = "start"
            /\ bound' = bound \cup {HostOf[r]} /\ recorded' = 1
<1> USE DEF TypeInv, GoTo
<1>0. /\ pc \in [Replicas -> Places] /\ draft \in [Replicas -> Record \cup {Absent}]
      /\ license \in Nat /\ clock \in Nat
      /\ HasRecord(r) => draft[r] \in Record
  BY BoundsAssumption DEF TypeOK, Places, DraftInv
<1>1. CASE CheckActivated(r) \/ VerifyFails(r) \/ VerifyTampered(r) \/ ActivateBlocked(r)
  BY <1>0, <1>1 DEF CheckActivated, VerifyFails, VerifyTampered, ActivateBlocked, history,
                    HasRecord, Decided, Writing
<1>2. CASE StartApplication(r)
  BY <1>0, <1>2 DEF StartApplication, HasRecord, Decided, Writing
<1>3. CASE VerifyCounts(r)
  <2>1. /\ UNCHANGED <<file, bound, recorded>> /\ pc[r] = "verify" /\ pc'[r] = "rewrite" /\ Readable /\ file.key = license
        /\ draft'[r] = [file EXCEPT !.boot = file.boot + 1, !.seen = clock]
    BY <1>0, <1>3 DEF VerifyCounts
  <2>2. file \in Record
    BY <2>1, ReadableRecord
  <2>3. /\ draft'[r].host = file.host /\ draft'[r].key = file.key
        /\ draft'[r].boot = file.boot + 1 /\ draft'[r].count = file.count
    <3> DEFINE counted == [file EXCEPT !.boot = file.boot + 1, !.seen = clock]
    <3>1. counted.host = file.host /\ counted.boot = file.boot + 1 /\ counted.count = file.count
      BY <1>0, <2>2, CountedUp
    <3>2. counted.key = file.key
      BY <1>0, <2>2, CountChanges
    <3>3. draft'[r] = counted
      BY <2>1
    <3> HIDE DEF counted
    <3> QED
      BY <3>1, <3>2, <3>3
  <2> QED
    BY <2>1, <2>2, <2>3
<1>4. CASE VerifyMatches(r)
  BY <1>0, <1>4 DEF VerifyMatches, history
<1>5. CASE ActivateBinds(r)
  BY <1>0, <1>5 DEF ActivateBinds
<1>6. CASE OpenForWriting(r)
  <2>1. /\ file' = Empty /\ UNCHANGED <<bound, recorded>>
        /\ \/ pc[r] = "rewrite" /\ pc'[r] = "rewrite_queue"
           \/ pc[r] = "write" /\ pc'[r] = "write_queue"
        /\ draft'[r] = [draft[r] EXCEPT !.key = license] /\ HasRecord(r)
    BY <1>0, <1>6 DEF OpenForWriting, Decided, HasRecord
  <2> QED
    BY <1>0, <2>1, SignedAnew, KeyChanges
<1>7. CASE TakeLock(r) \/ ReleaseLock(r)
  BY <1>0, <1>7 DEF TakeLock, ReleaseLock, history
<1>8. CASE CloseRewritten(r)
  BY <1>0, <1>8 DEF CloseRewritten, Written, HasRecord, Writing
<1>9. CASE CloseActivated(r)
  BY <1>0, <1>9 DEF CloseActivated, Written, HasRecord, Writing
<1> QED
  BY <1>1, <1>2, <1>3, <1>4, <1>5, <1>6, <1>7, <1>8, <1>9 DEF Entrypoint, Verify, Activate, Write

(* Every step keeps the keys and the hosts.                                *)
LEMMA CausesStep ==
  ASSUME TypeInv, KeyInv, BoundInv, [Next]_vars
  PROVE  KeyInv' /\ BoundInv'
<1>1. CASE \A r \in Replicas : ~Entrypoint(r)
  <2>1. license' = 0 => license = 0
    BY <1>1, OtherSteps
  <2>2. KeyInv'
    BY <1>1, <2>1, OtherSteps DEF KeyInv, Readable, HasRecord, Decided, Writing
  <2>3. BoundInv'
    BY <1>1, OtherSteps DEF BoundInv, Readable
  <2> QED
    BY <2>2, <2>3
<1>2. ASSUME NEW r \in Replicas, Entrypoint(r) PROVE KeyInv' /\ BoundInv'
  <2>0. license' = license /\ \A s \in Replicas \ {r} : pc'[s] = pc[s] /\ draft'[s] = draft[s]
    BY <1>2, OthersStay DEF environment
  <2>1. ASSUME license = 0
        PROVE  /\ Readable' => file'.key = 0
               /\ HasRecord(r)' => draft'[r].key = 0
               /\ pc'[r] # "tampered"
    BY <1>2, <2>1, RecordsOfStep DEF KeyInv, Readable, NoRecord, HasRecord, Decided, Writing
  <2>2. KeyInv'
    BY <2>0, <2>1 DEF KeyInv, HasRecord, Decided, Writing
  <2>3. bound \subseteq bound'
    BY <1>2, RecordsOfStep
  <2>4. Readable' => file'.host \in bound'
    BY <1>2, RecordsOfStep DEF BoundInv, Readable, NoRecord
  <2>5. /\ pc'[r] \in {"rewrite", "rewrite_queue", "rewrite_locked", "flush", "match"} =>
             draft'[r].host \in bound'
        /\ pc'[r] \in {"write", "write_queue", "write_locked", "save"} => draft'[r].host = HostOf[r]
        /\ pc'[r] = "blocked" => bound' \ {HostOf[r]} # {}
    BY <1>2, RecordsOfStep DEF BoundInv, HasRecord, Decided, Writing
  <2>6. BoundInv'
    BY <2>0, <2>3, <2>4, <2>5 DEF BoundInv
  <2> QED
    BY <2>2, <2>6
<1> QED
  BY <1>1, <1>2

(* No boot is refused without a cause, whatever the others, the clock and  *)
(* crashes do. *)
THEOREM RefusalsAreCaused == Spec => []RefusalsHaveCauses
<1>1. Init => TypeInv /\ KeyInv /\ BoundInv
  BY TypeInvInit DEF Init, KeyInv, BoundInv, Readable, NoRecord, HasRecord, Decided, Writing
<1>2. TypeInv /\ KeyInv /\ BoundInv /\ [Next]_vars => (TypeInv /\ KeyInv /\ BoundInv)'
  BY TypeInvStep, CausesStep
<1>3. KeyInv /\ BoundInv => RefusalsHaveCauses
  BY DEF KeyInv, BoundInv, RefusalsHaveCauses
<1> QED
  BY <1>1, <1>2, <1>3, PTL DEF Spec

(* So without a renewal, the boots of replicas of one host are never       *)
(* refused. *)
THEOREM HomeIsWelcome ==
  MaxRenewals = 0 /\ (\A r, s \in Replicas : HostOf[r] = HostOf[s]) =>
    (Spec => []HomeIsNeverRefused)
<1> SUFFICES ASSUME MaxRenewals = 0, \A r, s \in Replicas : HostOf[r] = HostOf[s]
             PROVE  Spec => []HomeIsNeverRefused
  OBVIOUS
<1>1. TypeOK /\ RefusalsHaveCauses => HomeIsNeverRefused
  BY DEF TypeOK, RefusalsHaveCauses, HomeIsNeverRefused, Hosts
<1> QED
  BY <1>1, ActivatorTypeCorrect, RefusalsAreCaused, PTL

-----------------------------------------------------------------------------
(* The boot counter. *)

Raced == "race" \in disturbed

(* One replica writes at a time, and none has decided while it does.       *)
WritersAlone ==
  \A r, s \in Replicas : r # s /\ Writing(r) => ~Writing(s) /\ ~Decided(s)

(* What is about to be written counts the boot that writes it.             *)
CountInv ==
  ~Raced =>
    /\ WritersAlone
    /\ Readable => file.boot >= recorded
    /\ \A r \in Replicas :
         /\ pc[r] \in {"rewrite", "rewrite_queue", "rewrite_locked", "flush"} =>
              draft[r].boot >= recorded + 1
         /\ pc[r] \in {"write", "write_queue", "write_locked", "save"} => draft[r].boot = 1

(* A race is noticed when a replica decides or opens the file.             *)
LEMMA RacesAreNoticed ==
  ASSUME TypeInv, NEW r \in Replicas, Entrypoint(r), ~Raced', ~Raced => WritersAlone
  PROVE  ~Raced /\ WritersAlone /\ WritersAlone'
<1>0. /\ pc \in [Replicas -> Places] /\ pc' \in [Replicas -> Places]
      /\ \A s \in Replicas \ {r} : pc'[s] = pc[s]
  BY OthersStay DEF TypeInv, TypeOK, Places
<1>1. disturbed \subseteq disturbed'
  BY DEF Entrypoint, CheckActivated, Verify, VerifyFails, VerifyTampered, VerifyCounts, VerifyMatches,
     Activate, ActivateBlocked, ActivateBinds, Write, OpenForWriting, TakeLock, ReleaseLock,
     CloseRewritten, CloseActivated, StartApplication, history, DecideBeside, OpenBeside, Disturb
<1>2. ~Raced /\ WritersAlone
  BY <1>1 DEF Raced
<1>3. CASE VerifyCounts(r) \/ ActivateBinds(r)
  <2>1. \A s \in Replicas \ {r} : ~Writing(s)
    BY <1>3 DEF VerifyCounts, ActivateBinds, DecideBeside, Disturb, Raced
  <2>2. ~Writing(r)'
    BY <1>0, <1>3 DEF VerifyCounts, ActivateBinds, GoTo, Writing
  <2>3. \A s \in Replicas : ~Writing(s)'
    BY <1>0, <2>1, <2>2 DEF Writing
  <2> QED
    BY <1>2, <2>3 DEF WritersAlone
<1>4. CASE OpenForWriting(r)
  <2>1. \A s \in Replicas \ {r} : ~Writing(s) /\ ~Decided(s)
    BY <1>4 DEF OpenForWriting, OpenBeside, Disturb, Raced
  <2>2. \A s \in Replicas \ {r} : ~Writing(s)' /\ ~Decided(s)'
    BY <1>0, <2>1 DEF Writing, Decided
  <2> QED
    BY <1>2, <2>2 DEF WritersAlone
<1>5. ASSUME ~Decided(r)', Writing(r)' => Writing(r) PROVE WritersAlone'
  <2>1. \A s \in Replicas : (Writing(s)' => Writing(s)) /\ (Decided(s)' => Decided(s))
    BY <1>0, <1>5 DEF Writing, Decided
  <2> QED
    BY <1>2, <2>1 DEF WritersAlone
<1>6. CASE TakeLock(r) \/ ReleaseLock(r)
  <2>1. Writing(r) /\ ~Decided(r)'
    BY <1>0, <1>6 DEF TakeLock, ReleaseLock, GoTo, Writing, Decided
  <2> QED
    BY <1>2, <1>5, <2>1
<1>7. CASE CheckActivated(r) \/ VerifyFails(r) \/ VerifyTampered(r) \/ VerifyMatches(r) \/ ActivateBlocked(r)
  <2>1. ~Writing(r)' /\ ~Decided(r)'
    BY <1>0, <1>7 DEF CheckActivated, VerifyFails, VerifyTampered, VerifyMatches, ActivateBlocked,
                      GoTo, Writing, Decided
  <2> QED
    BY <1>2, <1>5, <2>1
<1>8. CASE CloseRewritten(r) \/ CloseActivated(r) \/ StartApplication(r)
  <2>1. ~Writing(r)' /\ ~Decided(r)'
    BY <1>0, <1>8 DEF CloseRewritten, CloseActivated, StartApplication, GoTo, Writing, Decided
  <2> QED
    BY <1>2, <1>5, <2>1
<1> QED
  BY <1>2, <1>3, <1>4, <1>6, <1>7, <1>8 DEF Entrypoint, Verify, Activate, Write

(* What happens beside the entrypoints makes no writers.                   *)
LEMMA NobodyTurnsWriter ==
  ASSUME TypeInv, [Next]_vars, \A r \in Replicas : ~Entrypoint(r)
  PROVE  /\ disturbed \subseteq disturbed' /\ (Raced' <=> Raced)
         /\ WritersAlone => WritersAlone'
<1>1. \A s \in Replicas : (Writing(s)' => Writing(s)) /\ (Decided(s)' => Decided(s))
  BY OtherSteps DEF Writing, Decided
<1>2. disturbed' = disturbed \/ disturbed' = disturbed \cup {"crash"}
  BY OtherSteps
<1>3. disturbed \subseteq disturbed' /\ (Raced' <=> Raced)
  BY <1>2 DEF Raced
<1> QED
  BY <1>1, <1>3 DEF WritersAlone

(* Every step keeps the count, until there is a race.                      *)
LEMMA CountStep ==
  ASSUME TypeInv, CountInv, [Next]_vars
  PROVE  CountInv'
<1>0. recorded \in Nat
  BY DEF TypeInv, TypeOK
<1>1. CASE \A r \in Replicas : ~Entrypoint(r)
  BY <1>1, OtherSteps, NobodyTurnsWriter DEF CountInv, Readable
<1>2. ASSUME NEW r \in Replicas, Entrypoint(r), ~Raced' PROVE CountInv'
  <2>0. /\ ~Raced /\ WritersAlone /\ WritersAlone'
        /\ \A s \in Replicas \ {r} : pc'[s] = pc[s] /\ draft'[s] = draft[s]
    BY <1>2, RacesAreNoticed, OthersStay DEF CountInv
  <2>1. CASE recorded' = recorded
    <3>1. Readable' => file'.boot >= recorded'
      BY <1>0, <1>2, <2>0, <2>1, RecordsOfStep DEF CountInv, Readable, NoRecord
    <3>2. /\ pc'[r] \in {"rewrite", "rewrite_queue", "rewrite_locked", "flush"} =>
               draft'[r].boot >= recorded' + 1
          /\ pc'[r] \in {"write", "write_queue", "write_locked", "save"} => draft'[r].boot = 1
      BY <1>0, <1>2, <2>0, <2>1, RecordsOfStep DEF CountInv, HasRecord, Decided, Writing, Record
    <3> QED
      BY <2>0, <2>1, <3>1, <3>2 DEF CountInv
  <2>2. CASE pc[r] \in {"flush", "save"}
    <3>1. \A s \in Replicas \ {r} : ~Writing(s) /\ ~Decided(s)
      BY <2>0, <2>2 DEF WritersAlone, Writing
    <3>2. /\ file' \in {draft[r], Garbled} /\ draft[r] \in Record /\ pc'[r] \in {"match", "start"}
          /\ pc[r] = "flush" => recorded' = recorded + 1
          /\ pc[r] = "save" => recorded' = 1
      BY <1>2, <2>2, RecordsOfStep DEF HasRecord, Writing
    <3>3. Readable' => file'.boot >= recorded'
      <4>1. /\ pc[r] = "flush" => draft[r].boot >= recorded + 1
            /\ pc[r] = "save" => draft[r].boot = 1
        BY <2>0 DEF CountInv
      <4>2. Readable' => file' = draft[r]
        BY <3>2 DEF Readable, NoRecord
      <4> QED
        BY <1>0, <2>2, <3>2, <4>1, <4>2 DEF Record
    <3>4. \A s \in Replicas : ~Writing(s)' /\ ~Decided(s)'
      BY <2>0, <3>1, <3>2 DEF Writing, Decided
    <3> QED
      BY <2>0, <3>3, <3>4 DEF CountInv, Writing, Decided
  <2> QED
    BY <1>2, <2>1, <2>2, RecordsOfStep
<1> QED
  BY <1>1, <1>2 DEF CountInv

(* A record counts every boot that has written it since the activation,    *)
(* for any replicas, crashes, renewals and corrections of the clock, until *)
(* two replicas write beside each other.                                   *)
THEOREM StartsNeverUncounted == Spec => []StartsAreCounted
<1>1. Init => TypeInv /\ CountInv
  BY TypeInvInit DEF Init, CountInv, WritersAlone, Writing, Readable, NoRecord
<1>2. TypeInv /\ CountInv /\ [Next]_vars => (TypeInv /\ CountInv)'
  BY TypeInvStep, CountStep
<1>3. CountInv => StartsAreCounted
  BY DEF CountInv, StartsAreCounted, Raced
<1> QED
  BY <1>1, <1>2, <1>3, PTL DEF Spec

-----------------------------------------------------------------------------
(* The limit. *)

(* A replica that is about to start the application, on its own host.      *)
Claims(r) == pc[r] = "start" \/ (pc[r] = "match" /\ draft[r].host = HostOf[r])

(* The hosts it has run on, or is about to. *)
Used == granted \cup {h \in Hosts : \E r \in Replicas : HostOf[r] = h /\ Claims(r)}

(* What makes a record fit to be trusted: it counts these hosts and the    *)
(* one it is bound to. *)
Covers(rec, hosts) ==
  /\ rec.count >= 1 /\ rec.count <= Limit
  /\ IsFiniteSet(hosts)
  /\ Cardinality(hosts \cup {rec.host}) <= rec.count

(* Until the count is lost, the file is empty only while it is written,    *)
(* and every record that is there, or about to be, counts the hosts.       *)
LimitInv ==
  disturbed = {} =>
    /\ file # Garbled
    /\ file = Empty <=> \E r \in Replicas : Writing(r)
    /\ file = Absent => Used = {}
    /\ Readable => Covers(file, Used)
    /\ \A r \in Replicas : Decided(r) \/ Writing(r) => Covers(draft[r], Used)

(* A record that counts some hosts counts fewer, too, and its own.         *)
LEMMA CoversFewer ==
  ASSUME NEW rec \in Record, NEW hosts, NEW fewer, Covers(rec, hosts),
         fewer \subseteq hosts \cup {rec.host}
  PROVE  Covers(rec, fewer)
<1>1. IsFiniteSet(hosts \cup {rec.host})
  BY FS_AddElement DEF Covers
<1>2. fewer \in SUBSET (hosts \cup {rec.host}) /\ fewer \cup {rec.host} \in SUBSET (hosts \cup {rec.host})
  OBVIOUS
<1>3. /\ IsFiniteSet(fewer) /\ IsFiniteSet(fewer \cup {rec.host})
      /\ Cardinality(fewer \cup {rec.host}) <= Cardinality(hosts \cup {rec.host})
  BY <1>1, <1>2, FS_Subset
<1>4. Cardinality(fewer \cup {rec.host}) \in Nat /\ Cardinality(hosts \cup {rec.host}) \in Nat
  BY <1>1, <1>3, FS_CardinalityType
<1>5. rec.count \in Nat /\ Cardinality(hosts \cup {rec.host}) <= rec.count
  BY DEF Covers, Record
<1>6. Cardinality(fewer \cup {rec.host}) <= rec.count
  BY <1>3, <1>4, <1>5
<1> QED
  BY <1>3, <1>6 DEF Covers

(* A step of a boot uses no more hosts, but for the one it writes.         *)
LEMMA UsedOfStep ==
  ASSUME TypeInv, BoundInv, NEW r \in Replicas, Entrypoint(r)
  PROVE  /\ pc[r] \notin {"flush", "save"} => Used' \subseteq Used
         /\ pc[r] \in {"flush", "save"} => Used' \subseteq Used \cup {draft[r].host}
<1>0. /\ pc \in [Replicas -> Places] /\ draft \in [Replicas -> Record \cup {Absent}]
      /\ \A s \in Replicas \ {r} : pc'[s] = pc[s] /\ draft'[s] = draft[s]
  BY OthersStay DEF TypeInv, TypeOK, Places
<1>1. \A s \in Replicas \ {r} : Claims(s)' = Claims(s)
  BY <1>0 DEF Claims
<1>2. ASSUME NEW mine \in SUBSET Hosts, granted' \subseteq granted \cup mine,
             Claims(r)' => HostOf[r] \in mine \/ Claims(r)
      PROVE  Used' \subseteq Used \cup mine
  BY <1>1, <1>2 DEF Used
<1>3. CASE CheckActivated(r) \/ VerifyFails(r) \/ VerifyTampered(r) \/ ActivateBlocked(r)
           \/ VerifyCounts(r) \/ ActivateBinds(r)
  <2>1. granted' = granted /\ ~Claims(r)' /\ pc[r] \notin {"flush", "save"}
    BY <1>0, <1>3 DEF CheckActivated, VerifyFails, VerifyTampered, ActivateBlocked, VerifyCounts,
                      ActivateBinds, history, GoTo, Claims
  <2>2. Used' \subseteq Used \cup {}
    BY <1>2, <2>1
  <2> QED
    BY <2>1, <2>2
<1>4. CASE OpenForWriting(r) \/ TakeLock(r) \/ ReleaseLock(r)
  <2>1. granted' = granted /\ ~Claims(r)' /\ pc[r] \notin {"flush", "save"}
    BY <1>0, <1>4 DEF OpenForWriting, TakeLock, ReleaseLock, Decided, history, GoTo, Claims
  <2>2. Used' \subseteq Used \cup {}
    BY <1>2, <2>1
  <2> QED
    BY <2>1, <2>2
<1>5. CASE VerifyMatches(r)
  <2>1. granted' = granted /\ (Claims(r)' => Claims(r)) /\ pc[r] \notin {"flush", "save"}
    BY <1>0, <1>5 DEF VerifyMatches, history, GoTo, Claims
  <2>2. Used' \subseteq Used \cup {}
    BY <1>2, <2>1
  <2> QED
    BY <2>1, <2>2
<1>6. CASE StartApplication(r)
  <2>1. granted' \subseteq granted \cup {HostOf[r]} /\ ~Claims(r)' /\ pc[r] = "start"
    BY <1>0, <1>6 DEF StartApplication, GoTo, Claims
  <2>2. HostOf[r] \in Used
    BY <2>1 DEF Used, Claims, Hosts
  <2>3. Used' \subseteq Used \cup {HostOf[r]}
    BY <1>2, <2>1 DEF Hosts
  <2> QED
    BY <2>1, <2>2, <2>3
<1>7. CASE CloseRewritten(r) \/ CloseActivated(r)
  <2>1. /\ granted' = granted /\ pc[r] \in {"flush", "save"} /\ HasRecord(r)
        /\ pc[r] = "flush" => pc'[r] = "match" /\ draft'[r] = draft[r]
    BY <1>0, <1>7 DEF CloseRewritten, CloseActivated, GoTo, HasRecord, Writing
  <2>2. Claims(r)' => HostOf[r] = draft[r].host
    BY <2>1 DEF Claims, BoundInv
  <2>3. draft[r].host \in Hosts
    BY <2>1 DEF TypeInv, DraftInv, Record
  <2>4. Used' \subseteq Used \cup {draft[r].host}
    <3>1. {draft[r].host} \in SUBSET Hosts /\ granted' \subseteq granted \cup {draft[r].host}
      BY <2>1, <2>3
    <3>2. Claims(r)' => HostOf[r] \in {draft[r].host}
      BY <2>2
    <3> QED
      BY <1>2, <3>1, <3>2
  <2> QED
    BY <2>1, <2>4
<1> QED
  BY <1>3, <1>4, <1>5, <1>6, <1>7 DEF Entrypoint, Verify, Activate, Write

(* An activation is bound with a count that counts its host.               *)
LEMMA BindCovers ==
  ASSUME TypeInv, TypeInv', LimitInv, NEW r \in Replicas, ActivateBinds(r), disturbed' = {}
  PROVE  /\ Covers(draft'[r], Used)
         /\ disturbed = {} /\ file # Empty
<1>0. /\ disturbed = {} /\ \A s \in Replicas \ {r} : ~Writing(s)
      /\ ~(Readable /\ file.host = HostOf[r] /\ file.count > 1)
      /\ ~(Readable /\ file.host # HostOf[r] /\ file.count >= Limit)
      /\ pc[r] = "activate"
      /\ draft'[r].host = HostOf[r] /\ draft'[r].count = ActivationCount(r)
  BY DEF ActivateBinds, TypeInv, TypeOK
<1>1. file # Empty /\ file # Garbled
  BY <1>0 DEF LimitInv, Writing
<1>2. Limit \in Nat /\ Limit >= 1
  BY LimitAssumption
<1>3. IsFiniteSet({HostOf[r]}) /\ Cardinality({HostOf[r]}) = 1
  BY FS_Singleton
<1>4. CASE file = Absent
  <2>1. ActivationCount(r) = 1
    BY <1>4 DEF ActivationCount, Readable, NoRecord
  <2>2. Used = {} /\ IsFiniteSet(Used) /\ Used \cup {HostOf[r]} = {HostOf[r]}
    BY <1>0, <1>4, FS_EmptySet DEF LimitInv
  <2> QED
    BY <1>0, <1>1, <1>2, <1>3, <2>1, <2>2 DEF Covers
<1>5. CASE Readable
  <2>0. file \in Record /\ Covers(file, Used) /\ file.count \in Nat
    BY <1>0, <1>5, ReadableRecord DEF LimitInv, TypeInv, Record
  <2>1. CASE file.host = HostOf[r]
    <3>1. ActivationCount(r) = 1 /\ file.count = 1
      BY <1>0, <1>5, <2>0, <2>1 DEF ActivationCount, Covers
    <3> QED
      BY <1>0, <1>1, <1>2, <2>0, <2>1, <3>1 DEF Covers
  <2>2. CASE file.host # HostOf[r]
    <3>1. ActivationCount(r) = file.count + 1 /\ file.count < Limit
      BY <1>0, <1>2, <1>5, <2>0, <2>2 DEF ActivationCount
    <3>2. IsFiniteSet(Used) /\ IsFiniteSet(Used \cup {file.host})
      BY <2>0, FS_AddElement DEF Covers
    <3>3. /\ Cardinality((Used \cup {file.host}) \cup {HostOf[r]}) <= Cardinality(Used \cup {file.host}) + 1
          /\ IsFiniteSet((Used \cup {file.host}) \cup {HostOf[r]})
          /\ Cardinality(Used \cup {file.host}) \in Nat
      <4> DEFINE counted == Used \cup {file.host}
      <4>1. IsFiniteSet(counted) /\ Cardinality(counted) \in Nat
        BY <3>2, FS_CardinalityType
      <4> HIDE DEF counted
      <4>2. /\ IsFiniteSet(counted \cup {HostOf[r]})
            /\ \/ Cardinality(counted \cup {HostOf[r]}) = Cardinality(counted)
               \/ Cardinality(counted \cup {HostOf[r]}) = Cardinality(counted) + 1
        BY <4>1, FS_AddElement
      <4>3. /\ Cardinality(counted \cup {HostOf[r]}) <= Cardinality(counted) + 1
            /\ IsFiniteSet(counted \cup {HostOf[r]}) /\ Cardinality(counted) \in Nat
        BY <4>1, <4>2
      <4> QED
        BY <4>3 DEF counted
    <3>4. Used \cup {HostOf[r]} \in SUBSET ((Used \cup {file.host}) \cup {HostOf[r]})
      OBVIOUS
    <3>5. /\ Cardinality(Used \cup {HostOf[r]}) <= Cardinality((Used \cup {file.host}) \cup {HostOf[r]})
          /\ Cardinality(Used \cup {HostOf[r]}) \in Nat
          /\ Cardinality((Used \cup {file.host}) \cup {HostOf[r]}) \in Nat
      BY <3>3, <3>4, FS_Subset, FS_CardinalityType
    <3>6. Cardinality(Used \cup {file.host}) <= file.count
      BY <2>0 DEF Covers
    <3>7. Cardinality(Used \cup {HostOf[r]}) <= file.count + 1
      BY <2>0, <3>3, <3>5, <3>6
    <3> QED
      BY <1>0, <1>1, <1>2, <2>0, <3>1, <3>2, <3>7 DEF Covers
  <2> QED
    BY <2>1, <2>2
<1> QED
  BY <1>1, <1>4, <1>5 DEF Readable, NoRecord

(* A boot keeps to the limit, unless its step loses the count.             *)
LEMMA LimitOfBoot ==
  ASSUME TypeInv, TypeInv', CountInv, BoundInv, LimitInv,
         NEW r \in Replicas, Entrypoint(r), disturbed' = {}
  PROVE  LimitInv'
<1>1. disturbed = {} /\ ~Raced /\ WritersAlone /\ WritersAlone'
  <2>1. ~Raced'
    BY DEF Raced
  <2>2. disturbed \subseteq disturbed'
    BY DEF Entrypoint, CheckActivated, Verify, VerifyFails, VerifyTampered, VerifyCounts, VerifyMatches,
       Activate, ActivateBlocked, ActivateBinds, Write, OpenForWriting, TakeLock, ReleaseLock,
       CloseRewritten, CloseActivated, StartApplication, history, DecideBeside, OpenBeside, Disturb
  <2> QED
    BY <2>1, <2>2, RacesAreNoticed DEF CountInv
<1>2. /\ \A s \in Replicas \ {r} : pc'[s] = pc[s] /\ draft'[s] = draft[s]
      /\ \A s \in Replicas \ {r} : (Writing(s)' <=> Writing(s)) /\ (Decided(s)' <=> Decided(s))
  BY OthersStay DEF Writing, Decided
<1>3. \A s \in Replicas : HasRecord(s) => draft[s] \in Record
  BY DEF TypeInv, DraftInv
<1>4. Readable => file \in Record
  BY ReadableRecord DEF TypeInv
(* A step that writes nothing uses no more hosts. *)
<1>5. ASSUME pc[r] \notin {"flush", "save"}, file' = file, Writing(r)' <=> Writing(r),
             Decided(r)' \/ Writing(r)' => Covers(draft'[r], Used')
      PROVE  LimitInv'
  <2>1. Used' \subseteq Used
    BY <1>5, UsedOfStep
  <2>2. file' # Garbled /\ (file' = Absent => Used' = {})
    BY <1>1, <1>5, <2>1 DEF LimitInv
  <2>3. file' = Empty <=> \E s \in Replicas : Writing(s)'
    BY <1>1, <1>2, <1>5 DEF LimitInv
  <2>4. Readable' => Covers(file', Used')
    <3>1. Readable => Covers(file, Used) /\ file \in Record
      BY <1>1, <1>4 DEF LimitInv
    <3>2. Readable => Covers(file, Used')
      BY <2>1, <3>1, CoversFewer
    <3> QED
      BY <1>5, <3>2 DEF Readable
  <2>5. ASSUME NEW s \in Replicas, Decided(s)' \/ Writing(s)' PROVE Covers(draft'[s], Used')
    <3>1. CASE s = r
      BY <1>5, <2>5, <3>1
    <3>2. CASE s # r
      <4>1. draft[s] \in Record /\ Covers(draft[s], Used) /\ draft'[s] = draft[s]
        BY <1>1, <1>2, <1>3, <2>5, <3>2 DEF LimitInv, HasRecord
      <4> QED
        BY <2>1, <4>1, CoversFewer
    <3> QED
      BY <3>1, <3>2
  <2> QED
    BY <2>2, <2>3, <2>4, <2>5 DEF LimitInv
<1>6. CASE CheckActivated(r) \/ VerifyFails(r) \/ VerifyTampered(r) \/ ActivateBlocked(r)
           \/ VerifyMatches(r) \/ StartApplication(r)
  <2>1. /\ pc[r] \notin {"flush", "save"} /\ file' = file /\ ~Writing(r) /\ ~Writing(r)' /\ ~Decided(r)'
    BY <1>6 DEF CheckActivated, VerifyFails, VerifyTampered, ActivateBlocked, VerifyMatches,
                StartApplication, GoTo, TypeInv, TypeOK, Writing, Decided
  <2> QED
    BY <1>5, <2>1
<1>7. CASE TakeLock(r) \/ ReleaseLock(r)
  <2>1. pc[r] \notin {"flush", "save"} /\ file' = file /\ draft' = draft /\ Writing(r) /\ Writing(r)'
    BY <1>7 DEF TakeLock, ReleaseLock, GoTo, TypeInv, TypeOK, Writing
  <2>2. draft[r] \in Record /\ Covers(draft[r], Used) /\ Used' \subseteq Used
    BY <1>1, <1>3, <2>1, UsedOfStep DEF LimitInv, HasRecord
  <2>3. Covers(draft'[r], Used')
    BY <2>1, <2>2, CoversFewer
  <2> QED
    BY <1>5, <2>1, <2>3
<1>8. CASE VerifyCounts(r)
  <2>1. /\ pc[r] = "verify" /\ pc'[r] = "rewrite" /\ file' = file /\ Readable
        /\ draft'[r] = [file EXCEPT !.boot = file.boot + 1, !.seen = clock]
    BY <1>8 DEF VerifyCounts, GoTo, TypeInv, TypeOK
  <2>2. clock \in Nat /\ file \in Record /\ Covers(file, Used) /\ Used' \subseteq Used
    BY <1>1, <1>4, <2>1, UsedOfStep DEF LimitInv, TypeInv, TypeOK
  <2>3. draft'[r].host = file.host /\ draft'[r].count = file.count
    BY <2>1, <2>2, CountedUp
  <2>4. Covers(file, Used')
    BY <2>2, CoversFewer
  <2>5. Covers(draft'[r], Used')
    BY <2>3, <2>4 DEF Covers
  <2>6. pc[r] \notin {"flush", "save"} /\ ~Writing(r) /\ ~Writing(r)'
    BY <2>1 DEF Writing
  <2> QED
    BY <1>5, <2>1, <2>5, <2>6
<1>9. CASE ActivateBinds(r)
  <2>1. pc[r] = "activate" /\ pc'[r] = "write" /\ file' = file
    BY <1>9 DEF ActivateBinds, GoTo, TypeInv, TypeOK
  <2>2. Covers(draft'[r], Used) /\ draft'[r] \in Record /\ Used' \subseteq Used
    BY <1>9, <2>1, BindCovers, UsedOfStep DEF TypeInv, DraftInv, HasRecord, Decided
  <2>3. Covers(draft'[r], Used')
    BY <2>2, CoversFewer
  <2>4. pc[r] \notin {"flush", "save"} /\ ~Writing(r) /\ ~Writing(r)'
    BY <2>1 DEF Writing
  <2> QED
    BY <1>5, <2>1, <2>3, <2>4
<1>10. CASE OpenForWriting(r)
  <2>1. /\ Decided(r) /\ file' = Empty /\ pc'[r] \in {"rewrite_queue", "write_queue"}
        /\ draft'[r] = [draft[r] EXCEPT !.key = license] /\ license \in Nat
    BY <1>10, BoundsAssumption DEF OpenForWriting, GoTo, TypeInv, TypeOK
  <2>2. draft[r] \in Record /\ Covers(draft[r], Used)
    BY <1>1, <1>3, <2>1 DEF LimitInv, HasRecord
  <2>3. Used' \subseteq Used
    BY <2>1, UsedOfStep DEF Decided
  <2>4. Covers(draft[r], Used') /\ draft'[r].host = draft[r].host /\ draft'[r].count = draft[r].count
    BY <2>1, <2>2, <2>3, CoversFewer, SignedAnew
  <2>5. Covers(draft'[r], Used')
    BY <2>4 DEF Covers
  <2>6. Writing(r)' /\ ~Decided(r)' /\ \A s \in Replicas \ {r} : ~Writing(s)' /\ ~Decided(s)'
    BY <1>1, <2>1 DEF WritersAlone, Writing, Decided
  <2>7. ~Readable' /\ file' # Absent /\ file' # Garbled
    BY <2>1, ContentsAssumption DEF Readable, NoRecord
  <2> QED
    BY <2>1, <2>5, <2>6, <2>7 DEF LimitInv
<1>11. CASE CloseRewritten(r) \/ CloseActivated(r)
  <2>1. /\ pc[r] \in {"flush", "save"} /\ pc'[r] \in {"match", "start"} /\ file' \in Written(r)
        /\ Writing(r) /\ HasRecord(r)
    BY <1>11 DEF CloseRewritten, CloseActivated, GoTo, TypeInv, TypeOK, HasRecord, Writing
  <2>2. file = Empty /\ draft[r] \in Record /\ Covers(draft[r], Used)
    BY <1>1, <1>3, <2>1 DEF LimitInv
  <2>3. file' = draft[r]
    BY <2>1, <2>2 DEF Written
  <2>4. Readable' /\ file' # Absent /\ file' # Empty /\ file' # Garbled
    BY <2>2, <2>3, ContentsAssumption DEF Readable, NoRecord
  <2>5. Used' \subseteq Used \cup {draft[r].host}
    BY <2>1, UsedOfStep
  <2>6. Covers(file', Used')
    BY <2>2, <2>3, <2>5, CoversFewer
  <2>7. \A s \in Replicas : ~Writing(s)' /\ ~Decided(s)'
    <3>1. \A s \in Replicas \ {r} : ~Writing(s) /\ ~Decided(s)
      BY <1>1, <2>1 DEF WritersAlone
    <3>2. ~Writing(r)' /\ ~Decided(r)'
      BY <2>1 DEF Writing, Decided
    <3> QED
      BY <1>2, <3>1, <3>2
  <2> QED
    BY <2>4, <2>6, <2>7 DEF LimitInv
<1> QED
  BY <1>6, <1>7, <1>8, <1>9, <1>10, <1>11 DEF Entrypoint, Verify, Activate, Write

(* Every step keeps to the limit.                                          *)
LEMMA LimitStep ==
  ASSUME TypeInv, TypeInv', CountInv, BoundInv, LimitInv, [Next]_vars
  PROVE  LimitInv'
<1>1. CASE \A r \in Replicas : ~Entrypoint(r)
  <2> SUFFICES ASSUME disturbed' = {} PROVE LimitInv'
    BY DEF LimitInv
  <2>1. /\ disturbed = {} /\ file' = file /\ granted' = granted
        /\ \A s \in Replicas : Writing(s) => pc'[s] = pc[s] /\ draft'[s] = draft[s]
        /\ \A s \in Replicas : (pc'[s] = pc[s] /\ draft'[s] = draft[s]) \/ pc'[s] \in {"off", "check"}
    BY <1>1, OtherSteps
  <2>2. Used' \subseteq Used
    BY <2>1 DEF Used, Claims
  <2>3. \A s \in Replicas : Writing(s)' <=> Writing(s)
    BY <2>1 DEF Writing
  <2>4. Readable' => Covers(file', Used')
    <3>1. Readable => Covers(file, Used) /\ file \in Record
      BY <2>1, ReadableRecord DEF LimitInv, TypeInv
    <3>2. Readable => Covers(file, Used')
      BY <2>2, <3>1, CoversFewer
    <3> QED
      BY <2>1, <3>2 DEF Readable
  <2>5. ASSUME NEW s \in Replicas, Decided(s)' \/ Writing(s)' PROVE Covers(draft'[s], Used')
    <3>1. draft'[s] = draft[s] /\ (Decided(s) \/ Writing(s))
      BY <2>1, <2>5 DEF Decided, Writing
    <3>2. draft[s] \in Record /\ Covers(draft[s], Used)
      BY <2>1, <3>1 DEF LimitInv, TypeInv, DraftInv, HasRecord
    <3> QED
      BY <2>2, <3>1, <3>2, CoversFewer
  <2>6. /\ file' # Garbled /\ (file' = Absent => Used' = {})
        /\ file' = Empty <=> \E s \in Replicas : Writing(s)'
    BY <2>1, <2>2, <2>3 DEF LimitInv
  <2> QED
    BY <2>4, <2>5, <2>6 DEF LimitInv
<1>2. ASSUME NEW r \in Replicas, Entrypoint(r) PROVE LimitInv'
  BY <1>2, LimitOfBoot DEF LimitInv
<1> QED
  BY <1>1, <1>2

(* The application never runs on more hosts than the limit, for any number *)
(* of replicas, hosts, boots, renewals, crashes and corrections of the     *)
(* clock, until the count is lost in one of its three ways.                *)
THEOREM LimitHolds == Spec => []LimitIsEnforced
<1>1. Init => TypeInv /\ CountInv /\ KeyInv /\ BoundInv /\ LimitInv
  <2> SUFFICES ASSUME Init PROVE CountInv /\ KeyInv /\ BoundInv /\ LimitInv
    BY TypeInvInit
  <2>1. \A r \in Replicas : ~Writing(r) /\ ~Decided(r) /\ ~HasRecord(r) /\ ~Claims(r) /\ pc[r] = "off"
    BY DEF Init, Writing, Decided, HasRecord, Claims
  <2>2. ~Readable /\ file # Empty /\ file # Garbled /\ Used = {}
    BY <2>1, ContentsAssumption DEF Init, Readable, NoRecord, Used
  <2> QED
    BY <2>1, <2>2 DEF CountInv, WritersAlone, KeyInv, BoundInv, LimitInv
<1>2. TypeInv /\ CountInv /\ KeyInv /\ BoundInv /\ LimitInv /\ [Next]_vars
      => (TypeInv /\ CountInv /\ KeyInv /\ BoundInv /\ LimitInv)'
  BY TypeInvStep, CountStep, CausesStep, LimitStep
<1>3. TypeInv /\ LimitInv => LimitIsEnforced
  <2> SUFFICES ASSUME TypeInv, LimitInv, disturbed = {} PROVE Cardinality(granted) <= Limit
    BY DEF LimitIsEnforced
  <2>1. granted \in SUBSET Used
    BY DEF Used
  <2>2. ASSUME NEW rec \in Record, Covers(rec, Used) PROVE Cardinality(granted) <= Limit
    <3>1. granted \in SUBSET (Used \cup {rec.host}) /\ IsFiniteSet(Used \cup {rec.host})
      BY <2>1, <2>2, FS_AddElement DEF Covers
    <3>2. /\ Cardinality(granted) <= Cardinality(Used \cup {rec.host}) /\ Cardinality(granted) \in Nat
          /\ Cardinality(Used \cup {rec.host}) \in Nat
      BY <3>1, FS_Subset, FS_CardinalityType
    <3> QED
      BY <2>2, <3>2, LimitAssumption DEF Covers, Record
  <2>3. CASE file = Absent
    <3>1. granted = {}
      BY <2>1, <2>3 DEF LimitInv
    <3> QED
      BY <3>1, FS_EmptySet, LimitAssumption
  <2>4. CASE Readable
    BY <2>2, <2>4, ReadableRecord DEF LimitInv, TypeInv
  <2>5. CASE file = Empty
    <3>1. PICK r \in Replicas : Writing(r)
      BY <2>5 DEF LimitInv
    <3> QED
      BY <2>2, <3>1 DEF LimitInv, TypeInv, DraftInv, HasRecord
  <2> QED
    BY <2>3, <2>4, <2>5 DEF LimitInv, Readable, NoRecord
<1> QED
  BY <1>1, <1>2, <1>3, PTL DEF Spec
=============================================================================
