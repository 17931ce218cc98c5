--------------------------- MODULE AuditLogProofs ---------------------------
(***************************************************************************)
(* AuditLog, for any number of loggers, months, events and faults: its     *)
(* types; that verify_chain reports nothing in an undisturbed file but the *)
(* link of its first line, and at most one break for each write that       *)
(* failed; that what was acknowledged is shown, that the link of a month   *)
(* leads back, and that only an edit makes a broken file verify again.     *)
(***************************************************************************)
EXTENDS AuditLog, FiniteSetTheorems, TLAPS

Lines == Entries \cup {Fragment, Unreadable}

-----------------------------------------------------------------------------
(* What is written and read. *)

(* An HMAC that is loaded is one of a line, or GENESIS. *)
LEMMA LoadedHmac ==
  ASSUME TypeOK, NEW m \in Months
  PROVE  LoadLastHmac(m) \in Nat
<1>1. lines[m] \in Seq(Lines)
  BY DEF TypeOK, Lines
<1>2. CASE lines[m] = <<>> \/ LastLine(lines[m]) \notin Entries
  BY <1>2 DEF LoadLastHmac, Genesis
<1>3. CASE LastLine(lines[m]) \in Entries /\ lines[m] # <<>>
  BY <1>3 DEF LoadLastHmac, Entries
<1>4. QED
  BY <1>2, <1>3

(* A line joined to a file leaves a sequence of lines. *)
LEMMA JoinedType ==
  ASSUME NEW s \in Seq(Lines), NEW line \in Lines
  PROVE  Joined(s, line) \in Seq(Lines)
<1>1. CASE s # <<>> /\ LastLine(s) = Fragment
  <2>1. Fragment \in Lines /\ Unreadable \in Lines
    BY DEF Lines
  <2>2. [s EXCEPT ![Len(s)] = IF line = Fragment THEN Fragment ELSE Unreadable] \in Seq(Lines)
    BY <2>1, <1>1
  <2>3. QED
    BY <2>2, <1>1 DEF Joined
<1>2. CASE ~(s # <<>> /\ LastLine(s) = Fragment)
  BY <1>2 DEF Joined
<1>3. QED
  BY <1>1, <1>2

(* log() computes an entry, and leaves the rest of the state typed. *)
LEMMA ComputeType ==
  ASSUME TypeOK, NEW g \in Loggers, NEW prev \in Nat, Compute(g, prev)
  PROVE  /\ logged' \in Nat
         /\ draft' \in [Loggers -> Entries]
         /\ last' \in [Loggers -> Nat]
         /\ pc' \in [Loggers -> {"off", "ready", "appending"}]
<1>1. Entry(prev) \in Entries /\ Entry(prev).id \in Nat
  BY DEF Entry, Entries, TypeOK
<1>2. QED
  BY <1>1 DEF Compute, TypeOK, GoTo

-----------------------------------------------------------------------------
(* Type correctness. *)

(* The initial states are typed. *)
LEMMA TypeInit == Init => TypeOK
<1> SUFFICES ASSUME Init PROVE TypeOK
  OBVIOUS
<1>1. <<>> \in Seq(Lines)
  OBVIOUS
<1>2. NoEntry \in Entries
  BY DEF NoEntry, Entries, Genesis
<1>3. 1 \in Months /\ 0 \in 0..MaxMonth
  BY BoundsAssumption DEF Months
<1>4. lines \in [Months -> Seq(Lines)] /\ draft \in [Loggers -> Entries]
  BY <1>1, <1>2 DEF Init
<1>5. QED
  BY <1>3, <1>4 DEF Init, TypeOK, Genesis, Lines

(* Causes are only ever added. *)
LEMMA CauseType ==
  ASSUME TypeOK, NEW m \in Months,
         NEW new \in SUBSET {"linked", "shared", "failed", "torn", "edited"}, Cause(m, new)
  PROVE  causes' \in [Months -> SUBSET {"linked", "shared", "failed", "torn", "edited"}]
  BY DEF Cause, TypeOK

(* Every step keeps the types. *)
LEMMA TypeStep == TypeOK /\ [Next]_vars => TypeOK'
<1> SUFFICES ASSUME TypeOK, [Next]_vars PROVE TypeOK'
  OBVIOUS
<1>0. lines \in [Months -> Seq(Lines)]
  BY DEF TypeOK, Lines
<1>1. ASSUME NEW g \in Loggers, Open(g) PROVE TypeOK'
  <2> DEFINE previous == PreviousMonthLastHmac(month)
             isLinked == month \notin files /\ previous # Genesis
             new == {c \in {"linked"} : isLinked}
                      \cup {c \in {"shared"} : \E h \in Loggers : pc[h] # "off" /\ opened[h] = month}
  <2>1. month \in Months /\ month \in 0..MaxMonth
    BY DEF TypeOK, Months
  <2>2. previous \in Nat
    <3>1. CASE month - 1 \in files
      <4>1. month - 1 \in Months
        BY <3>1 DEF TypeOK
      <4>2. QED
        BY <4>1, <3>1, LoadedHmac DEF PreviousMonthLastHmac
    <3>2. CASE month - 1 \notin files
      BY <3>2 DEF PreviousMonthLastHmac, Genesis
    <3>3. QED
      BY <3>1, <3>2
  <2>3. causes' \in [Months -> SUBSET {"linked", "shared", "failed", "torn", "edited"}]
    <3>1. Cause(month, new)
      BY <1>1 DEF Open
    <3>2. new \in SUBSET {"linked", "shared", "failed", "torn", "edited"}
      OBVIOUS
    <3>3. QED
      BY <3>1, <3>2, <2>1, CauseType
  <2>4. /\ logged' \in Nat
        /\ draft' \in [Loggers -> Entries]
        /\ last' \in [Loggers -> Nat]
        /\ pc' \in [Loggers -> {"off", "ready", "appending"}]
    <3>1. CASE isLinked
      <4>1. Compute(g, previous)
        BY <1>1, <3>1 DEF Open
      <4>2. QED
        BY <4>1, <2>2, ComputeType
    <3>2. CASE ~isLinked
      <4>1. LoadLastHmac(month) \in Nat
        BY <2>1, LoadedHmac
      <4>2. /\ last' = [last EXCEPT ![g] = LoadLastHmac(month)]
            /\ GoTo(g, "ready")
            /\ UNCHANGED <<draft, logged>>
        BY <1>1, <3>2 DEF Open
      <4>3. QED
        BY <4>1, <4>2 DEF GoTo, TypeOK
    <3>3. QED
      BY <3>1, <3>2
  <2>5. opened' = [opened EXCEPT ![g] = month]
    BY <1>1 DEF Open
  <2>6. \A h \in Loggers \ {g} : pc'[h] = pc[h]
    BY <1>1 DEF Open, Compute, GoTo, TypeOK
  <2>7. \A h \in Loggers : pc'[h] # "off" => opened'[h] \in Months
    BY <2>1, <2>5, <2>6 DEF TypeOK
  <2>8. UNCHANGED <<month, files, lines, faults, acknowledged, failed>>
    BY <1>1 DEF Open
  <2>9. QED
    BY <2>1, <2>3, <2>4, <2>5, <2>7, <2>8 DEF TypeOK
<1>2. ASSUME NEW g \in Loggers, Log(g) PROVE TypeOK'
  <2>1. last[g] \in Nat /\ Compute(g, last[g])
    BY <1>2 DEF Log, TypeOK
  <2>2. /\ logged' \in Nat
        /\ draft' \in [Loggers -> Entries]
        /\ last' \in [Loggers -> Nat]
        /\ pc' \in [Loggers -> {"off", "ready", "appending"}]
    BY <2>1, ComputeType
  <2>3. \A h \in Loggers : pc'[h] # "off" => pc[h] # "off"
    BY <1>2 DEF Log, Compute, GoTo, TypeOK
  <2>4. QED
    BY <1>2, <2>2, <2>3 DEF Log, TypeOK
<1>3. ASSUME NEW g \in Loggers, AppendLine(g) PROVE TypeOK'
  <2>1. opened[g] \in Months /\ draft[g] \in Entries /\ draft[g] \in Lines
    BY <1>3 DEF AppendLine, TypeOK, Lines
  <2>2. Joined(lines[opened[g]], draft[g]) \in Seq(Lines)
    BY <1>0, <2>1, JoinedType
  <2>3. lines' \in [Months -> Seq(Lines)]
    BY <1>0, <1>3, <2>2 DEF AppendLine
  <2>4. NoEntry \in Entries
    BY DEF NoEntry, Entries, Genesis
  <2>5. acknowledged' \in [Months -> SUBSET Nat]
    <3>1. draft[g].id \in Nat
      BY <2>1 DEF Entries
    <3>2. acknowledged[opened[g]] \cup {draft[g].id} \in SUBSET Nat
      BY <2>1, <3>1 DEF TypeOK
    <3>3. QED
      BY <1>3, <3>2 DEF AppendLine, TypeOK
  <2>6. draft' \in [Loggers -> Entries]
    BY <1>3, <2>4 DEF AppendLine, TypeOK
  <2>7. files' \subseteq Months
    BY <1>3, <2>1 DEF AppendLine, TypeOK
  <2>8. /\ pc' \in [Loggers -> {"off", "ready", "appending"}]
        /\ \A h \in Loggers : pc'[h] # "off" => pc[h] # "off"
    BY <1>3 DEF AppendLine, GoTo, TypeOK
  <2>9. QED
    BY <1>3, <2>3, <2>5, <2>6, <2>7, <2>8 DEF AppendLine, TypeOK, Lines
<1>4. ASSUME NEW g \in Loggers, AppendFails(g) PROVE TypeOK'
  <2>1. opened[g] \in Months
    BY <1>4 DEF AppendFails, TypeOK
  <2>2. lines' \in [Months -> Seq(Lines)]
    <3>1. Joined(lines[opened[g]], Fragment) \in Seq(Lines)
      BY <1>0, <2>1, JoinedType DEF Lines
    <3>2. lines' = lines \/ lines' = [lines EXCEPT ![opened[g]] = Joined(@, Fragment)]
      BY <1>4 DEF AppendFails
    <3>3. QED
      BY <1>0, <3>1, <3>2
  <2>3. causes' \in [Months -> SUBSET {"linked", "shared", "failed", "torn", "edited"}]
    <3>1. Cause(opened[g], {"failed"}) \/ Cause(opened[g], {"torn"})
      BY <1>4 DEF AppendFails
    <3>2. QED
      BY <3>1, <2>1, CauseType
  <2>4. failed' \in [Months -> Nat]
    <3>1. failed[opened[g]] + 1 \in Nat
      BY <2>1 DEF TypeOK
    <3>2. failed' = failed \/ failed' = [failed EXCEPT ![opened[g]] = @ + 1]
      BY <1>4 DEF AppendFails
    <3>3. QED
      BY <3>1, <3>2 DEF TypeOK
  <2>5. draft' \in [Loggers -> Entries]
    <3>1. NoEntry \in Entries
      BY DEF NoEntry, Entries, Genesis
    <3>2. QED
      BY <1>4, <3>1 DEF AppendFails, TypeOK
  <2>6. files' \subseteq Months
    BY <1>4, <2>1 DEF AppendFails, TypeOK
  <2>7. /\ pc' \in [Loggers -> {"off", "ready", "appending"}]
        /\ \A h \in Loggers : pc'[h] # "off" => pc[h] # "off"
    BY <1>4 DEF AppendFails, GoTo, TypeOK
  <2>8. faults' \in Nat
    BY <1>4 DEF AppendFails, TypeOK
  <2>9. QED
    BY <1>4, <2>2, <2>3, <2>4, <2>5, <2>6, <2>7, <2>8 DEF AppendFails, TypeOK, Lines
<1>5. ASSUME NEW g \in Loggers, Exit(g) PROVE TypeOK'
  <2>1. NoEntry \in Entries
    BY DEF NoEntry, Entries, Genesis
  <2>2. draft' \in [Loggers -> Entries]
    BY <1>5, <2>1 DEF Exit, TypeOK
  <2>3. /\ pc' \in [Loggers -> {"off", "ready", "appending"}]
        /\ opened' \in [Loggers -> 0..MaxMonth]
        /\ \A h \in Loggers : pc'[h] # "off" => opened'[h] \in Months
    BY <1>5, BoundsAssumption DEF Exit, GoTo, TypeOK
  <2>4. QED
    BY <1>5, <2>2, <2>3 DEF Exit, TypeOK, Genesis
<1>6. CASE MonthPasses
  BY <1>6, BoundsAssumption DEF MonthPasses, TypeOK, Months
<1>7. ASSUME NEW m \in Months, Edit(m) PROVE TypeOK'
  <2>1. PICK k \in 1..Len(lines[m]) :
          /\ lines[m][k] \in Entries
          /\ lines' \in {[lines EXCEPT ![m][k].genuine = FALSE],
                         [lines EXCEPT ![m] = SubSeq(@, 1, k - 1) \o SubSeq(@, k + 1, Len(@))]}
    BY <1>7 DEF Edit
  <2>2. lines[m] \in Seq(Lines)
    BY <1>0
  <2>3. lines' \in [Months -> Seq(Lines)]
    <3>1. CASE lines' = [lines EXCEPT ![m][k].genuine = FALSE]
      <4>1. [lines[m][k] EXCEPT !.genuine = FALSE] \in Entries
        BY <2>1 DEF Entries
      <4>2. [lines[m][k] EXCEPT !.genuine = FALSE] \in Lines
        BY <4>1 DEF Lines
      <4>3. [lines[m] EXCEPT ![k] = [lines[m][k] EXCEPT !.genuine = FALSE]] \in Seq(Lines)
        BY <4>2, <2>2
      <4>4. lines' = [lines EXCEPT ![m] = [lines[m] EXCEPT ![k] = [lines[m][k] EXCEPT !.genuine = FALSE]]]
        BY <3>1
      <4>5. QED
        BY <1>0, <4>3, <4>4
    <3>2. CASE lines' = [lines EXCEPT ![m] = SubSeq(@, 1, k - 1) \o SubSeq(@, k + 1, Len(@))]
      <4>1. SubSeq(lines[m], 1, k - 1) \in Seq(Lines) /\ SubSeq(lines[m], k + 1, Len(lines[m])) \in Seq(Lines)
        BY <2>2
      <4>2. SubSeq(lines[m], 1, k - 1) \o SubSeq(lines[m], k + 1, Len(lines[m])) \in Seq(Lines)
        BY <4>1
      <4>3. QED
        BY <1>0, <3>2, <4>2
    <3>3. QED
      BY <2>1, <3>1, <3>2
  <2>4. causes' \in [Months -> SUBSET {"linked", "shared", "failed", "torn", "edited"}]
    BY <1>7, CauseType DEF Edit
  <2>5. /\ faults' \in Nat
        /\ UNCHANGED <<month, files, pc, opened, last, draft, logged, acknowledged, failed>>
    BY <1>7 DEF Edit, TypeOK
  <2>6. QED
    BY <2>3, <2>4, <2>5 DEF TypeOK, Lines
<1>8. CASE UNCHANGED vars
  BY <1>8 DEF vars, TypeOK
<1>9. QED
  BY <1>1, <1>2, <1>3, <1>4, <1>5, <1>6, <1>7, <1>8 DEF Next, Logging

(* AuditLogger and its files keep their types. *)
THEOREM AuditTypes == Spec => []TypeOK
  BY TypeInit, TypeStep, PTL DEF Spec

-----------------------------------------------------------------------------
(* The chain of a file. *)

Quiet(m) == causes[m] \subseteq {"linked"}

(* Every line continues the one before; the first one starts the chain, or *)
(* links it to the month before. *)
Chained(m) ==
  \A k \in 1..Len(lines[m]) :
    /\ lines[m][k] \in Entries
    /\ lines[m][k].genuine
    /\ k > 1 => lines[m][k].prev = lines[m][k - 1].id
    /\ k = 1 => lines[m][k].prev = Genesis \/ "linked" \in causes[m]

Alone(m) ==
  \A g, h \in Loggers :
    pc[g] # "off" /\ pc[h] # "off" /\ opened[g] = m /\ opened[h] = m => g = h

(* The entry a logger is about to append continues the file. *)
Continuing(g, m) ==
  /\ draft[g].genuine
  /\ last[g] = draft[g].id
  /\ \/ draft[g].prev = LoadLastHmac(m)
     \/ lines[m] = <<>> /\ "linked" \in causes[m]

(* What a logger remembers is what its file ends with. *)
InStep(g, m) ==
  opened[g] = m =>
    /\ pc[g] = "ready" => last[g] = LoadLastHmac(m)
    /\ pc[g] = "appending" => Continuing(g, m)

(* The strengthening: what one logger knows of an undisturbed file is also *)
(* what the file holds. *)
QuietOK(m) == Chained(m) /\ Alone(m) /\ \A g \in Loggers : InStep(g, m)

ChainInv == \A m \in Months : Quiet(m) => QuietOK(m)

(* What is not there has no lines. *)
Unwritten == \A m \in Months : m \notin files => lines[m] = <<>>

(* Only files that are there change otherwise than by being made. *)
LEMMA UnwrittenStep == TypeOK /\ Unwritten /\ [Next]_vars => Unwritten'
<1> SUFFICES ASSUME TypeOK, Unwritten, [Next]_vars, NEW m \in Months, m \notin files'
             PROVE  lines'[m] = <<>>
  BY DEF Unwritten
<1>1. ASSUME NEW g \in Loggers, Open(g) \/ Log(g) \/ Exit(g) PROVE lines'[m] = <<>>
  BY <1>1 DEF Open, Log, Exit, Unwritten
<1>2. ASSUME NEW g \in Loggers, AppendLine(g) PROVE lines'[m] = <<>>
  BY <1>2 DEF AppendLine, Unwritten, TypeOK
<1>3. ASSUME NEW g \in Loggers, AppendFails(g) PROVE lines'[m] = <<>>
  BY <1>3 DEF AppendFails, Unwritten, TypeOK
<1>4. CASE MonthPasses \/ UNCHANGED vars
  BY <1>4 DEF MonthPasses, vars, Unwritten
<1>5. ASSUME NEW e \in Months, Edit(e) PROVE lines'[m] = <<>>
  <2>1. m \notin files /\ lines[m] = <<>>
    BY <1>5 DEF Edit, Unwritten
  <2>2. e # m
    BY <1>5, <2>1 DEF Edit
  <2>3. lines'[m] = lines[m]
    BY <1>5, <2>2 DEF Edit, TypeOK
  <2>4. QED
    BY <2>1, <2>3
<1>6. QED
  BY <1>1, <1>2, <1>3, <1>4, <1>5 DEF Next, Logging

(* Both hold of the empty log. *)
LEMMA ChainInit == Init => ChainInv /\ Unwritten
  BY DEF Init, ChainInv, QuietOK, Chained, Alone, InStep, Unwritten

(* A step that leaves alone a file and those who have it open keeps what   *)
(* holds of it. *)
LEMMA Elsewhere ==
  ASSUME TypeOK, ChainInv, NEW m \in Months,
         lines'[m] = lines[m], Quiet(m)' => Quiet(m), "linked" \in causes[m] => "linked" \in causes'[m],
         \A g \in Loggers :
           pc'[g] # "off" /\ opened'[g] = m =>
             pc'[g] = pc[g] /\ opened'[g] = opened[g] /\ last'[g] = last[g] /\ draft'[g] = draft[g]
  PROVE  (Quiet(m) => QuietOK(m))'
<1> SUFFICES ASSUME Quiet(m)' PROVE QuietOK(m)'
  OBVIOUS
<1>1. QuietOK(m)
  BY DEF ChainInv
<1>2. Chained(m)'
  BY <1>1 DEF QuietOK, Chained
<1>3. Alone(m)'
  BY <1>1 DEF QuietOK, Alone
<1>4. LoadLastHmac(m)' = LoadLastHmac(m)
  BY DEF LoadLastHmac, LastLine
<1>5. ASSUME NEW g \in Loggers PROVE InStep(g, m)'
  BY <1>1, <1>4 DEF QuietOK, InStep, Continuing
<1>6. QED
  BY <1>2, <1>3, <1>5 DEF QuietOK

(* log(): the entry continues what was the last HMAC. *)
LEMMA ComputeEntry ==
  ASSUME TypeOK, NEW g \in Loggers, NEW prev \in Nat, Compute(g, prev)
  PROVE  /\ pc'[g] = "appending"
         /\ draft'[g].genuine /\ draft'[g].prev = prev /\ last'[g] = draft'[g].id
         /\ \A h \in Loggers \ {g} : pc'[h] = pc[h] /\ draft'[h] = draft[h] /\ last'[h] = last[h]
  BY DEF Compute, Entry, GoTo, TypeOK

(* Every step keeps the chains of the undisturbed files. *)
LEMMA ChainStep == TypeOK /\ Unwritten /\ ChainInv /\ [Next]_vars => ChainInv'
<1> SUFFICES ASSUME TypeOK, Unwritten, ChainInv, [Next]_vars, NEW m \in Months
             PROVE  (Quiet(m) => QuietOK(m))'
  BY DEF ChainInv
<1>0. lines \in [Months -> Seq(Lines)] /\ lines[m] \in Seq(Lines)
  BY DEF TypeOK, Lines
<1>1. ASSUME NEW g \in Loggers, Open(g) PROVE (Quiet(m) => QuietOK(m))'
  <2> DEFINE previous == PreviousMonthLastHmac(month)
             isLinked == month \notin files /\ previous # Genesis
             new == {c \in {"linked"} : isLinked}
                      \cup {c \in {"shared"} : \E h \in Loggers : pc[h] # "off" /\ opened[h] = month}
  <2>0. /\ lines' = lines /\ month \in Months
        /\ opened' = [opened EXCEPT ![g] = month]
        /\ Cause(month, new)
        /\ pc[g] = "off"
    BY <1>1 DEF Open, TypeOK
  <2>1. \A h \in Loggers \ {g} : /\ pc'[h] = pc[h] /\ opened'[h] = opened[h]
                                 /\ draft'[h] = draft[h] /\ last'[h] = last[h]
    BY <1>1 DEF Open, Compute, GoTo, TypeOK
  <2>2. opened'[g] = month
    BY <2>0 DEF TypeOK
  <2>3. causes'[m] = IF m = month THEN causes[m] \cup new ELSE causes[m]
    BY <2>0 DEF Cause, TypeOK
  <2>4. Quiet(m)' => Quiet(m)
    BY <2>3 DEF Quiet
  <2>5. CASE m # month
    <3>1. \A h \in Loggers : pc'[h] # "off" /\ opened'[h] = m =>
             pc'[h] = pc[h] /\ opened'[h] = opened[h] /\ last'[h] = last[h] /\ draft'[h] = draft[h]
      BY <2>1, <2>2, <2>5
    <3>2. QED
      BY <2>0, <2>3, <2>4, <2>5, <3>1, Elsewhere
  <2>6. CASE m = month
    <3> SUFFICES ASSUME Quiet(m)' PROVE QuietOK(m)'
      OBVIOUS
    <3>1. \A h \in Loggers : ~(pc[h] # "off" /\ opened[h] = m)
      <4>1. "shared" \notin new
        BY <2>3, <2>6 DEF Quiet
      <4>2. QED
        BY <4>1, <2>6
    <3>2. QuietOK(m)
      BY <2>4 DEF ChainInv
    <3>3. Chained(m)'
      BY <3>2, <2>0, <2>3 DEF QuietOK, Chained
    <3>4. Alone(m)'
      BY <3>1, <2>1 DEF Alone
    <3>5. ASSUME NEW h \in Loggers, h # g PROVE InStep(h, m)'
      BY <3>5, <3>1, <2>1 DEF InStep
    <3>6. InStep(g, m)'
      <4>1. LoadLastHmac(m)' = LoadLastHmac(m)
        BY <2>0 DEF LoadLastHmac, LastLine
      <4>2. CASE ~isLinked
        <5>1. last'[g] = LoadLastHmac(m) /\ pc'[g] = "ready"
          BY <1>1, <4>2, <2>6 DEF Open, GoTo, TypeOK
        <5>2. QED
          BY <5>1, <4>1 DEF InStep
      <4>3. CASE isLinked
        <5>1. previous \in Nat
          <6>1. month - 1 \in files => month - 1 \in Months
            BY DEF TypeOK
          <6>2. QED
            BY <6>1, LoadedHmac DEF PreviousMonthLastHmac, Genesis
        <5>2. Compute(g, previous)
          BY <1>1, <4>3 DEF Open
        <5>3. "linked" \in causes'[m]
          BY <4>3, <2>3, <2>6
        <5>4. lines[m] = <<>>
          BY <4>3, <2>6 DEF Unwritten
        <5>5. QED
          BY <5>1, <5>2, <5>3, <5>4, <2>0, ComputeEntry DEF InStep, Continuing
      <4>4. QED
        BY <4>2, <4>3
    <3>7. QED
      BY <3>3, <3>4, <3>5, <3>6 DEF QuietOK
  <2>7. QED
    BY <2>5, <2>6
<1>2. ASSUME NEW g \in Loggers, Log(g) PROVE (Quiet(m) => QuietOK(m))'
  <2>0. /\ lines' = lines /\ causes' = causes /\ opened' = opened /\ pc[g] = "ready"
        /\ Compute(g, last[g]) /\ last[g] \in Nat
    BY <1>2 DEF Log, TypeOK
  <2>1. \A h \in Loggers \ {g} : pc'[h] = pc[h] /\ draft'[h] = draft[h] /\ last'[h] = last[h]
    BY <2>0, ComputeEntry
  <2>2. CASE opened[g] # m
    BY <2>0, <2>1, <2>2, Elsewhere DEF Quiet
  <2>3. CASE opened[g] = m
    <3> SUFFICES ASSUME Quiet(m)' PROVE QuietOK(m)'
      OBVIOUS
    <3>1. QuietOK(m)
      BY <2>0 DEF ChainInv, Quiet
    <3>2. Chained(m)'
      BY <3>1, <2>0 DEF QuietOK, Chained
    <3>3. Alone(m)'
      BY <3>1, <2>0, <2>1 DEF QuietOK, Alone
    <3>4. LoadLastHmac(m)' = LoadLastHmac(m)
      BY <2>0 DEF LoadLastHmac, LastLine
    <3>5. ASSUME NEW h \in Loggers, h # g PROVE InStep(h, m)'
      BY <3>1, <3>4, <3>5, <2>0, <2>1 DEF QuietOK, InStep, Continuing
    <3>6. InStep(g, m)'
      <4>1. last[g] = LoadLastHmac(m)
        BY <3>1, <2>0, <2>3 DEF QuietOK, InStep
      <4>2. QED
        BY <4>1, <3>4, <2>0, ComputeEntry DEF InStep, Continuing
    <3>7. QED
      BY <3>2, <3>3, <3>5, <3>6 DEF QuietOK
  <2>4. QED
    BY <2>2, <2>3
<1>3. ASSUME NEW g \in Loggers, AppendLine(g) PROVE (Quiet(m) => QuietOK(m))'
  <2>0. /\ causes' = causes /\ opened' = opened /\ last' = last
        /\ pc[g] = "appending" /\ pc'[g] = "ready"
        /\ \A h \in Loggers \ {g} : pc'[h] = pc[h] /\ draft'[h] = draft[h]
        /\ opened[g] \in Months
    BY <1>3 DEF AppendLine, GoTo, TypeOK
  <2>1. lines' = [lines EXCEPT ![opened[g]] = Joined(@, draft[g])]
    BY <1>3 DEF AppendLine
  <2>2. CASE opened[g] # m
    <3>1. lines'[m] = lines[m]
      BY <2>1, <2>2, <1>0
    <3>2. QED
      BY <2>0, <2>2, <3>1, Elsewhere DEF Quiet
  <2>3. CASE opened[g] = m
    <3> SUFFICES ASSUME Quiet(m)' PROVE QuietOK(m)'
      OBVIOUS
    <3>1. QuietOK(m)
      BY <2>0 DEF ChainInv, Quiet
    <3>2. Continuing(g, m)
      BY <3>1, <2>0, <2>3 DEF QuietOK, InStep
    <3>3. draft[g] \in Entries /\ draft[g] \in Lines
      BY DEF TypeOK, Lines
    <3>4. Len(lines[m]) \in Nat /\ (lines[m] # <<>> => Len(lines[m]) \in 1..Len(lines[m]))
      BY <1>0
    <3>5. lines[m] # <<>> => LastLine(lines[m]) \in Entries /\ LastLine(lines[m]) # Fragment
      BY <3>1, <3>4, LinesAssumption DEF QuietOK, Chained, LastLine
    <3>6. lines'[m] = Append(lines[m], draft[g])
      BY <2>1, <2>3, <3>5, <1>0 DEF Joined
    <3>7. /\ Len(lines'[m]) = Len(lines[m]) + 1
          /\ lines'[m][Len(lines[m]) + 1] = draft[g]
          /\ \A k \in 1..Len(lines[m]) : lines'[m][k] = lines[m][k]
      BY <3>6, <3>3, <1>0
    <3>8. lines[m] # <<>> => LoadLastHmac(m) = lines[m][Len(lines[m])].id
      BY <3>5 DEF LoadLastHmac, LastLine
    <3>9. Chained(m)'
      <4> SUFFICES ASSUME NEW k \in 1..(Len(lines[m]) + 1)
                   PROVE  /\ lines'[m][k] \in Entries
                          /\ lines'[m][k].genuine
                          /\ k > 1 => lines'[m][k].prev = lines'[m][k - 1].id
                          /\ k = 1 => lines'[m][k].prev = Genesis \/ "linked" \in causes[m]
        BY <3>7, <2>0 DEF Chained
      <4>1. CASE k \in 1..Len(lines[m])
        <5>1. k > 1 => k - 1 \in 1..Len(lines[m])
          BY <4>1, <3>4
        <5>2. QED
          BY <5>1, <4>1, <3>1, <3>7 DEF QuietOK, Chained
      <4>2. CASE k = Len(lines[m]) + 1
        <5>1. lines'[m][k] = draft[g]
          BY <4>2, <3>7
        <5>2. k > 1 => lines'[m][k].prev = lines'[m][k - 1].id
          <6> SUFFICES ASSUME k > 1 PROVE lines'[m][k].prev = lines'[m][k - 1].id
            OBVIOUS
          <6>1. Len(lines[m]) \in 1..Len(lines[m]) /\ lines[m] # <<>> /\ k - 1 = Len(lines[m])
            BY <4>2, <3>4, <1>0
          <6>2. lines'[m][k - 1] = lines[m][Len(lines[m])]
            BY <6>1, <3>7
          <6>3. draft[g].prev = lines[m][Len(lines[m])].id
            BY <6>1, <3>2, <3>8 DEF Continuing
          <6>4. QED
            BY <5>1, <6>2, <6>3
        <5>3. k = 1 => lines'[m][k].prev = Genesis \/ "linked" \in causes[m]
          <6> SUFFICES ASSUME k = 1 PROVE draft[g].prev = Genesis \/ "linked" \in causes[m]
            BY <5>1
          <6>1. lines[m] = <<>>
            BY <4>2, <3>4, <1>0
          <6>2. LoadLastHmac(m) = Genesis
            BY <6>1 DEF LoadLastHmac
          <6>3. QED
            BY <6>2, <3>2 DEF Continuing
        <5>4. QED
          BY <5>1, <5>2, <5>3, <3>2, <3>3 DEF Continuing
      <4>3. QED
        BY <4>1, <4>2, <3>4
    <3>10. Alone(m)'
      BY <3>1, <2>0 DEF QuietOK, Alone
    <3>11. LoadLastHmac(m)' = draft[g].id
      <4>1. lines'[m] # <<>> /\ LastLine(lines'[m]) = draft[g]
        BY <3>6, <3>7, <3>4, <1>0 DEF LastLine
      <4>2. QED
        BY <4>1, <3>3 DEF LoadLastHmac
    <3>12. ASSUME NEW h \in Loggers PROVE InStep(h, m)'
      <4>1. CASE h = g
        BY <4>1, <3>11, <3>2, <2>0 DEF InStep, Continuing
      <4>2. CASE h # g
        BY <4>2, <3>1, <2>0, <2>3 DEF InStep, QuietOK, Alone, TypeOK
      <4>3. QED
        BY <4>1, <4>2
    <3>13. QED
      BY <3>9, <3>10, <3>12 DEF QuietOK
  <2>4. QED
    BY <2>2, <2>3
<1>4. ASSUME NEW g \in Loggers, AppendFails(g) PROVE (Quiet(m) => QuietOK(m))'
  <2>0. /\ opened' = opened /\ last' = last /\ pc[g] = "appending" /\ opened[g] \in Months
        /\ \A h \in Loggers \ {g} : pc'[h] = pc[h] /\ draft'[h] = draft[h]
    BY <1>4 DEF AppendFails, GoTo, TypeOK
  <2>1. lines' = lines \/ lines' = [lines EXCEPT ![opened[g]] = Joined(@, Fragment)]
    BY <1>4 DEF AppendFails
  <2>2. Cause(opened[g], {"failed"}) \/ Cause(opened[g], {"torn"})
    BY <1>4 DEF AppendFails
  <2>3. CASE opened[g] # m
    <3>1. lines'[m] = lines[m] /\ causes'[m] = causes[m]
      BY <2>0, <2>1, <2>2, <2>3, <1>0 DEF Cause, TypeOK
    <3>2. QED
      BY <2>0, <2>3, <3>1, Elsewhere DEF Quiet
  <2>4. CASE opened[g] = m
    <3>1. "failed" \in causes'[m] \/ "torn" \in causes'[m]
      BY <2>2, <2>4 DEF Cause, TypeOK
    <3>2. QED
      BY <3>1 DEF Quiet
  <2>5. QED
    BY <2>3, <2>4
<1>5. ASSUME NEW g \in Loggers, Exit(g) PROVE (Quiet(m) => QuietOK(m))'
  <2>1. /\ lines' = lines /\ causes' = causes /\ pc'[g] = "off"
        /\ \A h \in Loggers \ {g} : /\ pc'[h] = pc[h] /\ opened'[h] = opened[h]
                                    /\ draft'[h] = draft[h] /\ last'[h] = last[h]
    BY <1>5 DEF Exit, GoTo, TypeOK
  <2>2. QED
    BY <2>1, Elsewhere DEF Quiet
<1>6. CASE MonthPasses \/ UNCHANGED vars
  <2>1. UNCHANGED <<lines, causes, pc, opened, draft, last>>
    BY <1>6 DEF MonthPasses, vars
  <2>2. QED
    BY <2>1, Elsewhere DEF Quiet
<1>7. ASSUME NEW e \in Months, Edit(e) PROVE (Quiet(m) => QuietOK(m))'
  <2>0. UNCHANGED <<pc, opened, draft, last>>
    BY <1>7 DEF Edit
  <2>1. CASE e # m
    <3>1. lines'[m] = lines[m] /\ causes'[m] = causes[m]
      BY <1>7, <2>1, <1>0 DEF Edit, Cause, TypeOK
    <3>2. QED
      BY <2>0, <3>1, Elsewhere DEF Quiet
  <2>2. CASE e = m
    <3>1. "edited" \in causes'[m]
      BY <1>7, <2>2 DEF Edit, Cause, TypeOK
    <3>2. QED
      BY <3>1 DEF Quiet
  <2>3. QED
    BY <2>1, <2>2
<1>8. QED
  BY <1>1, <1>2, <1>3, <1>4, <1>5, <1>6, <1>7 DEF Next, Logging

(* A chained file has nothing to report, or only its link. *)
LEMMA ChainedVerifies == TypeOK /\ ChainInv => UndisturbedVerifies
<1> SUFFICES ASSUME TypeOK, ChainInv, NEW m \in Months
             PROVE  /\ causes[m] = {} => VerifyChain(m) = "valid"
                    /\ causes[m] = {"linked"} =>
                         VerifyChain(m) # "raises" /\ Reported(m) \subseteq {1}
  BY DEF UndisturbedVerifies
<1>0. lines[m] \in Seq(Lines) /\ Len(lines[m]) \in Nat
  BY DEF TypeOK, Lines
<1>1. ASSUME Quiet(m), NEW k \in 1..Len(lines[m])
      PROVE  /\ lines[m][k] \in Entries
             /\ Continues(lines[m], k) \/ (k = 1 /\ "linked" \in causes[m])
  <2>1. Chained(m)
    BY <1>1 DEF ChainInv, QuietOK
  <2>2. k = 1 \/ k > 1
    BY <1>0
  <2>3. QED
    BY <2>1, <2>2 DEF Chained, Continues, Expected
<1>2. CASE causes[m] = {}
  BY <1>1, <1>2 DEF Quiet, VerifyChain, Reported
<1>3. CASE causes[m] = {"linked"}
  BY <1>1, <1>3 DEF Quiet, VerifyChain, Reported
<1>4. QED
  BY <1>2, <1>3

(* verify_chain reports nothing in an undisturbed file but its link, for   *)
(* any number of loggers, restarts and months.                             *)
THEOREM AuditChainVerifies == Spec => []UndisturbedVerifies
<1>1. Init => TypeOK /\ Unwritten /\ ChainInv
  BY TypeInit, ChainInit
<1>2. TypeOK /\ Unwritten /\ ChainInv /\ [Next]_vars => (TypeOK /\ Unwritten /\ ChainInv)'
  BY TypeStep, UnwrittenStep, ChainStep
<1>3. TypeOK /\ Unwritten /\ ChainInv => UndisturbedVerifies
  BY ChainedVerifies
<1>4. QED
  BY <1>1, <1>2, <1>3, PTL DEF Spec

-----------------------------------------------------------------------------
(* What a step does to a file. *)

(* A line that is joined to a file leaves the entries before it in their   *)
(* places, and makes none of what was unreadable.                          *)
LEMMA JoinedGrows ==
  ASSUME NEW s \in Seq(Lines), NEW line \in Lines, NEW k \in 1..Len(s)
  PROVE  /\ k \in 1..Len(Joined(s, line))
         /\ s[k] \in Entries => Joined(s, line)[k] = s[k]
         /\ s[k] \notin Entries => Joined(s, line)[k] \notin Entries
<1>1. CASE s # <<>> /\ LastLine(s) = Fragment
  <2> DEFINE x == IF line = Fragment THEN Fragment ELSE Unreadable
  <2>1. Joined(s, line) = [s EXCEPT ![Len(s)] = x]
    BY <1>1 DEF Joined
  <2>2. x \in Lines /\ x \notin Entries
    BY LinesAssumption DEF Lines
  <2>3. Len(Joined(s, line)) = Len(s)
    BY <2>1, <2>2
  <2>4. Joined(s, line)[k] = IF k = Len(s) THEN x ELSE s[k]
    BY <2>1, <2>2
  <2>5. s[Len(s)] \notin Entries
    BY <1>1, LinesAssumption DEF LastLine
  <2> QED
    BY <2>2, <2>3, <2>4, <2>5
<1>2. CASE ~(s # <<>> /\ LastLine(s) = Fragment)
  <2>1. Joined(s, line) = Append(s, line)
    BY <1>2 DEF Joined
  <2>2. Len(Joined(s, line)) = Len(s) + 1 /\ Joined(s, line)[k] = s[k]
    BY <2>1
  <2> QED
    BY <2>2
<1> QED
  BY <1>1, <1>2

(* After an entry, or in an empty file, a line is a line of its own.       *)
LEMMA JoinedAppends ==
  ASSUME NEW s \in Seq(Lines), NEW line \in Lines, s = <<>> \/ s[Len(s)] \in Entries
  PROVE  /\ Joined(s, line) = Append(s, line)
         /\ Len(Joined(s, line)) = Len(s) + 1
         /\ Joined(s, line)[Len(s) + 1] = line
         /\ \A k \in 1..Len(s) : Joined(s, line)[k] = s[k]
<1>1. Joined(s, line) = Append(s, line)
  BY LinesAssumption DEF Joined, LastLine
<1> QED
  BY <1>1

(* AppendLine: the line is joined to the file its logger has opened.       *)
LEMMA LineAppended ==
  ASSUME TypeOK, NEW g \in Loggers, AppendLine(g), NEW m \in Months
  PROVE  /\ opened[g] \in Months /\ draft[g] \in Entries /\ draft[g] \in Lines
         /\ causes' = causes /\ failed' = failed
         /\ lines'[m] = IF m = opened[g] THEN Joined(lines[m], draft[g]) ELSE lines[m]
         /\ acknowledged'[m] =
              IF m = opened[g] THEN acknowledged[m] \cup {draft[g].id} ELSE acknowledged[m]
  BY DEF AppendLine, TypeOK, Lines

(* AppendFails: the file keeps its lines, or a fragment is joined to it.   *)
LEMMA LineFailed ==
  ASSUME TypeOK, NEW g \in Loggers, AppendFails(g), NEW m \in Months
  PROVE  /\ opened[g] \in Months /\ acknowledged' = acknowledged
         /\ m # opened[g] =>
              lines'[m] = lines[m] /\ causes'[m] = causes[m] /\ failed'[m] = failed[m]
         /\ m = opened[g] =>
              \/ /\ lines'[m] = lines[m] /\ failed'[m] = failed[m] + 1
                 /\ causes'[m] = causes[m] \cup {"failed"}
              \/ /\ lines'[m] = Joined(lines[m], Fragment)
                 /\ causes'[m] = causes[m] \cup {"torn"}
  BY DEF AppendFails, Cause, TypeOK

(* Edit: it is remembered as a cause of the file it changed.               *)
LEMMA FileEdited ==
  ASSUME TypeOK, NEW e \in Months, Edit(e), NEW m \in Months
  PROVE  /\ acknowledged' = acknowledged /\ failed' = failed
         /\ m # e => lines'[m] = lines[m] /\ causes'[m] = causes[m]
         /\ m = e => causes'[m] = causes[m] \cup {"edited"}
  BY DEF Edit, Cause, TypeOK

(* A file stays what it is, or a line or a fragment is joined to it, or it *)
(* is edited; and nothing that has happened to it is forgotten.            *)
LEMMA FileStep ==
  ASSUME TypeOK, [Next]_vars, NEW m \in Months
  PROVE  /\ causes[m] \subseteq causes'[m]
         /\ \/ lines'[m] = lines[m] /\ acknowledged'[m] = acknowledged[m]
            \/ \E g \in Loggers :
                 /\ pc[g] = "appending" /\ opened[g] = m /\ draft[g] \in Entries
                 /\ lines'[m] = Joined(lines[m], draft[g])
                 /\ acknowledged'[m] = acknowledged[m] \cup {draft[g].id}
            \/ /\ lines'[m] = Joined(lines[m], Fragment) /\ "torn" \in causes'[m]
               /\ acknowledged'[m] = acknowledged[m]
            \/ Edit(m) /\ "edited" \in causes'[m]
<1>1. ASSUME NEW g \in Loggers, Open(g)
      PROVE lines'[m] = lines[m] /\ acknowledged'[m] = acknowledged[m] /\ causes[m] \subseteq causes'[m]
  <2>1. lines' = lines /\ acknowledged' = acknowledged /\ \E new : Cause(month, new)
    BY <1>1 DEF Open
  <2> QED
    BY <2>1 DEF Cause, TypeOK
<1>2. ASSUME NEW g \in Loggers, Log(g) \/ Exit(g) PROVE UNCHANGED <<lines, acknowledged, causes>>
  BY <1>2 DEF Log, Exit
<1>3. ASSUME NEW g \in Loggers, AppendLine(g)
      PROVE  /\ causes' = causes
             /\ \/ lines'[m] = lines[m] /\ acknowledged'[m] = acknowledged[m]
                \/ /\ pc[g] = "appending" /\ opened[g] = m /\ draft[g] \in Entries
                   /\ lines'[m] = Joined(lines[m], draft[g])
                   /\ acknowledged'[m] = acknowledged[m] \cup {draft[g].id}
  <2>1. pc[g] = "appending"
    BY <1>3 DEF AppendLine
  <2>2. CASE m # opened[g]
    BY <1>3, <2>2, LineAppended
  <2>3. CASE m = opened[g]
    BY <1>3, <2>1, <2>3, LineAppended
  <2> QED
    BY <2>2, <2>3
<1>4. ASSUME NEW g \in Loggers, AppendFails(g)
      PROVE  /\ causes[m] \subseteq causes'[m] /\ acknowledged'[m] = acknowledged[m]
             /\ \/ lines'[m] = lines[m]
                \/ lines'[m] = Joined(lines[m], Fragment) /\ "torn" \in causes'[m]
  <2>1. acknowledged' = acknowledged
    BY <1>4, LineFailed
  <2>2. CASE m # opened[g]
    BY <1>4, <2>1, <2>2, LineFailed
  <2>3. CASE m = opened[g]
    BY <1>4, <2>1, <2>3, LineFailed
  <2> QED
    BY <2>2, <2>3
<1>5. CASE MonthPasses \/ UNCHANGED vars
  BY <1>5 DEF MonthPasses, vars
<1>6. ASSUME NEW e \in Months, Edit(e)
      PROVE  /\ causes[m] \subseteq causes'[m]
             /\ \/ lines'[m] = lines[m] /\ acknowledged'[m] = acknowledged[m]
                \/ Edit(m) /\ "edited" \in causes'[m]
  BY <1>6, FileEdited
<1> QED
  BY <1>1, <1>2, <1>3, <1>4, <1>5, <1>6 DEF Next, Logging

-----------------------------------------------------------------------------
(* What was acknowledged is shown. *)

Whole(m) == causes[m] \cap {"torn", "edited"} = {}

(* The lines of a whole file are entries, the acknowledged ones among them.*)
ShownInv ==
  \A m \in Months : Whole(m) =>
    /\ \A k \in 1..Len(lines[m]) : lines[m][k] \in Entries
    /\ \A n \in acknowledged[m] : \E k \in 1..Len(lines[m]) : lines[m][k].id = n

(* Every step keeps the entries of the whole files. *)
LEMMA ShownStep == TypeOK /\ ShownInv /\ [Next]_vars => ShownInv'
<1> SUFFICES ASSUME TypeOK, ShownInv, [Next]_vars, NEW m \in Months, Whole(m)'
             PROVE  /\ \A k \in 1..Len(lines'[m]) : lines'[m][k] \in Entries
                    /\ \A n \in acknowledged'[m] :
                         \E k \in 1..Len(lines'[m]) : lines'[m][k].id = n
  BY DEF ShownInv
<1>1. Whole(m)
  BY FileStep DEF Whole
<1>2. /\ \A k \in 1..Len(lines[m]) : lines[m][k] \in Entries
      /\ \A n \in acknowledged[m] : \E k \in 1..Len(lines[m]) : lines[m][k].id = n
      /\ lines[m] \in Seq(Lines)
  BY <1>1 DEF ShownInv, TypeOK, Lines
<1>3. CASE lines'[m] = lines[m] /\ acknowledged'[m] = acknowledged[m]
  BY <1>2, <1>3
<1>4. ASSUME NEW g \in Loggers, draft[g] \in Entries,
             lines'[m] = Joined(lines[m], draft[g]),
             acknowledged'[m] = acknowledged[m] \cup {draft[g].id}
      PROVE  /\ \A k \in 1..Len(lines'[m]) : lines'[m][k] \in Entries
             /\ \A n \in acknowledged'[m] :
                  \E k \in 1..Len(lines'[m]) : lines'[m][k].id = n
  <2>1. draft[g] \in Lines /\ Len(lines[m]) \in Nat
    BY <1>2, <1>4 DEF Lines
  <2>2. lines[m] = <<>> \/ lines[m][Len(lines[m])] \in Entries
    BY <1>2
  <2>3. /\ Len(lines'[m]) = Len(lines[m]) + 1
        /\ lines'[m][Len(lines[m]) + 1] = draft[g]
        /\ \A k \in 1..Len(lines[m]) : lines'[m][k] = lines[m][k]
    BY <1>2, <1>4, <2>1, <2>2, JoinedAppends
  <2>4. \A k \in 1..Len(lines'[m]) : k \in 1..Len(lines[m]) \/ k = Len(lines[m]) + 1
    BY <2>1, <2>3
  <2>5. \A k \in 1..Len(lines'[m]) : lines'[m][k] \in Entries
    BY <1>2, <1>4, <2>3, <2>4
  <2>6. ASSUME NEW n \in acknowledged'[m]
        PROVE \E k \in 1..Len(lines'[m]) : lines'[m][k].id = n
    <3>1. CASE n = draft[g].id
      <4>1. Len(lines[m]) + 1 \in 1..Len(lines'[m])
        BY <2>1, <2>3
      <4> QED
        BY <4>1, <3>1, <2>3
    <3>2. CASE n \in acknowledged[m]
      <4>1. PICK k \in 1..Len(lines[m]) : lines[m][k].id = n
        BY <3>2, <1>2
      <4>2. k \in 1..Len(lines'[m]) /\ lines'[m][k] = lines[m][k]
        BY <2>1, <2>3
      <4> QED
        BY <4>1, <4>2
    <3> QED
      BY <1>4, <3>1, <3>2
  <2> QED
    BY <2>5, <2>6
<1>5. "torn" \notin causes'[m] /\ "edited" \notin causes'[m]
  BY DEF Whole
<1> QED
  BY <1>3, <1>4, <1>5, FileStep

(* What get_recent shows of a file of entries is all of it. *)
LEMMA ShownIsRecent == ShownInv => AcknowledgedIsShown
<1> SUFFICES ASSUME ShownInv, NEW m \in Months, causes[m] \cap {"torn", "edited"} = {},
                    NEW n \in acknowledged[m]
             PROVE  \E e \in Recent(m) : e.id = n
  BY DEF AcknowledgedIsShown
<1>1. \A k \in 1..Len(lines[m]) : lines[m][k] \in Entries
  BY DEF ShownInv, Whole
<1>2. PICK k \in 1..Len(lines[m]) : lines[m][k].id = n
  BY DEF ShownInv, Whole
<1>3. \A j \in 1..k : j \in 1..Len(lines[m])
  OBVIOUS
<1>4. lines[m][k] \in Recent(m)
  BY <1>1, <1>3 DEF Recent
<1> QED
  BY <1>2, <1>4

(* No acknowledged event is missing from what get_recent shows, however    *)
(* many loggers share the file.                                            *)
THEOREM AcknowledgedStaysShown == Spec => []AcknowledgedIsShown
<1>1. Init => TypeOK /\ ShownInv
  <2>1. Init => ShownInv
    BY DEF Init, ShownInv
  <2> QED
    BY <2>1, TypeInit
<1>2. TypeOK /\ ShownInv /\ [Next]_vars => (TypeOK /\ ShownInv)'
  BY TypeStep, ShownStep
<1> QED
  BY <1>1, <1>2, ShownIsRecent, PTL DEF Spec

-----------------------------------------------------------------------------
(* What does not verify never verifies again. *)

Verifies(s) == \A k \in 1..Len(s) : s[k] \in Entries /\ Continues(s, k)

LEMMA VerifiesMeans ==
  \A m \in Months : /\ VerifyChain(m) = "valid" <=> Verifies(lines[m])
                    /\ VerifyChain(m)' = "valid" <=> Verifies(lines'[m])
  BY DEF VerifyChain, Verifies, Reported

(* A line that is joined to a broken file does not mend it. *)
LEMMA JoinedStaysBroken ==
  ASSUME NEW s \in Seq(Lines), NEW line \in Lines, ~Verifies(s)
  PROVE  ~Verifies(Joined(s, line))
<1>1. CASE \E k \in 1..Len(s) : s[k] \notin Entries
  <2>1. PICK k \in 1..Len(s) : s[k] \notin Entries
    BY <1>1
  <2>2. k \in 1..Len(Joined(s, line)) /\ Joined(s, line)[k] \notin Entries
    BY <2>1, JoinedGrows
  <2> QED
    BY <2>2 DEF Verifies
<1>2. CASE \A k \in 1..Len(s) : s[k] \in Entries
  <2>1. PICK k \in 1..Len(s) : ~Continues(s, k)
    BY <1>2 DEF Verifies
  <2>2. k = 1 \/ k - 1 \in 1..Len(s)
    OBVIOUS
  <2>3. /\ k \in 1..Len(Joined(s, line)) /\ Joined(s, line)[k] = s[k]
        /\ k = 1 \/ Joined(s, line)[k - 1] = s[k - 1]
    BY <1>2, <2>2, JoinedGrows
  <2>4. ~Continues(Joined(s, line), k)
    BY <2>1, <2>3 DEF Continues, Expected
  <2> QED
    BY <2>3, <2>4 DEF Verifies
<1> QED
  BY <1>1, <1>2

(* A file that does not verify never does again, unless it is edited: for  *)
(* any number of loggers, and through failed and torn writes.              *)
THEOREM TamperingStaysEvident == Spec => BrokenStaysBroken
<1>1. TypeOK /\ [Next]_vars =>
        [\/ \E m \in Months : Edit(m)
         \/ \A m \in Months : VerifyChain(m) # "valid" => VerifyChain(m)' # "valid"]_vars
  <2> SUFFICES ASSUME TypeOK, [Next]_vars, ~\E e \in Months : Edit(e),
                      NEW m \in Months, VerifyChain(m) # "valid"
               PROVE  VerifyChain(m)' # "valid"
    OBVIOUS
  <2>1. lines[m] \in Seq(Lines) /\ ~Verifies(lines[m])
    BY VerifiesMeans DEF TypeOK, Lines
  <2>2. \/ lines'[m] = lines[m]
        \/ \E line \in Lines : lines'[m] = Joined(lines[m], line)
    BY FileStep DEF Lines
  <2>3. ~Verifies(lines'[m])
    BY <2>1, <2>2, JoinedStaysBroken
  <2> QED
    BY <2>3, VerifiesMeans
<1> QED
  BY <1>1, AuditTypes, PTL DEF Spec, BrokenStaysBroken

-----------------------------------------------------------------------------
(* A linked month leads back to the month before. *)

LinksBack(prev, m) ==
  \/ prev = Genesis
  \/ \E k \in 1..Len(lines[m - 1]) : lines[m - 1][k] \in Entries /\ lines[m - 1][k].id = prev

(* Nothing has failed in the month, or been taken out of the one before.   *)
Linkable(m) ==
  /\ causes[m] \cap {"failed", "torn", "edited"} = {}
  /\ "edited" \notin causes[m - 1]

(* What a logger will write first into the file of the month.              *)
Starting(g, m) ==
  opened[g] = m =>
    /\ pc[g] = "ready" => last[g] = Genesis
    /\ pc[g] = "appending" => LinksBack(draft[g].prev, m)

LinkInv ==
  \A m \in Months \ {1} : Linkable(m) =>
    /\ lines[m] # <<>> => lines[m][1] \in Entries /\ LinksBack(lines[m][1].prev, m)
    /\ lines[m] = <<>> => \A g \in Loggers : Starting(g, m)

(* The line that a link leads to stays in its file. *)
LEMMA LinkKept ==
  ASSUME TypeOK, [Next]_vars, NEW m \in Months \ {1}, Linkable(m)', NEW prev, LinksBack(prev, m)
  PROVE  prev = Genesis \/ \E k \in 1..Len(lines'[m - 1]) :
                             lines'[m - 1][k] \in Entries /\ lines'[m - 1][k].id = prev
<1> SUFFICES ASSUME prev # Genesis
             PROVE  \E k \in 1..Len(lines'[m - 1]) :
                      lines'[m - 1][k] \in Entries /\ lines'[m - 1][k].id = prev
  OBVIOUS
<1>1. m - 1 \in Months
  BY BoundsAssumption DEF Months
<1>2. PICK k \in 1..Len(lines[m - 1]) : lines[m - 1][k] \in Entries /\ lines[m - 1][k].id = prev
  BY DEF LinksBack
<1>3. lines[m - 1] \in Seq(Lines) /\ "edited" \notin causes'[m - 1]
  BY <1>1 DEF TypeOK, Lines, Linkable
<1>4. \/ lines'[m - 1] = lines[m - 1]
      \/ \E line \in Lines : lines'[m - 1] = Joined(lines[m - 1], line)
  BY <1>1, <1>3, FileStep DEF Lines
<1>5. k \in 1..Len(lines'[m - 1]) /\ lines'[m - 1][k] = lines[m - 1][k]
  BY <1>2, <1>3, <1>4, JoinedGrows
<1> QED
  BY <1>2, <1>5

(* What the constructor continues the month before with leads back to it.  *)
LEMMA PreviousLinksBack ==
  ASSUME TypeOK, NEW m \in Months \ {1}
  PROVE  LinksBack(PreviousMonthLastHmac(m), m)
<1>1. m - 1 \in Months
  BY BoundsAssumption DEF Months
<1>2. lines[m - 1] \in Seq(Lines)
  BY <1>1 DEF TypeOK, Lines
<1>3. CASE /\ m - 1 \in files /\ lines[m - 1] # <<>>
           /\ lines[m - 1][Len(lines[m - 1])] \in Entries
  <2>1. PreviousMonthLastHmac(m) = lines[m - 1][Len(lines[m - 1])].id
    BY <1>3 DEF PreviousMonthLastHmac, LoadLastHmac, LastLine
  <2>2. Len(lines[m - 1]) \in 1..Len(lines[m - 1])
    BY <1>2, <1>3
  <2> QED
    BY <1>3, <2>1, <2>2 DEF LinksBack
<1>4. CASE ~(/\ m - 1 \in files /\ lines[m - 1] # <<>>
             /\ lines[m - 1][Len(lines[m - 1])] \in Entries)
  BY <1>4 DEF PreviousMonthLastHmac, LoadLastHmac, LastLine, LinksBack
<1> QED
  BY <1>3, <1>4

(* A logger that has opened a month without lines keeps to where it starts.*)
LEMMA StartingStep ==
  ASSUME TypeOK, LinkInv, [Next]_vars, NEW m \in Months \ {1}, Linkable(m), Linkable(m)',
         lines[m] = <<>>, lines'[m] = <<>>, NEW g \in Loggers
  PROVE  Starting(g, m)'
<1>0. Starting(g, m)
  BY DEF LinkInv
<1>1. ASSUME pc'[g] # "off" /\ opened'[g] = m =>
               pc'[g] = pc[g] /\ opened'[g] = opened[g] /\ last'[g] = last[g] /\ draft'[g] = draft[g]
      PROVE  Starting(g, m)'
  <2>1. LinksBack(draft[g].prev, m) =>
          draft[g].prev = Genesis \/ \E k \in 1..Len(lines'[m - 1]) :
            lines'[m - 1][k] \in Entries /\ lines'[m - 1][k].id = draft[g].prev
    BY LinkKept
  <2> QED
    BY <1>0, <1>1, <2>1 DEF Starting, LinksBack
<1>2. CASE Open(g)
  <2>1. opened'[g] = month /\ lines' = lines
    BY <1>2 DEF Open, TypeOK
  <2>2. CASE month # m
    BY <2>1, <2>2 DEF Starting
  <2>3. CASE month = m
    <3> DEFINE previous == PreviousMonthLastHmac(month)
               isLinked == month \notin files /\ previous # Genesis
    <3>1. CASE isLinked
      <4>1. Compute(g, previous) /\ previous \in Nat
        <5>1. month - 1 \in files => month - 1 \in Months
          BY DEF TypeOK
        <5>2. previous \in Nat
          BY <5>1, LoadedHmac DEF PreviousMonthLastHmac, Genesis
        <5> QED
          BY <5>2, <1>2, <3>1 DEF Open
      <4>2. pc'[g] = "appending" /\ draft'[g].prev = previous
        BY <4>1, ComputeEntry
      <4>3. LinksBack(previous, m)
        BY <2>3, PreviousLinksBack
      <4> QED
        BY <4>2, <4>3, <2>1 DEF Starting, LinksBack
    <3>2. CASE ~isLinked
      <4>1. pc'[g] = "ready" /\ last'[g] = LoadLastHmac(m)
        BY <1>2, <2>3, <3>2 DEF Open, GoTo, TypeOK
      <4>2. LoadLastHmac(m) = Genesis
        BY DEF LoadLastHmac
      <4> QED
        BY <4>1, <4>2 DEF Starting
    <3> QED
      BY <3>1, <3>2
  <2> QED
    BY <2>2, <2>3
<1>3. CASE Log(g)
  <2>1. Compute(g, last[g]) /\ pc[g] = "ready" /\ opened' = opened /\ last[g] \in Nat
    BY <1>3 DEF Log, TypeOK
  <2>2. pc'[g] = "appending" /\ draft'[g].prev = last[g]
    BY <2>1, ComputeEntry
  <2>3. opened[g] = m => last[g] = Genesis
    BY <1>0, <2>1 DEF Starting
  <2> QED
    BY <2>1, <2>2, <2>3 DEF Starting, LinksBack
<1>4. CASE AppendLine(g)
  <2>1. opened' = opened /\ draft[g] \in Lines /\ lines[m] \in Seq(Lines)
    BY <1>4, LineAppended DEF AppendLine, TypeOK, Lines
  <2>2. opened[g] # m
    <3> SUFFICES ASSUME opened[g] = m PROVE FALSE
      OBVIOUS
    <3>1. lines'[m] = Joined(lines[m], draft[g])
      BY <1>4, LineAppended
    <3>2. Len(Joined(lines[m], draft[g])) = Len(lines[m]) + 1
      BY <2>1, JoinedAppends
    <3>3. Len(lines[m]) = 0 /\ Len(lines'[m]) = 0
      BY lines[m] = <<>>, lines'[m] = <<>>
    <3>4. Len(lines'[m]) = 0 + 1
      BY <3>1, <3>2, <3>3
    <3> QED
      BY <3>3, <3>4
  <2> QED
    BY <2>1, <2>2 DEF Starting
<1>5. CASE AppendFails(g)
  <2>1. opened' = opened
    BY <1>5 DEF AppendFails
  <2>2. opened[g] = m => "failed" \in causes'[m] \/ "torn" \in causes'[m]
    BY <1>5, LineFailed
  <2> QED
    BY <2>1, <2>2 DEF Starting, Linkable
<1>6. CASE Exit(g)
  BY <1>6 DEF Exit, GoTo, TypeOK, Starting
<1>7. ASSUME NEW h \in Loggers, h # g, Logging(h) \/ Exit(h) PROVE Starting(g, m)'
  <2>1. pc'[g] = pc[g] /\ opened'[g] = opened[g] /\ last'[g] = last[g] /\ draft'[g] = draft[g]
    BY <1>7 DEF Logging, Open, Log, AppendLine, AppendFails, Exit, Compute, GoTo, TypeOK
  <2> QED
    BY <2>1, <1>1
<1>8. CASE MonthPasses \/ (\E e \in Months : Edit(e)) \/ UNCHANGED vars
  <2>1. UNCHANGED <<pc, opened, last, draft>>
    BY <1>8 DEF MonthPasses, Edit, vars
  <2> QED
    BY <2>1, <1>1
<1> QED
  BY <1>2, <1>3, <1>4, <1>5, <1>6, <1>7, <1>8 DEF Next, Logging

(* Every step keeps the links. *)
LEMMA LinkStep == TypeOK /\ LinkInv /\ [Next]_vars => LinkInv'
<1> SUFFICES ASSUME TypeOK, LinkInv, [Next]_vars, NEW m \in Months \ {1}, Linkable(m)'
             PROVE  /\ lines'[m] # <<>> => lines'[m][1] \in Entries /\ LinksBack(lines[m][1].prev, m)'
                    /\ lines'[m] = <<>> => \A g \in Loggers : Starting(g, m)'
  BY DEF LinkInv
<1>0. m - 1 \in Months /\ lines[m] \in Seq(Lines)
  BY BoundsAssumption DEF Months, TypeOK, Lines
<1>1. Linkable(m)
  <2>1. causes[m] \subseteq causes'[m] /\ causes[m - 1] \subseteq causes'[m - 1]
    BY <1>0, FileStep
  <2> QED
    BY <2>1 DEF Linkable
<1>2. "torn" \notin causes'[m] /\ "edited" \notin causes'[m]
  BY DEF Linkable
<1>3. CASE lines[m] = <<>>
  <2>1. CASE lines'[m] = <<>>
    BY <1>1, <1>3, <2>1, StartingStep
  <2>2. CASE lines'[m] # <<>>
    <3>1. PICK g \in Loggers : /\ pc[g] = "appending" /\ opened[g] = m /\ draft[g] \in Entries
                               /\ lines'[m] = Joined(lines[m], draft[g])
      BY <1>2, <1>3, <2>2, FileStep
    <3>2. lines'[m][1] = draft[g]
      <4>1. draft[g] \in Lines /\ Len(lines[m]) = 0
        BY <3>1, <1>3 DEF Lines
      <4>2. Joined(lines[m], draft[g])[Len(lines[m]) + 1] = draft[g]
        BY <1>0, <1>3, <4>1, JoinedAppends
      <4> QED
        BY <3>1, <4>1, <4>2
    <3>3. LinksBack(draft[g].prev, m)
      BY <1>1, <1>3, <3>1 DEF LinkInv, Starting
    <3>4. draft[g].prev = Genesis \/ \E k \in 1..Len(lines'[m - 1]) :
            lines'[m - 1][k] \in Entries /\ lines'[m - 1][k].id = draft[g].prev
      BY <3>3, LinkKept
    <3> QED
      BY <2>2, <3>1, <3>2, <3>4 DEF LinksBack
  <2> QED
    BY <2>1, <2>2
<1>4. CASE lines[m] # <<>>
  <2>1. lines[m][1] \in Entries /\ LinksBack(lines[m][1].prev, m) /\ 1 \in 1..Len(lines[m])
    BY <1>0, <1>1, <1>4 DEF LinkInv
  <2>2. \/ lines'[m] = lines[m]
        \/ \E line \in Lines : lines'[m] = Joined(lines[m], line)
    BY <1>2, FileStep DEF Lines
  <2>3. lines'[m][1] = lines[m][1] /\ 1 \in 1..Len(lines'[m])
    BY <1>0, <2>1, <2>2, JoinedGrows
  <2>4. lines'[m] # <<>>
    BY <2>3
  <2>5. lines[m][1].prev = Genesis \/ \E k \in 1..Len(lines'[m - 1]) :
          lines'[m - 1][k] \in Entries /\ lines'[m - 1][k].id = lines[m][1].prev
    BY <2>1, LinkKept
  <2> QED
    BY <2>1, <2>3, <2>4, <2>5 DEF LinksBack
<1> QED
  BY <1>3, <1>4

(* The first line of a month leads to a line of the month before, or to    *)
(* none: whichever loggers open the month, and whatever the month before   *)
(* goes on to receive.                                                     *)
THEOREM LinksLeadBack == Spec => []LinkLeadsBack
<1>1. Init => TypeOK /\ LinkInv
  <2>1. Init => LinkInv
    BY DEF Init, LinkInv, Starting
  <2> QED
    BY <2>1, TypeInit
<1>2. TypeOK /\ LinkInv /\ [Next]_vars => (TypeOK /\ LinkInv)'
  BY TypeStep, LinkStep
<1>3. LinkInv => LinkLeadsBack
  <2> SUFFICES ASSUME LinkInv, NEW m \in Months \ {1}, Linkable(m),
                      lines[m] # <<>>, lines[m][1].prev # Genesis
               PROVE  \E e \in {lines[m - 1][k] : k \in 1..Len(lines[m - 1])} :
                        e \in Entries /\ e.id = lines[m][1].prev
    BY DEF LinkLeadsBack, Linkable
  <2> QED
    BY DEF LinkInv, LinksBack
<1> QED
  BY <1>1, <1>2, <1>3, PTL DEF Spec

-----------------------------------------------------------------------------
(* A failed write breaks the chain once. *)

(* A file that is not shared is open in one logger at most. *)
AloneInv == \A m \in Months : "shared" \notin causes[m] => Alone(m)

(* What a logger is about to append is what it remembers. *)
Remembered == \A g \in Loggers : pc[g] = "appending" => last[g] = draft[g].id

(* A logger whose next line will not continue the file. *)
Behind(g, m) ==
  /\ opened[g] = m
  /\ \/ pc[g] = "ready" /\ last[g] # LoadLastHmac(m)
     \/ pc[g] = "appending" /\ lines[m] # <<>> /\ draft[g].prev # LoadLastHmac(m)

(* A failed write that has not yet led to a break still may. *)
Mendable(m) ==
  causes[m] \subseteq {"linked", "failed"} =>
    /\ Cardinality(Breaks(m)) <= failed[m]
    /\ \A g \in Loggers : Behind(g, m) => Cardinality(Breaks(m)) + 1 <= failed[m]

BreakInv == \A m \in Months : Mendable(m)

(* The places where a sequence of lines does not continue itself. *)
BreaksIn(s) ==
  {k \in 2..Len(s) : ~(s[k] \in Entries /\ s[k - 1] \in Entries /\ s[k].prev = s[k - 1].id)}

LEMMA BreaksAreFinite ==
  ASSUME NEW s \in Seq(Lines)
  PROVE  IsFiniteSet(BreaksIn(s)) /\ Cardinality(BreaksIn(s)) \in Nat
<1>1. IsFiniteSet(2..Len(s))
  BY FS_Interval
<1>2. BreaksIn(s) \in SUBSET (2..Len(s))
  BY DEF BreaksIn
<1>3. IsFiniteSet(BreaksIn(s))
  BY <1>1, <1>2, FS_Subset
<1> QED
  BY <1>3, FS_CardinalityType

(* An entry adds a break when it does not continue the line before it.     *)
LEMMA BreakAdded ==
  ASSUME NEW s \in Seq(Lines), NEW e \in Entries, \A k \in 1..Len(s) : s[k] \in Entries
  PROVE  /\ Cardinality(BreaksIn(Joined(s, e))) <= Cardinality(BreaksIn(s)) + 1
         /\ s = <<>> \/ e.prev = s[Len(s)].id =>
              Cardinality(BreaksIn(Joined(s, e))) = Cardinality(BreaksIn(s))
<1> DEFINE t == Joined(s, e)
<1>0. e \in Lines /\ Len(s) \in Nat /\ (s = <<>> \/ s[Len(s)] \in Entries)
  BY DEF Lines
<1>1. Len(t) = Len(s) + 1 /\ t[Len(s) + 1] = e /\ \A k \in 1..Len(s) : t[k] = s[k]
  BY <1>0, JoinedAppends
<1> HIDE DEF t
<1>2. ASSUME NEW k \in 2..Len(s) PROVE t[k] = s[k] /\ t[k - 1] = s[k - 1]
  BY <1>0, <1>1
<1>3. BreaksIn(t) \ {Len(s) + 1} = BreaksIn(s)
  <2>1. ASSUME NEW k \in BreaksIn(t), k # Len(s) + 1 PROVE k \in BreaksIn(s)
    <3>1. k \in 2..Len(s)
      BY <1>0, <1>1, <2>1 DEF BreaksIn
    <3> QED
      BY <1>2, <2>1, <3>1 DEF BreaksIn
  <2>2. ASSUME NEW k \in BreaksIn(s) PROVE k \in BreaksIn(t) /\ k # Len(s) + 1
    <3>1. k \in 2..Len(s) /\ k \in 2..Len(t) /\ k # Len(s) + 1
      BY <1>0, <1>1, <2>2 DEF BreaksIn
    <3> QED
      BY <1>2, <2>2, <3>1 DEF BreaksIn
  <2> QED
    BY <2>1, <2>2
<1>4. BreaksIn(t) \subseteq BreaksIn(s) \cup {Len(s) + 1}
  BY <1>3
<1>5. /\ IsFiniteSet(BreaksIn(s)) /\ Cardinality(BreaksIn(s)) \in Nat
      /\ IsFiniteSet(BreaksIn(s) \cup {Len(s) + 1})
      /\ Cardinality(BreaksIn(s) \cup {Len(s) + 1}) <= Cardinality(BreaksIn(s)) + 1
      /\ Cardinality(BreaksIn(s) \cup {Len(s) + 1}) \in Nat
  BY BreaksAreFinite, FS_AddElement, FS_CardinalityType
<1>6. /\ Cardinality(BreaksIn(t)) <= Cardinality(BreaksIn(s) \cup {Len(s) + 1})
      /\ Cardinality(BreaksIn(t)) \in Nat
  BY <1>4, <1>5, FS_Subset, FS_CardinalityType
<1>7. ASSUME s = <<>> \/ e.prev = s[Len(s)].id PROVE Len(s) + 1 \notin BreaksIn(t)
  <2>1. CASE s = <<>>
    BY <1>1, <2>1 DEF BreaksIn
  <2>2. CASE s # <<>> /\ e.prev = s[Len(s)].id
    <3>1. Len(s) \in 1..Len(s) /\ (Len(s) + 1) - 1 = Len(s)
      BY <1>0, <2>2
    <3>2. t[Len(s) + 1] \in Entries /\ t[Len(s)] \in Entries /\ t[Len(s) + 1].prev = t[Len(s)].id
      BY <1>0, <1>1, <2>2, <3>1
    <3> QED
      BY <3>1, <3>2 DEF BreaksIn
  <2> QED
    BY <1>7, <2>1, <2>2
<1>8. ASSUME s = <<>> \/ e.prev = s[Len(s)].id
      PROVE  Cardinality(BreaksIn(t)) = Cardinality(BreaksIn(s))
  <2>1. BreaksIn(t) = BreaksIn(s)
    BY <1>3, <1>7, <1>8
  <2> QED
    BY <2>1
<1> QED
  BY <1>5, <1>6, <1>8 DEF t

(* A logger that opens a file another one has open shares it.              *)
LEMMA AloneStep == TypeOK /\ AloneInv /\ [Next]_vars => AloneInv'
<1> SUFFICES ASSUME TypeOK, AloneInv, [Next]_vars, NEW m \in Months, "shared" \notin causes'[m]
             PROVE  Alone(m)'
  BY DEF AloneInv
<1>1. Alone(m)
  BY FileStep DEF AloneInv
<1>2. ASSUME NEW g \in Loggers, Open(g) PROVE Alone(m)'
  <2>1. \A h \in Loggers \ {g} : pc'[h] = pc[h] /\ opened'[h] = opened[h]
    BY <1>2 DEF Open, Compute, GoTo, TypeOK
  <2>2. opened'[g] = month /\ month \in Months
    BY <1>2 DEF Open, TypeOK
  <2>3. CASE month # m
    BY <1>1, <2>1, <2>2, <2>3 DEF Alone
  <2>4. CASE month = m
    <3> DEFINE new == {c \in {"shared"} : \E h \in Loggers : pc[h] # "off" /\ opened[h] = month}
    <3>1. \E other : Cause(month, other \cup new)
      BY <1>2 DEF Open
    <3>2. new \subseteq causes'[m]
      BY <2>4, <3>1 DEF Cause, TypeOK
    <3>3. \A h \in Loggers : ~(pc[h] # "off" /\ opened[h] = m)
      BY <2>4, <3>2
    <3> QED
      BY <2>1, <3>3 DEF Alone
  <2> QED
    BY <2>3, <2>4
<1>3. ASSUME NEW g \in Loggers, Log(g) \/ AppendLine(g) \/ AppendFails(g) PROVE Alone(m)'
  <2>1. opened' = opened /\ \A h \in Loggers : pc'[h] # "off" => pc[h] # "off"
    BY <1>3 DEF Log, AppendLine, AppendFails, Compute, GoTo, TypeOK
  <2> QED
    BY <1>1, <2>1 DEF Alone
<1>4. ASSUME NEW g \in Loggers, Exit(g) PROVE Alone(m)'
  <2>1. \A h \in Loggers : pc'[h] # "off" => pc[h] # "off" /\ opened'[h] = opened[h]
    BY <1>4 DEF Exit, GoTo, TypeOK
  <2> QED
    BY <1>1, <2>1 DEF Alone
<1>5. CASE MonthPasses \/ (\E e \in Months : Edit(e)) \/ UNCHANGED vars
  BY <1>1, <1>5 DEF MonthPasses, Edit, vars, Alone
<1> QED
  BY <1>2, <1>3, <1>4, <1>5 DEF Next, Logging

(* log() remembers the HMAC of the entry it is about to append.            *)
LEMMA RememberedStep == TypeOK /\ Remembered /\ [Next]_vars => Remembered'
<1> SUFFICES ASSUME TypeOK, Remembered, [Next]_vars, NEW g \in Loggers, pc'[g] = "appending"
             PROVE  last'[g] = draft'[g].id
  BY DEF Remembered
<1>1. CASE Open(g)
  BY <1>1 DEF Open, Compute, Entry, GoTo, TypeOK
<1>2. CASE Log(g)
  BY <1>2 DEF Log, Compute, Entry, GoTo, TypeOK
<1>3. ~AppendLine(g) /\ ~AppendFails(g) /\ ~Exit(g)
  BY DEF AppendLine, AppendFails, Exit, GoTo, TypeOK
<1>4. ASSUME NEW h \in Loggers, h # g, Logging(h) \/ Exit(h) PROVE last'[g] = draft'[g].id
  <2>1. pc'[g] = pc[g] /\ last'[g] = last[g] /\ draft'[g] = draft[g]
    BY <1>4 DEF Logging, Open, Log, AppendLine, AppendFails, Exit, Compute, GoTo, TypeOK
  <2> QED
    BY <2>1 DEF Remembered
<1>5. CASE MonthPasses \/ (\E e \in Months : Edit(e)) \/ UNCHANGED vars
  BY <1>5 DEF MonthPasses, Edit, vars, Remembered
<1> QED
  BY <1>1, <1>2, <1>3, <1>4, <1>5 DEF Next, Logging

(* A step that leaves a file alone adds no break, nor puts a logger behind *)
(* it unless it was. *)
LEMMA BreaksElsewhere ==
  ASSUME TypeOK, BreakInv, NEW m \in Months, lines'[m] = lines[m], failed'[m] = failed[m],
         causes[m] \subseteq causes'[m],
         \A g \in Loggers : Behind(g, m)' => Behind(g, m)
  PROVE  Mendable(m)'
<1>1. Breaks(m)' = Breaks(m)
  BY DEF Breaks
<1> QED
  BY <1>1 DEF BreakInv, Mendable

(* Every step keeps the breaks within the failed writes. *)
LEMMA BreakStep ==
  TypeOK /\ Unwritten /\ ShownInv /\ AloneInv /\ Remembered /\ BreakInv /\ [Next]_vars => BreakInv'
<1> SUFFICES ASSUME TypeOK, Unwritten, ShownInv, AloneInv, Remembered, BreakInv, [Next]_vars,
                    NEW m \in Months, causes'[m] \subseteq {"linked", "failed"}
             PROVE  Mendable(m)'
  BY DEF BreakInv, Mendable
<1>0. /\ causes[m] \subseteq causes'[m] /\ Mendable(m)
      /\ causes[m] \subseteq {"linked", "failed"}
  BY FileStep DEF BreakInv
<1>1. /\ lines[m] \in Seq(Lines) /\ Len(lines[m]) \in Nat /\ failed[m] \in Nat
      /\ \A k \in 1..Len(lines[m]) : lines[m][k] \in Entries
      /\ Cardinality(Breaks(m)) \in Nat /\ Breaks(m) = BreaksIn(lines[m])
      /\ Alone(m)
  <2>1. lines[m] \in Seq(Lines) /\ failed[m] \in Nat /\ Breaks(m) = BreaksIn(lines[m])
    BY DEF TypeOK, Lines, Breaks, BreaksIn
  <2>2. Whole(m) /\ "shared" \notin causes[m]
    BY <1>0 DEF Whole
  <2> QED
    BY <2>1, <2>2, BreaksAreFinite DEF ShownInv, AloneInv
<1>2. /\ Cardinality(Breaks(m)) <= failed[m]
      /\ \A g \in Loggers : Behind(g, m) => Cardinality(Breaks(m)) + 1 <= failed[m]
  BY <1>0 DEF Mendable
<1>3. ASSUME NEW g \in Loggers, Open(g) PROVE Mendable(m)'
  <2>1. /\ lines' = lines /\ failed' = failed /\ month \in Months
        /\ opened'[g] = month
        /\ \A h \in Loggers \ {g} : /\ pc'[h] = pc[h] /\ opened'[h] = opened[h]
                                    /\ draft'[h] = draft[h] /\ last'[h] = last[h]
    BY <1>3 DEF Open, Compute, GoTo, TypeOK
  <2>2. LoadLastHmac(m)' = LoadLastHmac(m)
    BY <2>1 DEF LoadLastHmac, LastLine
  <2>3. ~Behind(g, m)'
    <3> SUFFICES ASSUME month = m PROVE ~Behind(g, m)'
      BY <2>1 DEF Behind
    <3> DEFINE previous == PreviousMonthLastHmac(month)
               isLinked == month \notin files /\ previous # Genesis
    <3>1. CASE isLinked
      <4>1. Compute(g, previous) /\ lines[m] = <<>>
        BY <1>3, <3>1 DEF Open, Unwritten
      <4>2. pc'[g] = "appending"
        BY <4>1 DEF Compute, GoTo, TypeOK
      <4> QED
        BY <4>1, <4>2, <2>1 DEF Behind
    <3>2. CASE ~isLinked
      <4>1. pc'[g] = "ready" /\ last'[g] = LoadLastHmac(m)
        BY <1>3, <3>2 DEF Open, GoTo, TypeOK
      <4> QED
        BY <4>1, <2>2 DEF Behind
    <3> QED
      BY <3>1, <3>2
  <2>4. \A h \in Loggers : Behind(h, m)' => Behind(h, m)
    BY <2>1, <2>2, <2>3 DEF Behind
  <2> QED
    BY <1>0, <2>1, <2>4, BreaksElsewhere
<1>4. ASSUME NEW g \in Loggers, Log(g) PROVE Mendable(m)'
  <2>1. /\ lines' = lines /\ failed' = failed /\ opened' = opened
        /\ pc[g] = "ready" /\ last[g] \in Nat /\ Compute(g, last[g])
    BY <1>4 DEF Log, TypeOK
  <2>2. /\ pc'[g] = "appending" /\ draft'[g].prev = last[g]
        /\ \A h \in Loggers \ {g} : pc'[h] = pc[h] /\ draft'[h] = draft[h] /\ last'[h] = last[h]
    BY <2>1, ComputeEntry
  <2>3. LoadLastHmac(m)' = LoadLastHmac(m)
    BY <2>1 DEF LoadLastHmac, LastLine
  <2>4. \A h \in Loggers : Behind(h, m)' => Behind(h, m)
    BY <2>1, <2>2, <2>3 DEF Behind
  <2> QED
    BY <1>0, <2>1, <2>4, BreaksElsewhere
<1>5. ASSUME NEW g \in Loggers, AppendLine(g) PROVE Mendable(m)'
  <2>1. /\ opened' = opened /\ last' = last /\ failed' = failed
        /\ pc[g] = "appending" /\ pc'[g] = "ready"
        /\ \A h \in Loggers \ {g} : pc'[h] = pc[h] /\ draft'[h] = draft[h]
        /\ draft[g] \in Entries /\ draft[g] \in Lines
    BY <1>5 DEF AppendLine, GoTo, TypeOK, Lines
  <2>2. CASE opened[g] # m
    <3>1. lines'[m] = lines[m]
      BY <1>5, <2>2, LineAppended
    <3>2. LoadLastHmac(m)' = LoadLastHmac(m)
      BY <3>1 DEF LoadLastHmac, LastLine
    <3>3. \A h \in Loggers : Behind(h, m)' => Behind(h, m)
      BY <2>1, <2>2, <3>1, <3>2 DEF Behind
    <3> QED
      BY <1>0, <2>1, <3>1, <3>3, BreaksElsewhere
  <2>3. CASE opened[g] = m
    <3>1. lines'[m] = Joined(lines[m], draft[g])
      BY <1>5, <2>3, LineAppended
    <3>2. Breaks(m)' = BreaksIn(Joined(lines[m], draft[g]))
      BY <3>1 DEF Breaks, BreaksIn
    <3>3. /\ Cardinality(Breaks(m)') <= Cardinality(Breaks(m)) + 1
          /\ lines[m] = <<>> \/ draft[g].prev = lines[m][Len(lines[m])].id =>
               Cardinality(Breaks(m)') = Cardinality(Breaks(m))
      BY <1>1, <2>1, <3>2, BreakAdded
    <3>4. lines[m] # <<>> => LoadLastHmac(m) = lines[m][Len(lines[m])].id
      BY <1>1 DEF LoadLastHmac, LastLine
    <3>5. Behind(g, m) \/ lines[m] = <<>> \/ draft[g].prev = lines[m][Len(lines[m])].id
      BY <2>1, <2>3, <3>4 DEF Behind
    <3>6. Cardinality(Breaks(m)') \in Nat
      <4>1. Joined(lines[m], draft[g]) \in Seq(Lines)
        BY <1>1, <2>1, JoinedType
      <4> QED
        BY <3>2, <4>1, BreaksAreFinite
    <3>7. Cardinality(Breaks(m)') <= failed[m]
      BY <1>1, <1>2, <3>3, <3>5, <3>6
    <3>8. LoadLastHmac(m)' = draft[g].id
      <4>1. /\ Len(lines'[m]) = Len(lines[m]) + 1
            /\ lines'[m][Len(lines[m]) + 1] = draft[g]
        BY <1>1, <2>1, <3>1, JoinedAppends
      <4>2. lines'[m] # <<>> /\ LastLine(lines'[m]) = draft[g]
        BY <1>1, <4>1 DEF LastLine
      <4> QED
        BY <2>1, <4>2 DEF LoadLastHmac
    <3>9. ASSUME NEW h \in Loggers PROVE ~Behind(h, m)'
      <4>1. CASE h = g
        BY <2>1, <3>8, <4>1 DEF Behind, Remembered
      <4>2. CASE h # g
        BY <1>1, <2>1, <2>3, <4>2 DEF Behind, Alone
      <4> QED
        BY <4>1, <4>2
    <3> QED
      BY <2>1, <3>7, <3>9 DEF Mendable
  <2> QED
    BY <2>2, <2>3
<1>6. ASSUME NEW g \in Loggers, AppendFails(g) PROVE Mendable(m)'
  <2>1. /\ opened' = opened /\ last' = last
        /\ \A h \in Loggers \ {g} : pc'[h] = pc[h] /\ draft'[h] = draft[h]
    BY <1>6 DEF AppendFails, GoTo, TypeOK
  <2>2. CASE opened[g] # m
    <3>1. lines'[m] = lines[m] /\ failed'[m] = failed[m]
      BY <1>6, <2>2, LineFailed
    <3>2. LoadLastHmac(m)' = LoadLastHmac(m)
      BY <3>1 DEF LoadLastHmac, LastLine
    <3>3. \A h \in Loggers : Behind(h, m)' => Behind(h, m)
      BY <2>1, <2>2, <3>1, <3>2 DEF Behind
    <3> QED
      BY <1>0, <3>1, <3>3, BreaksElsewhere
  <2>3. CASE opened[g] = m
    <3>1. lines'[m] = lines[m] /\ failed'[m] = failed[m] + 1
      <4>1. "torn" \notin causes'[m]
        OBVIOUS
      <4> QED
        BY <1>6, <2>3, <4>1, LineFailed
    <3>2. Breaks(m)' = Breaks(m)
      BY <3>1 DEF Breaks
    <3>3. Cardinality(Breaks(m)') + 1 <= failed'[m] /\ Cardinality(Breaks(m)') <= failed'[m]
      BY <1>1, <1>2, <3>1, <3>2
    <3> QED
      BY <3>3 DEF Mendable
  <2> QED
    BY <2>2, <2>3
<1>7. ASSUME NEW g \in Loggers, Exit(g) PROVE Mendable(m)'
  <2>1. /\ lines' = lines /\ failed' = failed /\ pc'[g] = "off"
        /\ \A h \in Loggers \ {g} : /\ pc'[h] = pc[h] /\ opened'[h] = opened[h]
                                    /\ draft'[h] = draft[h] /\ last'[h] = last[h]
    BY <1>7 DEF Exit, GoTo, TypeOK
  <2>2. LoadLastHmac(m)' = LoadLastHmac(m)
    BY <2>1 DEF LoadLastHmac, LastLine
  <2>3. \A h \in Loggers : Behind(h, m)' => Behind(h, m)
    BY <2>1, <2>2 DEF Behind
  <2> QED
    BY <1>0, <2>1, <2>3, BreaksElsewhere
<1>8. CASE MonthPasses \/ UNCHANGED vars
  <2>1. UNCHANGED <<lines, failed, pc, opened, last, draft>>
    BY <1>8 DEF MonthPasses, vars
  <2>2. LoadLastHmac(m)' = LoadLastHmac(m)
    BY <2>1 DEF LoadLastHmac, LastLine
  <2>3. \A h \in Loggers : Behind(h, m)' => Behind(h, m)
    BY <2>1, <2>2 DEF Behind
  <2> QED
    BY <1>0, <2>1, <2>3, BreaksElsewhere
<1>9. ASSUME NEW e \in Months, Edit(e) PROVE Mendable(m)'
  <2>1. UNCHANGED <<pc, opened, last, draft>> /\ failed' = failed
    BY <1>9 DEF Edit
  <2>2. lines'[m] = lines[m]
    <3>1. "edited" \notin causes'[m]
      OBVIOUS
    <3> QED
      BY <1>9, <3>1, FileEdited
  <2>3. LoadLastHmac(m)' = LoadLastHmac(m)
    BY <2>2 DEF LoadLastHmac, LastLine
  <2>4. \A h \in Loggers : Behind(h, m)' => Behind(h, m)
    BY <2>1, <2>2, <2>3 DEF Behind
  <2> QED
    BY <1>0, <2>1, <2>2, <2>4, BreaksElsewhere
<1> QED
  BY <1>3, <1>4, <1>5, <1>6, <1>7, <1>8, <1>9 DEF Next, Logging

(* The empty log has no breaks. *)
LEMMA BreakInit == Init => AloneInv /\ Remembered /\ BreakInv
<1> SUFFICES ASSUME Init PROVE AloneInv /\ Remembered /\ BreakInv
  OBVIOUS
<1>1. ASSUME NEW m \in Months PROVE Mendable(m)
  <2>1. Breaks(m) = {}
    BY DEF Init, Breaks
  <2>2. Cardinality(Breaks(m)) = 0
    BY <2>1, FS_EmptySet
  <2>3. \A g \in Loggers : ~Behind(g, m)
    BY DEF Init, Behind
  <2> QED
    BY <2>2, <2>3 DEF Init, Mendable
<1> QED
  BY <1>1 DEF Init, AloneInv, Alone, Remembered, BreakInv

(* A file has no more breaks than writes have failed, for any number of    *)
(* events and of restarts after them.                                      *)
THEOREM BreaksAreEarned == Spec => []OneBreakPerFailure
<1> DEFINE I == TypeOK /\ Unwritten /\ ShownInv /\ AloneInv /\ Remembered /\ BreakInv
<1>1. Init => I
  <2>1. Init => ShownInv /\ Unwritten
    BY DEF Init, ShownInv, Unwritten
  <2> QED
    BY <2>1, TypeInit, BreakInit
<1>2. I /\ [Next]_vars => I'
  BY TypeStep, UnwrittenStep, ShownStep, AloneStep, RememberedStep, BreakStep
<1>3. I => OneBreakPerFailure
  BY DEF BreakInv, Mendable, OneBreakPerFailure
<1> HIDE DEF I
<1> QED
  BY <1>1, <1>2, <1>3, PTL DEF Spec
=============================================================================
