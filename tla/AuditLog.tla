------------------------------ MODULE AuditLog ------------------------------
(***************************************************************************)
(* licensing/audit_logger.py: one JSON line per event, each with an HMAC   *)
(* over the event and the HMAC of the line before.  An AuditLogger chooses *)
(* the file of the month when it is constructed, keeps the last HMAC in    *)
(* memory from then on, and never changes to the file of a later month.    *)
(*                                                                         *)
(* An HMAC is taken to be ideal: it stands for the number of the event it  *)
(* was computed for, and a line verifies after a given HMAC only when it   *)
(* was computed after that one and has not been edited since.  log() is    *)
(* two steps: the HMAC is computed and remembered, then the line is        *)
(* appended; an exception of the second is swallowed.  A write that is cut *)
(* short leaves a fragment without a line end, which the next line is      *)
(* joined to.  The constructor only reads before its own log(), so its     *)
(* reads are one step.                                                     *)
(***************************************************************************)
EXTENDS Integers, Sequences, FiniteSets

CONSTANTS
  Loggers,      \* AuditLogger objects, of one or several processes, on one directory
  MaxMonth,     \* bound on the months
  MaxEvents,    \* bound on the events
  MaxFaults,    \* bound on failed writes and on edits of the files
  Fragment,     \* a line without its end
  Unreadable    \* a whole line that is not JSON

ASSUME BoundsAssumption ==
  MaxMonth \in Nat \ {0} /\ MaxEvents \in Nat /\ MaxFaults \in Nat

Months == 1..MaxMonth

Genesis == 0    \* the HMAC before the first event of a chain

Entries == [id : Nat \ {0}, prev : Nat, genuine : BOOLEAN]

ASSUME LinesAssumption == Fragment \notin Entries /\ Unreadable \notin Entries

VARIABLES
  month,          \* datetime.now()
  files,          \* the months whose file exists
  lines,          \* the lines of each file
  pc,             \* what each logger is doing
  opened,         \* _log_file: its month; 0 before the construction
  last,           \* _last_hmac
  draft,          \* the entry that log() is about to append
  logged,         \* events so far
  faults,         \* failed writes and edits so far
  acknowledged,   \* history: events appended to each file without an error
  failed,         \* history: writes that left nothing in each file
  causes          \* history: what has happened to each file that a chain may suffer from

vars == <<month, files, lines, pc, opened, last, draft, logged, faults,
          acknowledged, failed, causes>>

NoEntry == [id |-> 1, prev |-> Genesis, genuine |-> TRUE]

LastLine(s) == s[Len(s)]

TypeOK ==
  /\ month \in Months
  /\ files \subseteq Months
  /\ lines \in [Months -> Seq(Entries \cup {Fragment, Unreadable})]
  /\ pc \in [Loggers -> {"off", "ready", "appending"}]
  /\ opened \in [Loggers -> 0..MaxMonth]
  /\ \A g \in Loggers : pc[g] # "off" => opened[g] \in Months
  /\ last \in [Loggers -> Nat]
  /\ draft \in [Loggers -> Entries]
  /\ logged \in Nat
  /\ faults \in Nat
  /\ acknowledged \in [Months -> SUBSET Nat]
  /\ failed \in [Months -> Nat]
  /\ causes \in [Months -> SUBSET {"linked", "shared", "failed", "torn", "edited"}]

Init ==
  /\ month = 1
  /\ files = {}
  /\ lines = [m \in Months |-> <<>>]
  /\ pc = [g \in Loggers |-> "off"]
  /\ opened = [g \in Loggers |-> 0]
  /\ last = [g \in Loggers |-> Genesis]
  /\ draft = [g \in Loggers |-> NoEntry]
  /\ logged = 0
  /\ faults = 0
  /\ acknowledged = [m \in Months |-> {}]
  /\ failed = [m \in Months |-> 0]
  /\ causes = [m \in Months |-> {}]

GoTo(g, place) == pc' = [pc EXCEPT ![g] = place]

Cause(m, new) == causes' = [causes EXCEPT ![m] = @ \cup new]

-----------------------------------------------------------------------------
(* Reading a file. *)

(* Mutant: the first line is loaded instead of the last. *)
LoadFirstHmac(m) ==
  IF lines[m] = <<>> \/ lines[m][1] \notin Entries THEN Genesis ELSE lines[m][1].id

(* Mutant: an unreadable last line gives no HMAC at all. *)
LoadWithoutFallback(m) ==
  IF lines[m] = <<>> THEN Genesis
  ELSE IF LastLine(lines[m]) \notin Entries THEN -1 ELSE LastLine(lines[m]).id

(* _load_last_hmac: an unreadable last line counts as none. *)
LoadLastHmac(m) ==
  IF lines[m] = <<>> \/ LastLine(lines[m]) \notin Entries THEN Genesis ELSE LastLine(lines[m]).id

(* Mutant: the link goes to an event that is not in the file. *)
FollowingHmac(m) == IF m - 1 \in files THEN LoadLastHmac(m - 1) + 1 ELSE Genesis

(* _get_previous_month_last_hmac: the month before only, not an older one. *)
PreviousMonthLastHmac(m) == IF m - 1 \in files THEN LoadLastHmac(m - 1) ELSE Genesis

(* get_recent(n), for an n that does not cut the list: an unreadable line  *)
(* ends it, and what comes after that line is not returned.                *)
Recent(m) ==
  {lines[m][k] : k \in {n \in 1..Len(lines[m]) : \A j \in 1..n : lines[m][j] \in Entries}}

(* The HMAC that verify_chain expects line k to continue. *)
Expected(s, k) == IF k = 1 THEN Genesis ELSE s[k - 1].id

Continues(s, k) == s[k].prev = Expected(s, k) /\ s[k].genuine

Reported(m) == {k \in 1..Len(lines[m]) : ~Continues(lines[m], k)}

(* Mutant: only the newest line is verified. *)
VerifyNewest(m) ==
  IF \E k \in 1..Len(lines[m]) : lines[m][k] \notin Entries THEN "raises"
  ELSE IF lines[m] = <<>> \/ Continues(lines[m], Len(lines[m])) THEN "valid"
  ELSE "invalid"

(* verify_chain: json.loads is not protected there, and raises. *)
VerifyChain(m) ==
  IF \E k \in 1..Len(lines[m]) : lines[m][k] \notin Entries THEN "raises"
  ELSE IF Reported(m) = {} THEN "valid"
  ELSE "invalid"

-----------------------------------------------------------------------------
(* log(): the HMAC is computed and becomes the last one before the write.  *)

Entry(prev) == [id |-> logged + 1, prev |-> prev, genuine |-> TRUE]

(* Mutant: _last_hmac is not advanced. *)
ComputeWithoutAdvance(g, prev) ==
  /\ logged < MaxEvents
  /\ logged' = logged + 1
  /\ draft' = [draft EXCEPT ![g] = Entry(prev)]
  /\ last' = [last EXCEPT ![g] = prev]
  /\ GoTo(g, "appending")

Compute(g, prev) ==
  /\ logged < MaxEvents
  /\ logged' = logged + 1
  /\ draft' = [draft EXCEPT ![g] = Entry(prev)]
  /\ last' = [last EXCEPT ![g] = Entry(prev).id]
  /\ GoTo(g, "appending")

(* The constructor.  The first logger of a month continues the chain of    *)
(* the month before, with an event of its own. *)
Open(g) ==
  /\ pc[g] = "off"
  /\ opened' = [opened EXCEPT ![g] = month]
  /\ LET previous == PreviousMonthLastHmac(month)
         isLinked == month \notin files /\ previous # Genesis
     IN /\ Cause(month, {c \in {"linked"} : isLinked}
              \cup {c \in {"shared"} : \E h \in Loggers : pc[h] # "off" /\ opened[h] = month})
        /\ IF isLinked
           THEN Compute(g, previous)
           ELSE /\ last' = [last EXCEPT ![g] = LoadLastHmac(month)]
                /\ GoTo(g, "ready")
                /\ UNCHANGED <<draft, logged>>
  /\ UNCHANGED <<month, files, lines, faults, acknowledged, failed>>

Log(g) ==
  /\ pc[g] = "ready"
  /\ Compute(g, last[g])
  /\ UNCHANGED <<month, files, lines, opened, faults, acknowledged, failed, causes>>

(* A line that follows a fragment is joined to it, and lost with it. *)
Joined(s, line) ==
  IF s # <<>> /\ LastLine(s) = Fragment
  THEN [s EXCEPT ![Len(s)] = IF line = Fragment THEN Fragment ELSE Unreadable]
  ELSE Append(s, line)

(* Mutant: the file is opened for writing, not for appending. *)
AppendOverwrites(g) ==
  /\ pc[g] = "appending"
  /\ files' = files \cup {opened[g]}
  /\ lines' = [lines EXCEPT ![opened[g]] = <<draft[g]>>]
  /\ acknowledged' = [acknowledged EXCEPT ![opened[g]] = @ \cup {draft[g].id}]
  /\ draft' = [draft EXCEPT ![g] = NoEntry]
  /\ GoTo(g, "ready")
  /\ UNCHANGED <<month, opened, last, logged, faults, failed, causes>>

AppendLine(g) ==
  /\ pc[g] = "appending"
  /\ files' = files \cup {opened[g]}
  /\ lines' = [lines EXCEPT ![opened[g]] = Joined(@, draft[g])]
  /\ acknowledged' = [acknowledged EXCEPT ![opened[g]] = @ \cup {draft[g].id}]
  /\ draft' = [draft EXCEPT ![g] = NoEntry]
  /\ GoTo(g, "ready")
  /\ UNCHANGED <<month, opened, last, logged, faults, failed, causes>>

(* The write fails: nothing is written (the file may have been created),   *)
(* or a part of the line.  Only a warning is logged. *)
AppendFails(g) ==
  /\ pc[g] = "appending"
  /\ faults < MaxFaults
  /\ faults' = faults + 1
  /\ \/ /\ files' \in {files, files \cup {opened[g]}}
        /\ failed' = [failed EXCEPT ![opened[g]] = @ + 1]
        /\ Cause(opened[g], {"failed"})
        /\ UNCHANGED lines
     \/ /\ files' = files \cup {opened[g]}
        /\ lines' = [lines EXCEPT ![opened[g]] = Joined(@, Fragment)]
        /\ Cause(opened[g], {"torn"})
        /\ UNCHANGED failed
  /\ draft' = [draft EXCEPT ![g] = NoEntry]
  /\ GoTo(g, "ready")
  /\ UNCHANGED <<month, opened, last, logged, acknowledged>>

-----------------------------------------------------------------------------
(* The environment. *)

(* The process ends or dies; a line not yet appended is lost. *)
Exit(g) ==
  /\ pc[g] # "off"
  /\ GoTo(g, "off")
  /\ opened' = [opened EXCEPT ![g] = 0]
  /\ last' = [last EXCEPT ![g] = Genesis]
  /\ draft' = [draft EXCEPT ![g] = NoEntry]
  /\ UNCHANGED <<month, files, lines, logged, faults, acknowledged, failed, causes>>

MonthPasses ==
  /\ month < MaxMonth
  /\ month' = month + 1
  /\ UNCHANGED <<files, lines, pc, opened, last, draft, logged, faults,
                 acknowledged, failed, causes>>

(* Somebody changes a line of a file, or takes it out. *)
Edit(m) ==
  /\ faults < MaxFaults
  /\ faults' = faults + 1
  /\ \E k \in 1..Len(lines[m]) :
       /\ lines[m][k] \in Entries
       /\ lines' \in {[lines EXCEPT ![m][k].genuine = FALSE],
                      [lines EXCEPT ![m] = SubSeq(@, 1, k - 1) \o SubSeq(@, k + 1, Len(@))]}
  /\ Cause(m, {"edited"})
  /\ UNCHANGED <<month, files, pc, opened, last, draft, logged, acknowledged, failed>>

Logging(g) == Open(g) \/ Log(g) \/ AppendLine(g) \/ AppendFails(g)

Next ==
  \/ MonthPasses
  \/ \E g \in Loggers : Logging(g) \/ Exit(g)
  \/ \E m \in Months : Edit(m)

Spec == Init /\ [][Next]_vars

-----------------------------------------------------------------------------
(* Properties.                                                             *)

(* The places where a file does not continue itself. *)
Breaks(m) ==
  {k \in 2..Len(lines[m]) :
     ~(/\ lines[m][k] \in Entries
       /\ lines[m][k - 1] \in Entries
       /\ lines[m][k].prev = lines[m][k - 1].id)}

(* "creating a tamper-evident chain" (audit_logger.py:5-6): nothing is     *)
(* reported in a file that one logger after the other has appended to,     *)
(* through any restarts and crashes, without a failed write or an edit;    *)
(* with one exception, the first line of a month that was linked to the    *)
(* month before, since verify_chain starts from GENESIS in every file      *)
(* (audit_logger.py:61-77, 140-145, 178-192).                              *)
UndisturbedVerifies ==
  \A m \in Months :
    /\ causes[m] = {} => VerifyChain(m) = "valid"
    /\ causes[m] = {"linked"} => VerifyChain(m) # "raises" /\ Reported(m) \subseteq {1}

(* A write that fails breaks the chain in one place at most, however many  *)
(* events follow, and a restart mends it: the next logger continues from   *)
(* what is in the file (audit_logger.py:79-94, 140-148).                   *)
OneBreakPerFailure ==
  \A m \in Months :
    causes[m] \subseteq {"linked", "failed"} => Cardinality(Breaks(m)) <= failed[m]

(* An event whose write was not reported to fail is shown by get_recent    *)
(* for as long as no write was cut short and no file edited, whichever     *)
(* loggers share the file (audit_logger.py:144-148, 150-163).              *)
AcknowledgedIsShown ==
  \A m \in Months :
    causes[m] \cap {"torn", "edited"} = {} =>
      \A n \in acknowledged[m] : \E e \in Recent(m) : e.id = n

(* A month that starts from an HMAC can be followed back: it is that of a  *)
(* line of the month before, although that month's logger may have gone on *)
(* writing there, and other loggers have opened the month                  *)
(* (audit_logger.py:61-77, 96-119).                                        *)
LinkLeadsBack ==
  \A m \in Months \ {1} :
    /\ causes[m] \cap {"failed", "torn", "edited"} = {}
    /\ "edited" \notin causes[m - 1]
    /\ lines[m] # <<>> /\ lines[m][1].prev # Genesis
    => \E e \in {lines[m - 1][k] : k \in 1..Len(lines[m - 1])} :
         e \in Entries /\ e.id = lines[m][1].prev

(* A file that does not verify never verifies again, whatever the loggers  *)
(* do: an edit stays evident.  Only another edit can hide it               *)
(* (audit_logger.py:144-146, "any modification breaks the chain", :6).     *)
BrokenStaysBroken ==
  [][\/ \E m \in Months : Edit(m)
     \/ \A m \in Months : VerifyChain(m) # "valid" => VerifyChain(m)' # "valid"]_vars
=============================================================================
