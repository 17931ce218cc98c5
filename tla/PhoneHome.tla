----------------------------- MODULE PhoneHome -----------------------------
(***************************************************************************)
(* licensing/phone_home.py: the beacon.  verify_or_fail() makes a number   *)
(* of attempts, with pauses between them, and each is a step; an attempt   *)
(* fails when the request is lost, and also when only the answer is: the   *)
(* server then knows of a start that does not take place.  send() leaves   *)
(* the request to a thread of its own and never tells how it went.  The    *)
(* server is outside of the repository: it keeps what it receives.         *)
(***************************************************************************)
EXTENDS Integers

CONSTANTS
  Nodes,     \* processes
  Retries    \* retries of verify_or_fail

ASSUME RetriesAssumption == Retries \in Nat \ {0}

VARIABLES
  network,   \* environment: the server can be reached
  known,     \* environment: identities the server has received
  attempts   \* attempts of send_sync so far

phVars == <<network, known, attempts>>

PhInit ==
  /\ network = TRUE
  /\ known = {}
  /\ attempts = [n \in Nodes |-> 0]

NetworkChanges ==
  /\ network' = ~network
  /\ UNCHANGED <<known, attempts>>

(* Mutant: the beacon is sent without the identity. *)
AttemptAnonymously(n, id) ==
  /\ network
  /\ attempts' = [attempts EXCEPT ![n] = 0]
  /\ UNCHANGED <<network, known>>

AttemptSucceeds(n, id) ==
  /\ network
  /\ known' = known \cup {id}
  /\ attempts' = [attempts EXCEPT ![n] = 0]
  /\ UNCHANGED network

(* The request or its answer is lost; another attempt follows. *)
AttemptFails(n, id) ==
  /\ ~network
  /\ attempts[n] + 1 < Retries
  /\ known' \in {known, known \cup {id}}
  /\ attempts' = [attempts EXCEPT ![n] = @ + 1]
  /\ UNCHANGED network

(* PhoneHomeRequiredError. *)
LastAttemptFails(n, id) ==
  /\ ~network
  /\ attempts[n] + 1 = Retries
  /\ known' \in {known, known \cup {id}}
  /\ attempts' = [attempts EXCEPT ![n] = 0]
  /\ UNCHANGED network

(* send(): delivered or not. *)
Send(id) ==
  /\ known' \in {known} \cup (IF network THEN {known \cup {id}} ELSE {})
  /\ UNCHANGED <<network, attempts>>
=============================================================================
