---------------------------- MODULE PipelineGate ----------------------------
(***************************************************************************)
(* Requests against the license of LicenseMiddleware: each one passes      *)
(* Depends(PipelineGate()) and then check_pipeline_access(pipeline), as    *)
(* setup_license.py tells an application to do.  Requests run on other     *)
(* threads than the heartbeat, hold no lock, and read the global           *)
(* _license_info anew at every use: each read is a step of its own.        *)
(***************************************************************************)
EXTENDS LicenseMiddleware, TierManager

CONSTANTS
  Requests,    \* request handlers that may be in progress at once
  Pipelines    \* pipelines a request may ask for

VARIABLES
  at,          \* the next read of each request, or its outcome
  pipeline,    \* the pipeline each request asks for
  tier,        \* effective_tier of each request
  facts        \* history: what was true at some moment of each request

gateVars == <<at, pipeline, tier, facts>>

allVars == <<vars, gateVars>>

Reads == {"valid", "health", "tier", "grace"}

Outcomes == {"granted", "denied"}

(* What a reader of the shared state could have seen in the next state. *)
Permits(l, p) ==
  p \in GetAllowedPipelines(IF l.in_grace_period THEN Standard ELSE l.tier)

FactsNext(p) ==
  {f \in {"valid", "killed", "healthy", "unhealthy", "forbids", "tier", "nograce"} :
     CASE f = "valid"     -> license'.valid
       [] f = "killed"    -> ~license'.valid
       [] f = "healthy"   -> IsHealthy'
       [] f = "unhealthy" -> ~IsHealthy'
       [] f = "forbids"   -> ~Permits(license', p)
       [] f = "tier"      -> p \in GetAllowedPipelines(license'.tier)
       [] f = "nograce"   -> ~license'.in_grace_period}

(* Every step lets the requests in progress observe its outcome. *)
Observe ==
  facts' = [r \in Requests |->
              IF at'[r] = "idle" THEN {}
              ELSE IF at[r] \in Outcomes THEN facts[r]
              ELSE facts[r] \cup FactsNext(pipeline'[r])]

GateInit ==
  /\ Init
  /\ at = [r \in Requests |-> "idle"]
  /\ pipeline \in [Requests -> Pipelines]
  /\ tier = [r \in Requests |-> Standard]
  /\ facts = [r \in Requests |-> {}]

GateTypeOK ==
  /\ TypeOK
  /\ at \in [Requests -> {"idle"} \cup Reads \cup Outcomes]
  /\ pipeline \in [Requests -> Pipelines]
  /\ tier \in [Requests -> {Standard} \cup {i.tier : i \in Infos}]

-----------------------------------------------------------------------------
(* A request, one read of shared state at a time.                          *)

GoTo(r, place) == at' = [at EXCEPT ![r] = place]

Arrive(r, p) ==
  /\ at[r] = "idle"
  /\ pipeline' = [pipeline EXCEPT ![r] = p]
  /\ GoTo(r, "valid")
  /\ UNCHANGED <<vars, tier>>

(* Mutant: a license in its grace period does not pass the gate. *)
ReadValidRefusesGrace(r) ==
  /\ at[r] = "valid"
  /\ GoTo(r, IF license.valid /\ ~license.in_grace_period THEN "health" ELSE "denied")
  /\ UNCHANGED <<vars, pipeline, tier>>

ReadValid(r) ==
  /\ at[r] = "valid"
  /\ GoTo(r, IF license.valid THEN "health" ELSE "denied")
  /\ UNCHANGED <<vars, pipeline, tier>>

(* Mutant: the heartbeat is not asked. *)
ReadHealthSkipped(r) ==
  /\ at[r] = "health"
  /\ GoTo(r, "tier")
  /\ UNCHANGED <<vars, pipeline, tier>>

(* The gate's later reads of in_grace_period only log. *)
ReadHealth(r) ==
  /\ at[r] = "health"
  /\ GoTo(r, IF IsHealthy THEN "tier" ELSE "denied")
  /\ UNCHANGED <<vars, pipeline, tier>>

ReadTier(r) ==
  /\ at[r] = "tier"
  /\ tier' = [tier EXCEPT ![r] = license.tier]
  /\ GoTo(r, "grace")
  /\ UNCHANGED <<vars, pipeline>>

(* Mutant: the tier of the grace period is one nobody has. *)
ReadGraceUnknownTier(r) ==
  /\ at[r] = "grace"
  /\ tier' = IF license.in_grace_period THEN [tier EXCEPT ![r] = "basic"] ELSE tier
  /\ GoTo(r, IF pipeline[r] \in GetAllowedPipelines(tier'[r]) THEN "granted" ELSE "denied")
  /\ UNCHANGED <<vars, pipeline>>

ReadGrace(r) ==
  /\ at[r] = "grace"
  /\ tier' = IF license.in_grace_period THEN [tier EXCEPT ![r] = Standard] ELSE tier
  /\ GoTo(r, IF pipeline[r] \in GetAllowedPipelines(tier'[r]) THEN "granted" ELSE "denied")
  /\ UNCHANGED <<vars, pipeline>>

Finish(r) ==
  /\ at[r] \in Outcomes
  /\ GoTo(r, "idle")
  /\ tier' = [tier EXCEPT ![r] = Standard]
  /\ UNCHANGED <<vars, pipeline>>

Request(r) == ReadValid(r) \/ ReadHealth(r) \/ ReadTier(r) \/ ReadGrace(r)

GateNext ==
  /\ \/ MwNext /\ UNCHANGED <<at, pipeline, tier>>
     \/ \E r \in Requests : Request(r) \/ Finish(r) \/ \E p \in Pipelines : Arrive(r, p)
  /\ Observe

GateFairness ==
  /\ WF_allVars(Tick /\ UNCHANGED <<at, pipeline, tier>> /\ Observe)
  /\ \A t \in Threads :
       WF_allVars(HeartbeatStep(t) /\ UNCHANGED <<at, pipeline, tier>> /\ Observe)
  /\ \A r \in Requests : WF_allVars(Request(r) /\ Observe)

GateSpec == GateInit /\ [][GateNext]_allVars /\ GateFairness

-----------------------------------------------------------------------------
(* Properties.                                                             *)

(* A pipeline is granted only if, during the request, the license was      *)
(* valid at some moment, the heartbeat healthy at some moment, and either  *)
(* the tier of some license in force covers the pipeline or the pipeline   *)
(* is a standard one; and if every license in force during the request was *)
(* in its grace period, the pipeline is a standard one.  When a renewal    *)
(* lands between the two reads, the tier may be that of one license and    *)
(* the grace flag that of another (license_middleware.py:469, 476,         *)
(* 502-509).                                                               *)
GrantIsBacked ==
  \A r \in Requests : at[r] = "granted" =>
    /\ {"valid", "healthy"} \subseteq facts[r]
    /\ pipeline[r] \in GetAllowedPipelines(Standard) \/ {"tier", "nograce"} \subseteq facts[r]

(* A request is denied only for something that was true during it: the     *)
(* license was killed, the heartbeat unhealthy, or a license in force did  *)
(* not cover the pipeline.  In particular a renewal that lands between the *)
(* reads of the tier and of the grace flag never denies what both licenses *)
(* allow; this rests on every tier covering the standard pipelines         *)
(* (license_middleware.py:498-517, tier_manager.py:15-28).                 *)
DenialIsBacked ==
  \A r \in Requests : at[r] = "denied" =>
    facts[r] \cap {"killed", "unhealthy", "forbids"} # {}

(* Once validation fails for good there comes a moment from which on no    *)
(* request is granted a pipeline (heartbeat.py:111, 124-130,               *)
(* license_middleware.py:403, 469, 476).  It is not the moment of the      *)
(* kill: check_pipeline_access reads neither the valid flag nor the health *)
(* again, and a request that was past the gate by then is still served     *)
(* (license_middleware.py:498-517).                                        *)
FailureShutsPipelines ==
  <>[](verdict = Invalid /\ running) =>
    <>[][\A r \in Requests : at[r] # "granted" => at'[r] # "granted"]_at
=============================================================================
