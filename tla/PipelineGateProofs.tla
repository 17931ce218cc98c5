------------------------- MODULE PipelineGateProofs -------------------------
(***************************************************************************)
(* PipelineGate for any number of requests, heartbeat threads, pipelines   *)
(* and licenses: what a request has read so far was true at some moment of *)
(* the request, so that its outcome is backed by what it has observed.     *)
(***************************************************************************)
EXTENDS PipelineGate, LicenseMiddlewareProofs

Tiers == {Standard} \cup {i.tier : i \in Infos}

(* A request that has passed a read has observed what the read asks for.   *)
ReadInv ==
  \A r \in Requests :
    /\ at[r] \in {"health", "tier", "grace", "granted"} => "valid" \in facts[r]
    /\ at[r] \in {"tier", "grace", "granted"} => "healthy" \in facts[r]
    /\ at[r] = "grace" /\ pipeline[r] \in GetAllowedPipelines(tier[r]) => "tier" \in facts[r]

(* A tier that does not cover the pipeline belonged to a license that      *)
(* forbids it, with or without grace. *)
TierInv ==
  \A r \in Requests :
    at[r] = "grace" /\ pipeline[r] \notin GetAllowedPipelines(tier[r]) => "forbids" \in facts[r]

GateInv == GateTypeOK /\ ReadInv /\ GrantIsBacked

DenialInv == TierInv /\ DenialIsBacked

-----------------------------------------------------------------------------
(* A license keeps its tier when it is killed.                             *)
LEMMA LicenseTier == ASSUME NEW l \in Licenses PROVE l.tier \in Tiers
<1>1. CASE l \in Infos
  BY <1>1 DEF Tiers
<1>2. ASSUME NEW i \in Infos, l = [i EXCEPT !.valid = FALSE] PROVE l.tier \in Tiers
  <2>1. l.tier = i.tier
    BY <1>2, InfosAssumption
  <2> QED
    BY <2>1 DEF Tiers
<1> QED
  BY <1>1, <1>2 DEF Licenses

(* What a request in progress has observed is kept, and what the next      *)
(* state shows is added. *)
LEMMA Observed ==
  ASSUME Observe, NEW r \in Requests, at'[r] # "idle"
  PROVE  /\ at[r] \in Outcomes => facts'[r] = facts[r]
         /\ at[r] \notin Outcomes => facts'[r] = facts[r] \cup FactsNext(pipeline'[r])
  BY DEF Observe

(* The facts, one by one.                                                  *)
LEMMA Facts ==
  ASSUME NEW p
  PROVE  /\ "valid" \in FactsNext(p) <=> license'.valid
         /\ "killed" \in FactsNext(p) <=> ~license'.valid
         /\ "healthy" \in FactsNext(p) <=> IsHealthy'
         /\ "unhealthy" \in FactsNext(p) <=> ~IsHealthy'
         /\ "forbids" \in FactsNext(p) <=> ~Permits(license', p)
         /\ "tier" \in FactsNext(p) <=> p \in GetAllowedPipelines(license'.tier)
         /\ "nograce" \in FactsNext(p) <=> ~license'.in_grace_period
  BY DEF FactsNext

(* Every tier of the default mapping covers the standard pipelines.        *)
LEMMA StandardIsLeast ==
  ASSUME NEW t \in AllTiers
  PROVE  GetAllowedPipelines(Standard) \subseteq GetAllowedPipelines(t)
  BY DEF AllTiers, GetAllowedPipelines, DefaultTierPipelines, Standard

-----------------------------------------------------------------------------
(* Nothing is in progress at first. *)
LEMMA RequestsInit == GateInit => GateInv /\ DenialInv
<1> SUFFICES ASSUME GateInit PROVE GateInv /\ DenialInv
  OBVIOUS
<1>1. TypeOK
  BY MwInvInit DEF GateInit, MwInv, HbInv, TypeOK
<1>2. \A r \in Requests : at[r] = "idle"
  BY DEF GateInit
<1>3. GateTypeOK
  BY <1>1 DEF GateInit, GateTypeOK
<1> QED
  BY <1>2, <1>3 DEF GateInv, DenialInv, ReadInv, TierInv, GrantIsBacked, DenialIsBacked

(* A step of a request reads the middleware and leaves it alone, and every *)
(* other request is where it was. *)
LEMMA RequestMoves ==
  ASSUME GateTypeOK, NEW q \in Requests,
         Request(q) \/ Finish(q) \/ \E p \in Pipelines : Arrive(q, p)
  PROVE  /\ UNCHANGED vars
         /\ \A r \in Requests \ {q} : /\ at'[r] = at[r] /\ pipeline'[r] = pipeline[r]
                                      /\ tier'[r] = tier[r]
  BY DEF Request, Finish, Arrive, ReadValid, ReadHealth, ReadTier, ReadGrace, GoTo, GateTypeOK

(* The types, for every step.                                              *)
LEMMA GateTypeStep == GateTypeOK /\ [GateNext]_allVars => GateTypeOK'
<1> SUFFICES ASSUME GateTypeOK, [GateNext]_allVars PROVE GateTypeOK'
  OBVIOUS
<1>1. TypeOK'
  <2>1. [MwNext]_vars
    BY DEF GateNext, allVars, Request, Finish, Arrive, ReadValid, ReadHealth, ReadTier, ReadGrace
  <2> QED
    BY <2>1, MwTypeStep, HbTypeStep, MwStepIsHbStep DEF GateTypeOK, TypeOK
<1>2. ASSUME NEW q \in Requests, Request(q) \/ Finish(q) \/ \E p \in Pipelines : Arrive(q, p)
      PROVE  /\ at' \in [Requests -> {"idle"} \cup Reads \cup Outcomes]
             /\ pipeline' \in [Requests -> Pipelines]
             /\ tier' \in [Requests -> Tiers]
  <2>1. license.tier \in Tiers /\ Standard \in Tiers
    BY LicenseTier DEF GateTypeOK, TypeOK, MwTypeOK, Tiers
  <2>2. at' \in [Requests -> {"idle"} \cup Reads \cup Outcomes] /\ pipeline' \in [Requests -> Pipelines]
    BY <1>2 DEF Request, Finish, Arrive, ReadValid, ReadHealth, ReadTier, ReadGrace, GoTo,
                GateTypeOK, Reads, Outcomes
  <2>3. tier' = tier \/ tier' = [tier EXCEPT ![q] = license.tier] \/ tier' = [tier EXCEPT ![q] = Standard]
    BY <1>2 DEF Request, Finish, Arrive, ReadValid, ReadHealth, ReadTier, ReadGrace
  <2>4. tier' \in [Requests -> Tiers]
    BY <2>1, <2>3 DEF GateTypeOK, Tiers
  <2> QED
    BY <2>2, <2>4
<1>3. CASE UNCHANGED <<at, pipeline, tier>>
  BY <1>1, <1>3 DEF GateTypeOK
<1> QED
  BY <1>1, <1>2, <1>3 DEF GateNext, allVars, gateVars, GateTypeOK, Tiers

-----------------------------------------------------------------------------
(* A request in progress that does not move forgets nothing.               *)
LEMMA Bystander ==
  ASSUME Observe, NEW r \in Requests, at'[r] = at[r]
  PROVE  at[r] # "idle" => facts[r] \subseteq facts'[r]
  BY Observed

(* A read that a request has passed was backed, and stays so.              *)
LEMMA GateStep == GateInv /\ [GateNext]_allVars => GateInv'
<1> SUFFICES ASSUME GateInv, [GateNext]_allVars PROVE GateInv'
  OBVIOUS
<1> USE DEF GateInv
<1>1. GateTypeOK'
  BY GateTypeStep
<1>2. CASE UNCHANGED allVars
  <2>1. UNCHANGED <<at, pipeline, tier, facts>>
    BY <1>2 DEF allVars, gateVars
  <2> QED
    BY <1>1, <2>1 DEF ReadInv, GrantIsBacked
<1>3. CASE GateNext
  <2>0. Observe
    BY <1>3 DEF GateNext
  <2> DEFINE Backed(r) ==
    /\ at[r] \in {"health", "tier", "grace", "granted"} => "valid" \in facts[r]
    /\ at[r] \in {"tier", "grace", "granted"} => "healthy" \in facts[r]
    /\ at[r] = "grace" /\ pipeline[r] \in GetAllowedPipelines(tier[r]) => "tier" \in facts[r]
    /\ at[r] = "granted" => \/ pipeline[r] \in GetAllowedPipelines(Standard)
                            \/ {"tier", "nograce"} \subseteq facts[r]
  <2>1. \A r \in Requests : Backed(r)
    BY DEF ReadInv, GrantIsBacked
  <2> SUFFICES ASSUME NEW r \in Requests PROVE Backed(r)'
    BY <1>1 DEF ReadInv, GrantIsBacked
  <2> HIDE DEF Backed
  <2>2. CASE at'[r] = at[r] /\ pipeline'[r] = pipeline[r] /\ tier'[r] = tier[r]
    <3>1. at[r] # "idle" => facts[r] \subseteq facts'[r]
      BY <2>0, <2>2, Bystander
    <3> QED
      BY <2>1, <2>2, <3>1 DEF Backed
  <2>3. CASE Request(r)
    <3>0. UNCHANGED <<license, failureCount>> /\ IsHealthy' = IsHealthy
      BY <2>3, RequestMoves DEF vars, hbVars, mwVars, IsHealthy
    <3>1. /\ at[r] \in Reads /\ at'[r] \in {"health", "tier", "grace", "granted", "denied"}
          /\ pipeline'[r] = pipeline[r]
      BY <2>3 DEF Request, ReadValid, ReadHealth, ReadTier, ReadGrace, GoTo, GateTypeOK, Reads
    <3>2. facts'[r] = facts[r] \cup FactsNext(pipeline[r])
      BY <2>0, <3>1, Observed DEF Reads, Outcomes
    <3>3. CASE ReadValid(r)
      <4>1. (at'[r] = "health" /\ license.valid) \/ at'[r] = "denied"
        BY <3>3 DEF ReadValid, GoTo, GateTypeOK
      <4> QED
        BY <4>1, <3>0, <3>2, Facts DEF Backed
    <3>4. CASE ReadHealth(r)
      <4>1. at[r] = "health" /\ ((at'[r] = "tier" /\ IsHealthy) \/ at'[r] = "denied")
        BY <3>4 DEF ReadHealth, GoTo, GateTypeOK
      <4> QED
        BY <4>1, <2>1, <3>0, <3>2, Facts DEF Backed
    <3>5. CASE ReadTier(r)
      <4>1. at[r] = "tier" /\ at'[r] = "grace" /\ tier'[r] = license.tier
        BY <3>5 DEF ReadTier, GoTo, GateTypeOK
      <4> QED
        BY <4>1, <2>1, <3>0, <3>1, <3>2, Facts DEF Backed
    <3>6. CASE ReadGrace(r)
      <4>1. /\ at[r] = "grace"
            /\ tier'[r] = IF license.in_grace_period THEN Standard ELSE tier[r]
            /\ at'[r] = IF pipeline[r] \in GetAllowedPipelines(tier'[r]) THEN "granted" ELSE "denied"
        BY <3>6 DEF ReadGrace, GoTo, GateTypeOK
      <4>2. CASE license.in_grace_period
        BY <4>1, <4>2, <2>1, <3>1, <3>2 DEF Backed
      <4>3. CASE ~license.in_grace_period
        BY <4>1, <4>3, <2>1, <3>0, <3>1, <3>2, Facts DEF Backed
      <4> QED
        BY <4>2, <4>3
    <3> QED
      BY <2>3, <3>3, <3>4, <3>5, <3>6 DEF Request
  <2>4. CASE Finish(r) \/ \E p \in Pipelines : Arrive(r, p)
    <3>1. at'[r] \in {"idle", "valid"}
      BY <2>4 DEF Finish, Arrive, GoTo, GateTypeOK
    <3> QED
      BY <3>1 DEF Backed
  <2>5. ASSUME NEW q \in Requests, q # r,
               Request(q) \/ Finish(q) \/ \E p \in Pipelines : Arrive(q, p)
        PROVE  at'[r] = at[r] /\ pipeline'[r] = pipeline[r] /\ tier'[r] = tier[r]
    BY <2>5, RequestMoves
  <2> QED
    BY <1>3, <2>2, <2>3, <2>4, <2>5 DEF GateNext
<1> QED
  BY <1>2, <1>3

(* A request is denied for what was true, where every license has a tier   *)
(* of the mapping. *)
LEMMA DenialStep ==
  ASSUME \A i \in Infos : i.tier \in AllTiers,
         GateTypeOK, DenialInv, [GateNext]_allVars
  PROVE  DenialInv'
<1> DEFINE Refused(r) ==
  /\ at[r] = "grace" /\ pipeline[r] \notin GetAllowedPipelines(tier[r]) => "forbids" \in facts[r]
  /\ at[r] = "denied" => facts[r] \cap {"killed", "unhealthy", "forbids"} # {}
<1>1. \A r \in Requests : Refused(r)
  BY DEF DenialInv, TierInv, DenialIsBacked
<1> SUFFICES ASSUME NEW r \in Requests PROVE Refused(r)'
  BY DEF DenialInv, TierInv, DenialIsBacked
<1> HIDE DEF Refused
<1>2. CASE UNCHANGED allVars
  <2>1. UNCHANGED <<at, pipeline, tier, facts>>
    BY <1>2 DEF allVars, gateVars
  <2> QED
    BY <1>1, <2>1 DEF Refused
<1>3. CASE GateNext
  <2>0. Observe
    BY <1>3 DEF GateNext
  <2>2. CASE at'[r] = at[r] /\ pipeline'[r] = pipeline[r] /\ tier'[r] = tier[r]
    <3>1. at[r] # "idle" => facts[r] \subseteq facts'[r]
      BY <2>0, <2>2, Bystander
    <3> QED
      BY <1>1, <2>2, <3>1 DEF Refused
  <2>3. CASE Request(r)
    <3>0. UNCHANGED <<license, failureCount>> /\ IsHealthy' = IsHealthy
      BY <2>3, RequestMoves DEF vars, hbVars, mwVars, IsHealthy
    <3>1. /\ at[r] \in Reads /\ at'[r] \in {"health", "tier", "grace", "granted", "denied"}
          /\ pipeline'[r] = pipeline[r]
      BY <2>3 DEF Request, ReadValid, ReadHealth, ReadTier, ReadGrace, GoTo, GateTypeOK, Reads
    <3>2. facts'[r] = facts[r] \cup FactsNext(pipeline[r])
      BY <2>0, <3>1, Observed DEF Reads, Outcomes
    <3>3. CASE ReadValid(r)
      <4>1. at'[r] = "health" \/ (at'[r] = "denied" /\ ~license.valid)
        BY <3>3 DEF ReadValid, GoTo, GateTypeOK
      <4> QED
        BY <4>1, <3>0, <3>2, Facts DEF Refused
    <3>4. CASE ReadHealth(r)
      <4>1. at'[r] = "tier" \/ (at'[r] = "denied" /\ ~IsHealthy)
        BY <3>4 DEF ReadHealth, GoTo, GateTypeOK
      <4> QED
        BY <4>1, <3>0, <3>2, Facts DEF Refused
    <3>5. CASE ReadTier(r)
      <4>1. at'[r] = "grace" /\ tier'[r] = license.tier
        BY <3>5 DEF ReadTier, GoTo, GateTypeOK
      <4>2. license.tier \in AllTiers
        <5>1. license \in Licenses
          BY DEF GateTypeOK, TypeOK, MwTypeOK
        <5>2. Standard \in AllTiers
          BY DEF Standard, AllTiers, DefaultTierPipelines
        <5> QED
          BY <5>1, <5>2, LicenseTier DEF Tiers
      <4>3. pipeline[r] \notin GetAllowedPipelines(license.tier) => ~Permits(license, pipeline[r])
        BY <4>2, StandardIsLeast DEF Permits
      <4> QED
        BY <4>1, <4>3, <3>0, <3>1, <3>2, Facts DEF Refused
    <3>6. CASE ReadGrace(r)
      <4>1. /\ at[r] = "grace"
            /\ tier'[r] = IF license.in_grace_period THEN Standard ELSE tier[r]
            /\ at'[r] = IF pipeline[r] \in GetAllowedPipelines(tier'[r]) THEN "granted" ELSE "denied"
        BY <3>6 DEF ReadGrace, GoTo, GateTypeOK
      <4>2. CASE license.in_grace_period
        <5>1. at'[r] = "denied" => ~Permits(license, pipeline[r])
          BY <4>1, <4>2 DEF Permits
        <5> QED
          BY <4>1, <5>1, <3>0, <3>2, Facts DEF Refused
      <4>3. CASE ~license.in_grace_period
        BY <4>1, <4>3, <1>1, <3>2 DEF Refused
      <4> QED
        BY <4>2, <4>3
    <3> QED
      BY <2>3, <3>3, <3>4, <3>5, <3>6 DEF Request
  <2>4. CASE Finish(r) \/ \E p \in Pipelines : Arrive(r, p)
    <3>1. at'[r] \in {"idle", "valid"}
      BY <2>4 DEF Finish, Arrive, GoTo, GateTypeOK
    <3> QED
      BY <3>1 DEF Refused
  <2>5. ASSUME NEW q \in Requests, q # r,
               Request(q) \/ Finish(q) \/ \E p \in Pipelines : Arrive(q, p)
        PROVE  at'[r] = at[r] /\ pipeline'[r] = pipeline[r] /\ tier'[r] = tier[r]
    BY <2>5, RequestMoves
  <2> QED
    BY <1>3, <2>2, <2>3, <2>4, <2>5 DEF GateNext
<1> QED
  BY <1>2, <1>3

-----------------------------------------------------------------------------
(* The requests, the license they read and the heartbeat keep their types. *)
THEOREM GateTypeCorrect == GateSpec => []GateTypeOK
<1>1. GateInit => GateTypeOK
  BY RequestsInit DEF GateInv
<1> QED
  BY <1>1, GateTypeStep, PTL DEF GateSpec

(* What is granted is backed by a license, a healthy heartbeat and a tier  *)
(* that were in force during the request. *)
THEOREM GrantsAreBacked == GateSpec => []GrantIsBacked
<1>1. GateInit => GateInv
  BY RequestsInit
<1>2. GateInv => GrantIsBacked
  BY DEF GateInv
<1> QED
  BY <1>1, <1>2, GateStep, PTL DEF GateSpec

(* What is denied was unlicensed, unhealthy or forbidden during the        *)
(* request, if every license has a tier of the mapping. *)
THEOREM DenialsAreBacked ==
  (\A i \in Infos : i.tier \in AllTiers) => (GateSpec => []DenialIsBacked)
<1> SUFFICES ASSUME \A i \in Infos : i.tier \in AllTiers PROVE GateSpec => []DenialIsBacked
  OBVIOUS
<1>1. GateInit => GateTypeOK /\ DenialInv
  BY RequestsInit DEF GateInv
<1>2. GateTypeOK /\ DenialInv /\ [GateNext]_allVars => (GateTypeOK /\ DenialInv)'
  BY GateTypeStep, DenialStep
<1>3. DenialInv => DenialIsBacked
  BY DEF DenialInv
<1> QED
  BY <1>1, <1>2, <1>3, PTL DEF GateSpec
=============================================================================
