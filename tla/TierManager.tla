---------------------------- MODULE TierManager ----------------------------
(***************************************************************************)
(* licensing/tier_manager.py: the pipelines each license tier may use, with *)
(* the default mapping.  A tier the mapping does not know may use none.    *)
(***************************************************************************)

Standard     == "standard"
Professional == "professional"
Enterprise   == "enterprise"

DefaultTierPipelines ==
  [ standard     |-> {"text_analysis"},
    professional |-> {"text_analysis", "data_enrichment"},
    enterprise   |-> {"text_analysis", "data_enrichment", "full_research"} ]

AllTiers == DOMAIN DefaultTierPipelines

AllPipelines == {"text_analysis", "data_enrichment", "full_research"}

GetAllowedPipelines(tier) ==
  IF tier \in AllTiers THEN DefaultTierPipelines[tier] ELSE {}
=============================================================================
