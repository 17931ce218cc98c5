--------------------------- MODULE MCPipelineGate ---------------------------
(* A small instance of PipelineGate for TLC. *)
EXTENDS PipelineGate

CONSTANTS t1, r1, refused

MCThreads == {t1}

MCRequests == {r1}

License(t, grace) == [valid |-> TRUE, tier |-> t, in_grace_period |-> grace]

(* A license that expires into its grace, and the one it is replaced by. *)
MCInfos == {License("enterprise", FALSE), License("enterprise", TRUE),
            License("standard", FALSE)}

MCPipelines == {"text_analysis", "full_research"}
=============================================================================
