----------------------------- MODULE MCPipeline -----------------------------
(* Model-checking instances of Pipeline.                                    *)
EXTENDS Pipeline
=============================================================================
