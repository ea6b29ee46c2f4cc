----------------------------- MODULE MCPipeline -----------------------------
(* Instances of Pipeline for TLC; the .cfg files give the bounds.          *)
EXTENDS Pipeline
=============================================================================
