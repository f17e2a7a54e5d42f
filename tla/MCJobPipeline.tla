----------------------------- MODULE MCJobPipeline -----------------------------
(* A small group of JobPipeline workers for TLC. *)
EXTENDS JobPipeline

================================================================================
