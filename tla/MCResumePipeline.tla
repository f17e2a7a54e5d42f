--------------------------- MODULE MCResumePipeline ---------------------------
(* A small group of ResumePipeline workers for TLC. *)
EXTENDS ResumePipeline

================================================================================
