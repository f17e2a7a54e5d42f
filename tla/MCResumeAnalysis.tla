---------------------------- MODULE MCResumeAnalysis ----------------------------
(* Two workers; a key lives for three ticks and a run for up to two.           *)
EXTENDS ResumeAnalysis
================================================================================
