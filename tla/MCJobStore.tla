------------------------------- MODULE MCJobStore -------------------------------
(* Two sessions and two texts of one URL, each stored before or not: two rows *)
(* or hashes to wait for in opposite orders, and a page whose text changed.   *)
EXTENDS JobStore
================================================================================
