---------------------------- MODULE MCResumeUpload ----------------------------
(* A few concurrent uploads of one user for TLC. *)
EXTENDS ResumeUpload

CONSTANTS r1, r2, r3, f1, f2

\* r2 is a retry of r1 with the same file.
MCFileOf == [r \in Requests |-> IF r = r3 THEN f2 ELSE f1]

================================================================================
