--------------------------- MODULE MCMatchLifecycle ---------------------------
(* Small instances of MatchLifecycle for TLC. *)
EXTENDS MatchLifecycle, TLC

Symmetry == Permutations(Workers)

================================================================================
