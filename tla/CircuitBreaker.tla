----------------------------- MODULE CircuitBreaker -----------------------------
(***************************************************************************)
(* What a circuit breaker promises the callers of one provider: it opens on *)
(* a run of failures, lets calls through again only when the last failure   *)
(* is old, and then closes on one success or opens on one failure.  Calls   *)
(* that were let through before it opened may still end while it is open,   *)
(* and only for a bounded time.                                            *)
(***************************************************************************)
EXTENDS Naturals

CONSTANTS Threshold,     \* failures without a success that open it
          ResetTimeout,  \* age of the last failure past which it lets calls through
          Straggle       \* how long calls let through before it opened may last

VARIABLES failures,      \* since the last success, counted up to Threshold
          state,
          sinceFailure   \* age of the last failure, up to ResetTimeout + 1

breaker == <<failures, state, sinceFailure>>

Init == failures = 0 /\ state = "closed" /\ sinceFailure = ResetTimeout + 1

\* A call ends: the breaker is not open, or the call is of the outage.
CallEnds == state # "open" \/ sinceFailure <= Straggle

Success ==
  /\ CallEnds
  /\ failures' = 0 /\ state' = "closed"
  /\ UNCHANGED sinceFailure

Failure ==
  /\ CallEnds
  /\ failures' = IF failures < Threshold THEN failures + 1 ELSE failures
  /\ state' = IF state = "closed" /\ failures + 1 < Threshold THEN "closed" ELSE "open"
  /\ sinceFailure' = 0

LetThrough ==
  /\ state = "open" /\ sinceFailure > ResetTimeout
  /\ state' = "half_open"
  /\ UNCHANGED <<failures, sinceFailure>>

Age ==
  /\ sinceFailure <= ResetTimeout
  /\ sinceFailure' = sinceFailure + 1
  /\ UNCHANGED <<failures, state>>

Next == Success \/ Failure \/ LetThrough \/ Age

Spec == Init /\ [][Next]_breaker

================================================================================
