------------------------------ MODULE AtLeastOnce ------------------------------
(***************************************************************************)
(* What a consumer group promises the producers of a topic: a message may   *)
(* be dealt with more than once and ahead of earlier ones, but messages are *)
(* acknowledged in order, a bounded number at a time, each only after it    *)
(* was dealt with.                                                         *)
(***************************************************************************)
EXTENDS Naturals

CONSTANT AckLimit  \* messages one commit may acknowledge

VARIABLES produced,  \* messages 1..produced exist
          acked,     \* messages 1..acked will not be delivered again
          settled    \* messages dealt with at least once

Init == produced = 0 /\ acked = 0 /\ settled = {}

Produce ==
  /\ produced' = produced + 1
  /\ UNCHANGED <<acked, settled>>

Settle ==
  /\ \E M \in SUBSET (1..produced) : settled' = settled \cup M
  /\ UNCHANGED <<produced, acked>>

Ack ==
  /\ \E n \in 1..AckLimit : /\ (acked + 1)..(acked + n) \subseteq settled
                           /\ acked' = acked + n
  /\ UNCHANGED <<produced, settled>>

Next == Produce \/ Settle \/ Ack

Spec == Init /\ [][Next]_<<produced, acked, settled>>

================================================================================
