----------------------------- MODULE ConsumerGroup -----------------------------
(***************************************************************************)
(* One Kafka partition and the consumer group reading it, as aiokafka       *)
(* presents them to the workers (shared/utils/kafka.py: earliest, no        *)
(* auto-commit).  This is the environment of the pipelines, modelled from   *)
(* how they use it; each pipeline EXTENDS it and joins its own actions.     *)
(*                                                                         *)
(* The coordinator's view (owner) and a worker's view (assigned) differ: a  *)
(* worker whose heartbeats stopped is deposed without being told, goes on   *)
(* with the message it holds and has its commits refused.                   *)
(***************************************************************************)
EXTENDS Naturals

CONSTANTS Workers,      \* processes of the group
          MaxMessages,  \* bound on the messages ever appended
          Undecodable,  \* messages value_deserializer raises on
          NotObjects    \* messages that are JSON but not an object

ASSUME GroupAssumption == MaxMessages \in Nat

VARIABLES
  end,        \* messages 1..end have been appended
  committed,  \* messages 1..committed are acknowledged for the group
  owner,      \* the member the coordinator has assigned the partition to
  assigned,   \* which workers believe they hold it
  pos         \* each worker's consumed position since it was assigned

groupVars == <<end, committed, owner, assigned, pos>>

GroupTypeOK ==
  /\ end \in 0..MaxMessages
  /\ committed \in 0..end
  /\ owner \in Workers
  /\ assigned \in [Workers -> BOOLEAN]
  /\ pos \in [Workers -> 0..end]

GroupInit ==
  /\ end = 0
  /\ committed = 0
  /\ owner \in Workers
  /\ assigned = [w \in Workers |-> FALSE]
  /\ pos = [w \in Workers |-> 0]

AppendMessage ==
  /\ end < MaxMessages
  /\ end' = end + 1
  /\ UNCHANGED <<committed, owner, assigned, pos>>

\* A rebalance ends with w holding the partition, at the committed offset.
Assign(w) ==
  /\ owner' = w
  /\ assigned' = [assigned EXCEPT ![w] = TRUE]
  /\ pos' = [pos EXCEPT ![w] = committed]
  /\ UNCHANGED <<end, committed>>

\* A deposed worker's coordinator task learns that the partition is gone.
Revoked(w) ==
  /\ assigned[w]
  /\ owner # w
  /\ assigned' = [assigned EXCEPT ![w] = FALSE]
  /\ UNCHANGED <<end, committed, owner, pos>>

\* The iterator has a message for w: number pos[w] + 1.
HasNext(w) == assigned[w] /\ pos[w] < end

\* The iterator yields it.
Deliver(w) ==
  /\ HasNext(w)
  /\ pos[w] + 1 \notin Undecodable
  /\ pos' = [pos EXCEPT ![w] = @ + 1]
  /\ UNCHANGED <<end, committed, owner, assigned>>

\* What commit() asks for: the consumed position of the partition, if held
PositionToCommit(w) == IF assigned[w] /\ owner = w THEN pos[w] ELSE committed

\* commit() returns; without an assignment it had nothing to send.
CommitReturns(w) ==
  /\ assigned[w] => owner = w
  /\ committed' = PositionToCommit(w)
  /\ UNCHANGED <<end, owner, assigned, pos>>

\* commit() raises: refused, or its answer lost after it took effect.
CommitRaises(w) ==
  /\ committed' \in {committed, PositionToCommit(w)}
  /\ UNCHANGED <<end, owner, assigned, pos>>

\* The process ends; the coordinator finds out at the next rebalance.
Leave(w) ==
  /\ assigned' = [assigned EXCEPT ![w] = FALSE]
  /\ UNCHANGED <<end, committed, owner, pos>>

================================================================================
