------------------------- MODULE ResumePipelineProofs -------------------------
(***************************************************************************)
(* No message of resume.parse is lost, for every number of workers and      *)
(* messages and any interleaving of rebalances, crashes and failed calls;   *)
(* hence the pipeline implements AtLeastOnce.                               *)
(*                                                                         *)
(* NoLoss is not inductive: a commit moves the offset to the worker's       *)
(* position, so the proof needs to know that the position is at most one    *)
(* message ahead (OneInHand) and that this message is settled before the    *)
(* worker asks for a commit (SettledBeforeCommit).                          *)
(***************************************************************************)
EXTENDS ResumePipeline, TLAPS

IInv == TypeOK /\ OneInHand /\ SettledBeforeCommit /\ NoLoss

\* A worker that reaches a commit moves the committed offset by at most the
\* message in its hands.
LEMMA CommitTarget ==
  ASSUME IInv, NEW w \in Workers, pc[w] \in {"commit", "dlq_commit"}
  PROVE  /\ PositionToCommit(w) \in {committed, committed + 1}
         /\ PositionToCommit(w) \in 0..end
         /\ \A i \in 1..PositionToCommit(w) : i \in parsed \cup failed
<1>1. CASE assigned[w] /\ owner = w
  <2>1. PositionToCommit(w) = pos[w] /\ pos[w] \in 0..end /\ end \in Nat /\ committed \in Nat
    BY <1>1 DEF PositionToCommit, IInv, TypeOK, GroupTypeOK
  <2>2. pos[w] = committed \/ (pos[w] = committed + 1 /\ pos[w] = cur[w])
    BY <1>1 DEF IInv, OneInHand
  <2>3. cur[w] \in parsed \cup failed
    BY DEF IInv, SettledBeforeCommit
  <2>4. \A i \in 1..committed : i \in parsed \cup failed
    BY DEF IInv, NoLoss
  <2> QED
    BY <2>1, <2>2, <2>3, <2>4
<1>2. CASE ~(assigned[w] /\ owner = w)
  BY <1>2 DEF PositionToCommit, IInv, TypeOK, GroupTypeOK, NoLoss
<1> QED
  BY <1>1, <1>2

LEMMA TypeStep ==
  ASSUME IInv, [Next]_vars
  PROVE  TypeOK'
<1> USE DEF Awaits, TypeOK, GroupTypeOK, GoTo
<1>1. TypeOK
  BY DEF IInv
<1>2. CASE Produce
  BY <1>1, <1>2, GroupAssumption DEF Produce, AppendMessage, workerVars
<1>3. ASSUME NEW w \in Workers, Rebalance(w) \/ LearnRevoked(w) PROVE TypeOK'
  BY <1>1, <1>3 DEF Rebalance, LearnRevoked, Assign, Revoked, workerVars
<1>4. ASSUME NEW w \in Workers, Take(w) PROVE TypeOK'
  BY <1>1, <1>4 DEF Take, Deliver, HasNext
<1>5. ASSUME NEW w \in Workers, Parse(w) PROVE TypeOK'
  BY <1>1, <1>5 DEF Parse, groupVars
<1>6. ASSUME NEW w \in Workers, Publish(w) \/ PublishRaises(w) \/ SendToDlq(w) PROVE TypeOK'
  <2>1. cur[w] \in 1..end
    BY <1>1, <1>6 DEF Publish, PublishRaises, SendToDlq
  <2> QED
    BY <1>1, <1>6, <2>1 DEF Publish, PublishRaises, SendToDlq, groupVars
<1>7. ASSUME NEW w \in Workers, Commit(w) \/ FirstCommitRaises(w) PROVE TypeOK'
  <2>1. committed' \in 0..end
    BY <1>7, CommitTarget DEF Commit, FirstCommitRaises, CommitReturns, CommitRaises, IInv
  <2> QED
    BY <1>1, <1>7, <2>1 DEF Commit, FirstCommitRaises, CommitReturns, CommitRaises
<1>8. ASSUME NEW w \in Workers, DlqRaises(w) PROVE TypeOK'
  <2>1. cur[w] \in 1..end
    BY <1>1, <1>8 DEF DlqRaises
  <2> QED
    BY <1>1, <1>8, <2>1 DEF DlqRaises, Leave
<1>9. ASSUME NEW w \in Workers, DlqCommitRaises(w) PROVE TypeOK'
  <2>1. committed' \in 0..end
    BY <1>9, CommitTarget DEF DlqCommitRaises, IInv
  <2> QED
    BY <1>1, <1>9, <2>1 DEF DlqCommitRaises
<1>10. ASSUME NEW w \in Workers, TakeRaises(w) \/ Crash(w) \/ Restart(w) PROVE TypeOK'
  BY <1>1, <1>10 DEF TakeRaises, Crash, Restart, Leave, groupVars
<1>11. CASE UNCHANGED vars
  BY <1>1, <1>11 DEF vars, groupVars, workerVars
<1> QED
  BY <1>2, <1>3, <1>4, <1>5, <1>6, <1>7, <1>8, <1>9, <1>10, <1>11 DEF Next, Work, Fault

\* The actions that ask for a commit, in the one form the proof needs.
LEMMA CommitEffect ==
  ASSUME IInv, NEW w \in Workers, Commit(w) \/ FirstCommitRaises(w) \/ DlqCommitRaises(w)
  PROVE  /\ pc[w] \in {"commit", "dlq_commit"}
         /\ committed' \in {committed, PositionToCommit(w)}
         /\ pc' \in {[pc EXCEPT ![w] = "next"], [pc EXCEPT ![w] = "dlq"], [pc EXCEPT ![w] = "down"]}
         /\ pc'[w] = "next" => (assigned[w] => owner = w) /\ committed' = PositionToCommit(w)
         /\ pc'[w] = "down" => ~assigned'[w]
         /\ \A v \in Workers : assigned'[v] => assigned[v]
         /\ UNCHANGED <<end, owner, pos, cur, parsed, failed>>
  BY DEF IInv, TypeOK, GroupTypeOK, Commit, FirstCommitRaises, DlqCommitRaises,
    CommitReturns,
         CommitRaises, GoTo

LEMMA OneInHandStep ==
  ASSUME IInv, [Next]_vars
  PROVE  OneInHand'
<1> USE DEF OneInHand, GoTo
<1>1. TypeOK /\ OneInHand
  BY DEF IInv
<1>2. CASE Produce
  BY <1>1, <1>2 DEF Produce, AppendMessage, workerVars
<1>3. ASSUME NEW w \in Workers, Rebalance(w) \/ LearnRevoked(w) PROVE OneInHand'
  BY <1>1, <1>3 DEF Rebalance, LearnRevoked, Assign, Revoked, workerVars, TypeOK,
    GroupTypeOK
<1>4. ASSUME NEW w \in Workers, Take(w) PROVE OneInHand'
  BY <1>1, <1>4 DEF Take, Deliver, HasNext, TypeOK, GroupTypeOK
<1>5. ASSUME NEW w \in Workers,
             Parse(w) \/ Publish(w) \/ PublishRaises(w) \/ SendToDlq(w) PROVE OneInHand'
  BY <1>1, <1>5 DEF Parse, Publish, PublishRaises, SendToDlq, groupVars, TypeOK, GroupTypeOK
<1>6. ASSUME NEW w \in Workers, Commit(w) \/ FirstCommitRaises(w) \/ DlqCommitRaises(w)
      PROVE  OneInHand'
  <2> SUFFICES ASSUME NEW v \in Workers, assigned'[v], owner' = v
               PROVE  \/ pos'[v] = committed'
                      \/ pos'[v] = committed' + 1 /\ cur'[v] = pos'[v]
                         /\ pc'[v] \notin {"next", "down"}
    OBVIOUS
  <2>1. /\ assigned[v] /\ owner = v /\ pos' = pos /\ cur' = cur
        /\ v # w => committed' = committed /\ pc'[v] = pc[v]
    BY <1>1, <1>6, CommitEffect DEF PositionToCommit, TypeOK
  <2>2. CASE v # w
    BY <1>1, <2>1, <2>2
  <2>3. CASE v = w
    <3>1. committed' = pos[w] \/ (committed' = committed /\ pc'[w] = "dlq")
      BY <1>1, <1>6, <2>1, <2>3, CommitEffect DEF PositionToCommit, TypeOK
    <3> QED
      BY <1>1, <2>1, <2>3, <3>1
  <2> QED
    BY <2>2, <2>3
<1>7. ASSUME NEW w \in Workers, TakeRaises(w) \/ DlqRaises(w) \/ Crash(w) \/ Restart(w)
      PROVE  OneInHand'
  BY <1>1, <1>7 DEF TakeRaises, DlqRaises, Crash, Restart, Leave, groupVars, TypeOK,
    GroupTypeOK
<1>8. CASE UNCHANGED vars
  BY <1>1, <1>8 DEF vars, groupVars, workerVars
<1> QED
  BY <1>2, <1>3, <1>4, <1>5, <1>6, <1>7, <1>8 DEF Next, Work, Fault

LEMMA SettledStep ==
  ASSUME IInv, [Next]_vars
  PROVE  SettledBeforeCommit' /\ NoLoss'
<1> USE DEF SettledBeforeCommit, NoLoss, GoTo
<1>1. TypeOK /\ SettledBeforeCommit /\ NoLoss
  BY DEF IInv
<1>2. ASSUME NEW w \in Workers, Commit(w) \/ FirstCommitRaises(w) \/ DlqCommitRaises(w)
      PROVE  SettledBeforeCommit' /\ NoLoss'
  <2>1. SettledBeforeCommit'
    BY <1>1, <1>2, CommitEffect DEF TypeOK
  <2>2. NoLoss'
    BY <1>1, <1>2, CommitEffect, CommitTarget
  <2> QED
    BY <2>1, <2>2
<1>3. ASSUME NEW w \in Workers, Publish(w) \/ PublishRaises(w) \/ SendToDlq(w) \/ DlqRaises(w)
      PROVE  SettledBeforeCommit' /\ NoLoss'
  BY <1>1, <1>3 DEF Publish, PublishRaises, SendToDlq, DlqRaises, Leave, groupVars, TypeOK
<1>4. ASSUME NEW w \in Workers, Take(w) \/ TakeRaises(w) \/ Parse(w) \/ Crash(w) \/ Restart(w)
      PROVE  SettledBeforeCommit' /\ NoLoss'
  BY <1>1, <1>4 DEF Take, TakeRaises, Deliver, Parse, Crash, Restart, Leave, groupVars,
    TypeOK
<1>5. ASSUME NEW w \in Workers, Rebalance(w) \/ LearnRevoked(w)
      PROVE  SettledBeforeCommit' /\ NoLoss'
  BY <1>1, <1>5 DEF Rebalance, LearnRevoked, Assign, Revoked, workerVars
<1>6. CASE Produce \/ UNCHANGED vars
  BY <1>1, <1>6 DEF Produce, AppendMessage, vars, groupVars, workerVars
<1> QED
  BY <1>2, <1>3, <1>4, <1>5, <1>6 DEF Next, Work, Fault

LEMMA InvCorrect == Spec => []IInv
<1>1. Init => IInv
  BY GroupAssumption
  DEF Init, GroupInit, IInv, TypeOK, GroupTypeOK, OneInHand, SettledBeforeCommit, NoLoss,
    Awaits
<1>2. IInv /\ [Next]_vars => IInv'
  BY TypeStep, OneInHandStep, SettledStep DEF IInv
<1> QED
  BY <1>1, <1>2, PTL DEF Spec

\* Every state of the group and of its workers has its type.
THEOREM TypeCorrect == Spec => []TypeOK
  BY InvCorrect, PTL DEF IInv

\* A committed message is in resume.parsed or in resume.parse.failed.
THEOREM NoMessageLost == Spec => []NoLoss
  BY InvCorrect, PTL DEF IInv

\* The holder of the partition is at most one message ahead of the group.
THEOREM AtMostOneInHand == Spec => []OneInHand
  BY InvCorrect, PTL DEF IInv

(***************************************************************************)
(* Unreadable messages                                                     *)
(***************************************************************************)
\* Neither the group nor a worker's position is ever past an unreadable
\* message, and no worker holds one.
ReadSoFar ==
  /\ NeverPastUnreadable
  /\ \A w \in Workers : Unreadable \cap 1..pos[w] = {}
  /\ \A w \in Workers : pc[w] \in Awaits \ {"next"} => cur[w] \notin Unreadable

LEMMA ReadStep ==
  ASSUME IInv, ReadSoFar, [Next]_vars
  PROVE  ReadSoFar'
<1> USE DEF ReadSoFar, NeverPastUnreadable, GoTo, Awaits
<1>1. TypeOK /\ GroupTypeOK /\ ReadSoFar
  BY DEF IInv, TypeOK
<1>2. ASSUME NEW w \in Workers, Take(w) PROVE ReadSoFar'
  <2>1. /\ pos' = [pos EXCEPT ![w] = pos[w] + 1] /\ cur' = [cur EXCEPT ![w] = pos[w] + 1]
        /\ pc' = [pc EXCEPT ![w] = "parse"]
        /\ pos[w] + 1 \notin Unreadable /\ UNCHANGED <<committed, parsed, failed>>
    BY <1>2 DEF Take, Deliver, Unreadable
  <2>2. pos[w] \in Nat /\ 1..(pos[w] + 1) = 1..pos[w] \cup {pos[w] + 1}
    BY <1>1 DEF GroupTypeOK
  <2>3. \A v \in Workers : Unreadable \cap 1..pos'[v] = {}
    BY <1>1, <2>1, <2>2 DEF GroupTypeOK
  <2>4. \A v \in Workers : pc'[v] \in Awaits \ {"next"} => cur'[v] \notin Unreadable
    BY <1>1, <2>1 DEF TypeOK
  <2> QED
    BY <1>1, <2>1, <2>3, <2>4
<1>3. ASSUME NEW w \in Workers, Commit(w) \/ FirstCommitRaises(w) \/ DlqCommitRaises(w)
      PROVE  ReadSoFar'
  <2>1. committed' \in {committed, pos[w]} /\ UNCHANGED <<pos, cur, parsed, failed>>
    BY <1>3, CommitEffect DEF PositionToCommit
  <2>2. \A v \in Workers : pc'[v] \in Awaits \ {"next"} => pc[v] \in Awaits \ {"next"}
    BY <1>1, <1>3, CommitEffect DEF TypeOK
  <2> QED
    BY <1>1, <2>1, <2>2
<1>4. ASSUME NEW w \in Workers,
             Parse(w) \/ Publish(w) \/ PublishRaises(w) \/ SendToDlq(w) \/ DlqRaises(w)
      PROVE  ReadSoFar'
  BY <1>1, <1>4 DEF Parse, Publish, PublishRaises, SendToDlq, DlqRaises, Leave,
    groupVars, TypeOK
<1>5. ASSUME NEW w \in Workers, TakeRaises(w) \/ Crash(w) \/ Restart(w) PROVE ReadSoFar'
  BY <1>1, <1>5 DEF TakeRaises, Crash, Restart, Leave, groupVars, TypeOK
<1>6. ASSUME NEW w \in Workers, Rebalance(w) \/ LearnRevoked(w) PROVE ReadSoFar'
  BY <1>1, <1>6 DEF Rebalance, LearnRevoked, Assign, Revoked, workerVars, GroupTypeOK
<1>7. CASE Produce \/ UNCHANGED vars
  BY <1>1, <1>7 DEF Produce, AppendMessage, vars, groupVars, workerVars
<1> QED
  BY <1>2, <1>3, <1>4, <1>5, <1>6, <1>7 DEF Next, Work, Fault

\* No unreadable message is ever committed or settled: it is not skipped, and
\* whatever follows it in the partition waits behind it for ever.
THEOREM UnreadableBlocks == Spec => []NeverPastUnreadable
<1>1. Init => ReadSoFar
  BY DEF Init, GroupInit, ReadSoFar, NeverPastUnreadable, Awaits
<1>2. IInv /\ ReadSoFar /\ [Next]_vars => ReadSoFar'
  BY ReadStep
<1>3. ReadSoFar => NeverPastUnreadable
  BY DEF ReadSoFar
<1> QED
  BY <1>1, <1>2, <1>3, InvCorrect, PTL DEF Spec

(***************************************************************************)
(* Steps                                                                   *)
(***************************************************************************)
\* Only a commit moves the offset, by at most one message, which is settled.
LEMMA OffsetStep ==
  ASSUME IInv, [Next]_vars
  PROVE  \/ committed' = committed
         \/ /\ committed' = committed + 1
            /\ committed + 1 \in parsed \cup failed
            /\ UNCHANGED <<end, parsed, failed>>
<1>1. ASSUME NEW w \in Workers, Commit(w) \/ FirstCommitRaises(w) \/ DlqCommitRaises(w)
      PROVE  \/ committed' = committed
             \/ /\ committed' = committed + 1
                /\ committed + 1 \in parsed \cup failed
                /\ UNCHANGED <<end, parsed, failed>>
  <2>1. committed \in Nat
    BY DEF IInv, TypeOK, GroupTypeOK
  <2> QED
    BY <1>1, <2>1, CommitEffect, CommitTarget
<1> QED
  BY <1>1 DEF Next, Work, Fault, Produce, AppendMessage, Rebalance, LearnRevoked, Assign,
    Revoked, Take,
    TakeRaises, Deliver, Parse, Publish, PublishRaises, SendToDlq, DlqRaises, Crash, Restart, Leave,
    vars, groupVars

\* A worker that awaits one of its commits has settled the message in its
\* hands on one of the two topics.
THEOREM SettledFirst == Spec => []SettledBeforeCommit
  BY InvCorrect, PTL DEF IInv

\* The committed offset never moves back.
THEOREM OffsetAdvances == Spec => CommitsAdvance
<1>1. IInv /\ [Next]_vars => [committed' >= committed]_vars
  BY OffsetStep DEF IInv, TypeOK, GroupTypeOK
<1> QED
  BY <1>1, InvCorrect, PTL DEF Spec, CommitsAdvance

\* The pipeline implements the at-least-once promise: parsed and failed
\* together are what the promise calls settled.
THEOREM KeepsPromise == Spec => AtLeastOnceSpec
<1>1. Init => Promise!Init
  BY DEF Init, GroupInit, Promise!Init
<1>2. IInv /\ [Next]_vars => [Promise!Next]_<<end, committed, parsed \cup failed>>
  <2> SUFFICES ASSUME IInv, [Next]_vars
               PROVE  Promise!Next \/ UNCHANGED <<end, committed, parsed \cup failed>>
    OBVIOUS
  <2>1. CASE committed' # committed
    BY <2>1, OffsetStep DEF Promise!Next, Promise!Ack
  <2>2. CASE committed' = committed
    <3>1. CASE Produce
      BY <3>1 DEF Produce, AppendMessage, workerVars, Promise!Next, Promise!Produce
    <3>2. ASSUME NEW w \in Workers,
                 Publish(w) \/ PublishRaises(w) \/ SendToDlq(w) \/ DlqRaises(w)
          PROVE  Promise!Next \/ UNCHANGED <<end, committed, parsed \cup failed>>
      <4>1. cur[w] \in 1..end
        BY <3>2 DEF IInv, TypeOK, GroupTypeOK, Awaits, Publish, PublishRaises, SendToDlq,
          DlqRaises
      <4>2. /\ end' = end /\ committed' = committed
            /\ \/ (parsed \cup failed)' = (parsed \cup failed) \cup {cur[w]}
               \/ (parsed \cup failed)' = parsed \cup failed
        BY <3>2 DEF Publish, PublishRaises, SendToDlq, DlqRaises, Leave, groupVars
      <4> QED
        BY <4>1, <4>2 DEF Promise!Next, Promise!Settle
    <3> QED
      BY <2>2, <3>1, <3>2 DEF Next, Work, Fault, Rebalance, LearnRevoked, Assign,
        Revoked, Take,
    TakeRaises, Deliver, Parse, Commit, FirstCommitRaises, DlqCommitRaises, CommitReturns, CommitRaises,
        Crash, Restart, Leave, vars, groupVars, workerVars
  <2> QED
    BY <2>1, <2>2
<1> QED
  BY <1>1, <1>2, InvCorrect, PTL DEF Spec, AtLeastOnceSpec, Promise!Spec

================================================================================
