--------------------------- MODULE JobPipelineProofs ---------------------------
(***************************************************************************)
(* What the job pipeline can lose, for every number of workers and          *)
(* messages, every batch size and every interleaving of rebalances, crashes *)
(* and failed calls.                                                        *)
(*                                                                         *)
(* LossOnlyBySwallowing is not inductive.  A commit acknowledges every      *)
(* message up to the worker's position; BatchCoversGap says that these are  *)
(* in its batch, GapWithinSize that they are no more than its list holds,   *)
(* and BatchAccounted that the batch, when the commit is reached, has been  *)
(* announced, left out or given up.  Hence the pipeline implements          *)
(* AtLeastOnce, a batch at a time.                                          *)
(***************************************************************************)
EXTENDS JobPipeline, TLAPS

\* What has become of the messages of a batch at each await of its processing
BatchAccounted ==
  \A w \in Workers :
    /\ pc[w] = "upsert" => batch[w] \subseteq dropped \cup todo[w]
    /\ pc[w] = "publish" => /\ todo[w] \subseteq indexed
                            /\ batch[w] \subseteq announced \cup dropped \cup swallowed \cup todo[w]
    /\ pc[w] = "commit" => batch[w] \subseteq announced \cup dropped \cup swallowed

\* The partition's holder is never behind the group, and its list has an entry
\* for every message delivered to it and not yet committed.
GapWithinSize ==
  \A w \in Workers :
    assigned[w] /\ owner = w => committed <= pos[w] /\ pos[w] <= committed + size[w]

IInv ==
  /\ TypeOK /\ BatchCoversGap /\ GapWithinSize
  /\ BatchAccounted /\ LossOnlyBySwallowing /\ AnnouncedIndexed

\* A commit, whether it returns or raises, leaves a legal offset up to which
\* every message is accounted for.
LEMMA CommitTarget ==
  ASSUME IInv, NEW w \in Workers, pc[w] = "commit",
         NEW c \in {committed, PositionToCommit(w)}
  PROVE  /\ c \in 0..end
         /\ committed <= c /\ c <= committed + BatchSize
         /\ \A i \in 1..c : i \in announced \cup dropped \cup swallowed
         /\ c = committed \/ (assigned[w] /\ owner = w /\ c = pos[w])
<1>1. TypeOK /\ GroupTypeOK /\ BatchCoversGap /\ BatchAccounted /\ LossOnlyBySwallowing
  BY DEF IInv, TypeOK
<1>2. CASE c = committed
  BY <1>1, <1>2, BatchAssumption DEF GroupTypeOK, LossOnlyBySwallowing
<1>3. CASE c # committed
  <2>1. assigned[w] /\ owner = w /\ c = pos[w] /\ c \in 0..end /\ committed \in Nat /\ end \in Nat
    BY <1>1, <1>3 DEF PositionToCommit, GroupTypeOK
  <2>2. committed <= c /\ c <= committed + size[w] /\ size[w] \in 0..BatchSize
    BY <1>1, <2>1 DEF IInv, GapWithinSize, TypeOK, GroupTypeOK
  <2>3. (committed + 1)..c \subseteq announced \cup dropped \cup swallowed
    BY <1>1, <2>1 DEF BatchCoversGap, BatchAccounted
  <2>4. \A i \in 1..committed : i \in announced \cup dropped \cup swallowed
    BY <1>1 DEF LossOnlyBySwallowing
  <2>5. \A i \in 1..c : i \in 1..committed \/ i \in (committed + 1)..c
    BY <2>1
  <2> QED
    BY <2>1, <2>2, <2>3, <2>4, <2>5, BatchAssumption
<1> QED
  BY <1>2, <1>3

LEMMA TypeStep ==
  ASSUME IInv, [Next]_vars
  PROVE  TypeOK'
<1> USE DEF TypeOK, GroupTypeOK, GoTo
<1>1. TypeOK
  BY DEF IInv
<1>2. CASE Produce
  BY <1>1, <1>2, GroupAssumption DEF Produce, AppendMessage, workerVars, stores
<1>3. ASSUME NEW w \in Workers, Rebalance(w) \/ LearnRevoked(w) PROVE TypeOK'
  BY <1>1, <1>3 DEF Rebalance, LearnRevoked, Assign, Revoked, workerVars, stores
<1>4. ASSUME NEW w \in Workers, DeadlinePasses(w) \/ Restart(w) PROVE TypeOK'
  <2>1. CASE DeadlinePasses(w)
    BY <1>1, <2>1 DEF DeadlinePasses, groupVars, stores
  <2>2. CASE Restart(w)
    BY <1>1, <2>2, BatchAssumption DEF Restart, groupVars, stores
  <2> QED
    BY <1>4, <2>1, <2>2
<1>5. ASSUME NEW w \in Workers, Take(w) PROVE TypeOK'
  <2> DEFINE msgs == batch[w] \cup {pos[w] + 1}
  <2>1. msgs \subseteq 1..end /\ Deliver(w) /\ pc[w] = "next" /\ end' = end
    BY <1>1, <1>5 DEF Take, Deliver, HasNext
  <2>2. /\ batch' = [batch EXCEPT ![w] = msgs]
        /\ size' = [size EXCEPT ![w] = @ + 1]
        /\ UNCHANGED <<expired, indexed, announced>>
        /\ \/ /\ todo' = [todo EXCEPT ![w] = msgs \ Unparsable]
              /\ dropped' = dropped \cup (msgs \cap Unparsable) /\ swallowed' = swallowed
              /\ pc' \in {[pc EXCEPT ![w] = "commit"], [pc EXCEPT ![w] = "upsert"]}
           \/ /\ swallowed' = swallowed \cup msgs /\ pc' = [pc EXCEPT ![w] = "commit"]
              /\ UNCHANGED <<todo, dropped>>
           \/ size[w] + 1 < BatchSize /\ UNCHANGED <<pc, todo, dropped, swallowed>>
    BY <1>1, <1>5, BatchAssumption DEF Take, Full, StartBatch, NormalizeRaises
  <2> HIDE DEF msgs
  <2>3. GroupTypeOK' /\ assigned' = assigned
    BY <1>1, <2>1 DEF Deliver, HasNext
  <2>4. size' \in [Workers -> 0..BatchSize] /\ size'[w] = size[w] + 1
    BY <1>1, <2>1, <2>2, BatchAssumption
  <2>5. batch' \in [Workers -> SUBSET (1..end')] /\ dropped' \subseteq 1..end'
        /\ swallowed' \subseteq 1..end'
    BY <1>1, <2>1, <2>2
  <2>6. /\ todo' \in [Workers -> SUBSET (1..end')]
        /\ pc' \in [Workers -> {"next", "upsert", "publish", "commit", "down"}]
    BY <1>1, <2>1, <2>2
  <2>7. \A v \in Workers : /\ pc'[v] = "next" => size'[v] < BatchSize
                           /\ pc'[v] = "down" => ~assigned'[v] /\ size'[v] = 0
    BY <1>1, <2>1, <2>2, <2>3, <2>4
  <2> QED
    BY <1>1, <2>1, <2>2, <2>3, <2>4, <2>5, <2>6, <2>7
<1>6. ASSUME NEW w \in Workers, Upsert(w) \/ UpsertRaises(w) PROVE TypeOK'
  BY <1>1, <1>6 DEF Upsert, UpsertRaises, GiveUp, groupVars
<1>7. ASSUME NEW w \in Workers, Publish(w) \/ PublishRaises(w) PROVE TypeOK'
  BY <1>1, <1>7 DEF Publish, PublishRaises, GiveUp, groupVars
<1>8. ASSUME NEW w \in Workers, Commit(w) PROVE TypeOK'
  <2>1. committed' \in 0..end
    BY <1>8, CommitTarget DEF Commit, CommitReturns
  <2> QED
    BY <1>1, <1>8, <2>1, BatchAssumption DEF Commit, CommitReturns, stores
<1>9. ASSUME NEW w \in Workers, CommitFails(w) \/ TakeRaises(w) \/ Crash(w) PROVE TypeOK'
  <2>1. committed' \in 0..end
    BY <1>1, <1>9, CommitTarget DEF CommitFails, TakeRaises, Crash
  <2>2. 0 \in 0..BatchSize /\ Stop(w)
    BY <1>9, BatchAssumption DEF CommitFails, TakeRaises, Crash
  <2> QED
    BY <1>1, <2>1, <2>2 DEF Stop, stores
<1>10. CASE UNCHANGED vars
  BY <1>1, <1>10 DEF vars, groupVars, workerVars, stores
<1> QED
  BY <1>2, <1>3, <1>4, <1>5, <1>6, <1>7, <1>8, <1>9, <1>10 DEF Next, Work, Fault

LEMMA BatchCoversGapStep ==
  ASSUME IInv, [Next]_vars
  PROVE  BatchCoversGap'
<1> USE DEF BatchCoversGap
<1>1. TypeOK /\ GroupTypeOK /\ BatchCoversGap
  BY DEF IInv, TypeOK
<1>2. CASE Produce \/ UNCHANGED vars
  BY <1>1, <1>2 DEF Produce, AppendMessage, vars, groupVars, workerVars
<1>3. ASSUME NEW w \in Workers, Rebalance(w) \/ LearnRevoked(w) PROVE BatchCoversGap'
  BY <1>1, <1>3 DEF Rebalance, LearnRevoked, Assign, Revoked, workerVars, GroupTypeOK
<1>4. ASSUME NEW w \in Workers, Take(w) PROVE BatchCoversGap'
  <2> SUFFICES ASSUME NEW v \in Workers, assigned'[v], owner' = v,
                      NEW i \in (committed' + 1)..pos'[v]
               PROVE  i \in batch'[v]
    OBVIOUS
  <2>1. /\ assigned[v] /\ owner = v /\ committed' = committed
        /\ v # w => pos'[v] = pos[v] /\ batch'[v] = batch[v]
        /\ v = w => pos'[v] = pos[v] + 1 /\ batch'[v] = batch[v] \cup {pos[v] + 1}
    BY <1>1, <1>4 DEF Take, Deliver, HasNext, TypeOK, GroupTypeOK
  <2>2. pos[v] \in Nat /\ committed \in Nat
    BY <1>1 DEF GroupTypeOK
  <2> QED
    BY <1>1, <2>1, <2>2
<1>5. ASSUME NEW w \in Workers,
             DeadlinePasses(w) \/ Upsert(w) \/ UpsertRaises(w) \/ Publish(w) \/ PublishRaises(w)
             \/ Restart(w)
      PROVE  BatchCoversGap'
  BY <1>1, <1>5 DEF DeadlinePasses, Upsert, UpsertRaises, Publish, PublishRaises,
    Restart, groupVars
<1>6. ASSUME NEW w \in Workers, Commit(w) PROVE BatchCoversGap'
  <2> SUFFICES ASSUME NEW v \in Workers, assigned'[v], owner' = v
               PROVE  (committed' + 1)..pos'[v] \subseteq batch'[v]
    OBVIOUS
  <2>1. /\ assigned[v] /\ owner = v /\ pos' = pos
        /\ v # w => committed' = committed /\ batch'[v] = batch[v]
        /\ v = w => committed' = pos[v]
    BY <1>1, <1>6 DEF Commit, CommitReturns, PositionToCommit, TypeOK
  <2>2. pos[v] \in Nat
    BY <1>1 DEF GroupTypeOK
  <2> QED
    BY <1>1, <2>1, <2>2
<1>7. ASSUME NEW w \in Workers, CommitFails(w) \/ TakeRaises(w) \/ Crash(w) PROVE BatchCoversGap'
  <2>1. ~assigned'[w]
    BY <1>1, <1>7 DEF CommitFails, TakeRaises, Crash, Stop, GroupTypeOK
  <2>2. ASSUME NEW v \in Workers \ {w}, assigned'[v], owner' = v
        PROVE  committed' = committed /\ assigned[v] /\ owner = v /\ pos' = pos /\ batch'[v] = batch[v]
    BY <1>1, <1>7, <2>2 DEF CommitFails, TakeRaises, Crash, Stop, PositionToCommit,
      GroupTypeOK, TypeOK
  <2> QED
    BY <1>1, <2>1, <2>2
<1> QED
  BY <1>2, <1>3, <1>4, <1>5, <1>6, <1>7 DEF Next, Work, Fault

LEMMA GapStep ==
  ASSUME IInv, [Next]_vars
  PROVE  GapWithinSize'
<1> USE DEF GapWithinSize
<1>1. TypeOK /\ GroupTypeOK /\ GapWithinSize
  BY DEF IInv, TypeOK
<1>2. CASE Produce \/ UNCHANGED vars
  BY <1>1, <1>2 DEF Produce, AppendMessage, vars, groupVars, workerVars
<1>3. ASSUME NEW w \in Workers, Rebalance(w) \/ LearnRevoked(w) PROVE GapWithinSize'
  BY <1>1, <1>3 DEF Rebalance, LearnRevoked, Assign, Revoked, workerVars, TypeOK,
    GroupTypeOK
<1>4. ASSUME NEW w \in Workers, Take(w) PROVE GapWithinSize'
  BY <1>1, <1>4 DEF Take, Deliver, HasNext, TypeOK, GroupTypeOK
<1>5. ASSUME NEW w \in Workers,
             DeadlinePasses(w) \/ Upsert(w) \/ UpsertRaises(w) \/ Publish(w) \/ PublishRaises(w)
             \/ Restart(w)
      PROVE  GapWithinSize'
  BY <1>1, <1>5 DEF DeadlinePasses, Upsert, UpsertRaises, Publish, PublishRaises,
    Restart, groupVars
<1>6. ASSUME NEW w \in Workers, Commit(w) PROVE GapWithinSize'
  <2> SUFFICES ASSUME NEW v \in Workers, assigned'[v], owner' = v
               PROVE  committed' <= pos'[v] /\ pos'[v] <= committed' + size'[v]
    OBVIOUS
  <2>1. /\ assigned[v] /\ owner = v /\ pos' = pos
        /\ v # w => committed' = committed /\ size'[v] = size[v]
        /\ v = w => committed' = pos[v] /\ size'[v] = 0
    BY <1>1, <1>6 DEF Commit, CommitReturns, PositionToCommit, TypeOK
  <2>2. pos[v] \in Nat
    BY <1>1 DEF GroupTypeOK
  <2> QED
    BY <1>1, <2>1, <2>2
<1>7. ASSUME NEW w \in Workers, CommitFails(w) \/ TakeRaises(w) \/ Crash(w) PROVE GapWithinSize'
  <2>1. ~assigned'[w]
    BY <1>1, <1>7 DEF CommitFails, TakeRaises, Crash, Stop, GroupTypeOK
  <2>2. ASSUME NEW v \in Workers \ {w}, assigned'[v], owner' = v
        PROVE  committed' = committed /\ assigned[v] /\ owner = v /\ pos' = pos /\ size'[v] = size[v]
    BY <1>1, <1>7, <2>2 DEF CommitFails, TakeRaises, Crash, Stop, PositionToCommit,
      GroupTypeOK, TypeOK
  <2> QED
    BY <1>1, <2>1, <2>2
<1> QED
  BY <1>2, <1>3, <1>4, <1>5, <1>6, <1>7 DEF Next, Work, Fault

LEMMA AccountStep ==
  ASSUME IInv, [Next]_vars
  PROVE  BatchAccounted' /\ AnnouncedIndexed'
<1> USE DEF BatchAccounted, AnnouncedIndexed, TypeOK, GoTo
<1>1. TypeOK /\ BatchAccounted /\ AnnouncedIndexed
  BY DEF IInv
<1>2. CASE Produce \/ UNCHANGED vars
  BY <1>1, <1>2 DEF Produce, vars, workerVars, stores
<1>3. ASSUME NEW w \in Workers, Rebalance(w) \/ LearnRevoked(w)
      PROVE  BatchAccounted' /\ AnnouncedIndexed'
  BY <1>1, <1>3 DEF Rebalance, LearnRevoked, workerVars, stores
<1>4. ASSUME NEW w \in Workers, Take(w) PROVE BatchAccounted' /\ AnnouncedIndexed'
  BY <1>1, <1>4 DEF Take, StartBatch, NormalizeRaises, stores
<1>5. ASSUME NEW w \in Workers, Upsert(w) \/ UpsertRaises(w)
      PROVE  BatchAccounted' /\ AnnouncedIndexed'
  BY <1>1, <1>5 DEF Upsert, UpsertRaises, GiveUp
<1>6. ASSUME NEW w \in Workers, Publish(w) PROVE BatchAccounted' /\ AnnouncedIndexed'
  <2>1. PICK m \in todo[w] :
          /\ announced' = announced \cup {m}
          /\ todo' = [todo EXCEPT ![w] = @ \ {m}]
          /\ IF todo[w] = {m} THEN GoTo(w, "commit") ELSE UNCHANGED pc
    BY <1>6 DEF Publish
  <2>2. pc[w] = "publish" /\ UNCHANGED <<batch, indexed, dropped, swallowed>>
    BY <1>6 DEF Publish
  <2>3. AnnouncedIndexed'
    BY <1>1, <2>1, <2>2
  <2>4. ASSUME NEW v \in Workers \ {w}
        PROVE  pc'[v] = pc[v] /\ todo'[v] = todo[v]
    BY <1>1, <2>1
  <2>5. /\ todo'[w] = todo[w] \ {m}
        /\ pc'[w] = IF todo[w] = {m} THEN "commit" ELSE "publish"
    BY <1>1, <2>1, <2>2
  <2>6. BatchAccounted'
    BY <1>1, <2>1, <2>2, <2>4, <2>5
  <2> QED
    BY <2>3, <2>6
<1>7. ASSUME NEW w \in Workers, PublishRaises(w) PROVE BatchAccounted' /\ AnnouncedIndexed'
  BY <1>1, <1>7 DEF PublishRaises, GiveUp
<1>8. ASSUME NEW w \in Workers, DeadlinePasses(w) \/ Commit(w) \/ CommitFails(w) \/ TakeRaises(w) \/ Crash(w)
                                \/ Restart(w)
      PROVE  BatchAccounted' /\ AnnouncedIndexed'
  BY <1>1, <1>8 DEF DeadlinePasses, Commit, CommitFails, TakeRaises, Crash, Restart,
    Stop, stores
<1> QED
  BY <1>2, <1>3, <1>4, <1>5, <1>6, <1>7, <1>8 DEF Next, Work, Fault

LEMMA LossStep ==
  ASSUME IInv, [Next]_vars
  PROVE  LossOnlyBySwallowing'
<1> USE DEF LossOnlyBySwallowing
<1>1. LossOnlyBySwallowing
  BY DEF IInv
<1>2. ASSUME NEW w \in Workers, Commit(w) \/ CommitFails(w) PROVE LossOnlyBySwallowing'
  <2>1. /\ pc[w] = "commit" /\ committed' \in {committed, PositionToCommit(w)}
        /\ UNCHANGED stores
    BY <1>2 DEF Commit, CommitFails, CommitReturns, Stop
  <2> QED
    BY <2>1, CommitTarget DEF stores
<1>3. ASSUME NEW w \in Workers,
             Upsert(w) \/ UpsertRaises(w) \/ Publish(w) \/ PublishRaises(w)
      PROVE  LossOnlyBySwallowing'
  BY <1>1, <1>3 DEF Upsert, UpsertRaises, Publish, PublishRaises, GiveUp, groupVars
<1> QED
  BY <1>1, <1>2, <1>3
  DEF Next, Work, Fault, Produce, AppendMessage, Rebalance, LearnRevoked, Assign,
    Revoked, Take,
      StartBatch, NormalizeRaises, TakeRaises, Deliver, DeadlinePasses, Crash, Stop,
      Restart, vars, groupVars, stores

LEMMA InvCorrect == Spec => []IInv
<1>1. Init => IInv
  <2> SUFFICES ASSUME Init PROVE IInv
    OBVIOUS
  <2>1. TypeOK
    BY GroupAssumption, BatchAssumption DEF Init, GroupInit, TypeOK, GroupTypeOK
  <2>2. /\ BatchCoversGap /\ GapWithinSize
        /\ BatchAccounted /\ LossOnlyBySwallowing /\ AnnouncedIndexed
    BY DEF Init, GroupInit, BatchCoversGap, GapWithinSize, BatchAccounted,
      LossOnlyBySwallowing, AnnouncedIndexed
  <2> QED
    BY <2>1, <2>2 DEF IInv
<1>2. IInv /\ [Next]_vars => IInv'
  BY TypeStep, BatchCoversGapStep, GapStep, AccountStep, LossStep DEF IInv
<1> QED
  BY <1>1, <1>2, PTL DEF Spec

\* Every state of the pipeline has its type; in particular a batch never
\* outgrows BATCH_SIZE and is never left full.
THEOREM TypeCorrect == Spec => []TypeOK
  BY InvCorrect, PTL DEF IInv

\* A commit of the partition's holder acknowledges only messages of its batch.
THEOREM CommitsOnlyBatch == Spec => []BatchCoversGap
  BY InvCorrect, PTL DEF IInv

\* A committed message was announced, was left out, or was in a batch
\* whose exception _process_batch swallowed.
THEOREM LossAccounted == Spec => []LossOnlyBySwallowing
  BY InvCorrect, PTL DEF IInv

\* Every announced job was indexed first.
THEOREM AnnouncedIsIndexed == Spec => []AnnouncedIndexed
  BY InvCorrect, PTL DEF IInv

(***************************************************************************)
(* Steps                                                                   *)
(***************************************************************************)
\* Only a commit moves the offset, forwards, by at most one full batch, over
\* messages that have been dealt with.
LEMMA OffsetStep ==
  ASSUME IInv, [Next]_vars
  PROVE  \/ committed' = committed
         \/ \E n \in 1..BatchSize :
              /\ committed' = committed + n
              /\ (committed + 1)..(committed + n) \subseteq announced \cup dropped \cup swallowed
              /\ UNCHANGED <<end, stores>>
<1>1. ASSUME NEW w \in Workers, Commit(w) \/ CommitFails(w), committed' # committed
      PROVE  \E n \in 1..BatchSize :
               /\ committed' = committed + n
               /\ (committed + 1)..(committed + n) \subseteq announced \cup dropped \cup swallowed
               /\ UNCHANGED <<end, stores>>
  <2>1. /\ pc[w] = "commit" /\ committed' \in {committed, PositionToCommit(w)}
        /\ UNCHANGED <<end, stores>>
    BY <1>1 DEF Commit, CommitFails, CommitReturns, Stop
  <2>2. /\ committed \in Nat /\ committed' \in Nat
        /\ committed < committed' /\ committed' <= committed + BatchSize
        /\ \A i \in 1..committed' : i \in announced \cup dropped \cup swallowed
    BY <1>1, <2>1, CommitTarget, BatchAssumption DEF IInv, TypeOK, GroupTypeOK
  <2>3. PICK n \in 1..BatchSize : committed' = committed + n
    BY <2>2, BatchAssumption
  <2>4. (committed + 1)..(committed + n) \subseteq 1..committed'
    BY <2>2, <2>3
  <2> QED
    BY <2>1, <2>2, <2>3, <2>4
<1> QED
  BY <1>1 DEF Next, Work, Fault, Produce, AppendMessage, Rebalance, LearnRevoked, Assign,
    Revoked, Take,
    TakeRaises, Stop, Deliver, DeadlinePasses, Upsert, UpsertRaises, Publish, PublishRaises, Crash, Restart,
    vars, groupVars

\* What has been dealt with grows, by existing messages, and only when no
\* message is appended.
LEMMA SettledStep ==
  ASSUME IInv, [Next]_vars
  PROVE  LET settled == announced \cup dropped \cup swallowed
         IN  \/ settled' = settled
             \/ /\ \E M \in SUBSET (1..end) : settled' = settled \cup M
                /\ UNCHANGED <<end, committed>>
<1> DEFINE settled == announced \cup dropped \cup swallowed
<1>1. TypeOK /\ GroupTypeOK
  BY DEF IInv, TypeOK
<1>2. ASSUME NEW w \in Workers, Take(w)
      PROVE  /\ \E M \in SUBSET (1..end) : settled' = settled \cup M
             /\ UNCHANGED <<end, committed>>
  <2> DEFINE msgs == batch[w] \cup {pos[w] + 1}
  <2>1. msgs \subseteq 1..end /\ UNCHANGED <<end, committed, announced>>
    BY <1>1, <1>2 DEF Take, Deliver, HasNext, TypeOK, GroupTypeOK
  <2>2. \/ swallowed' = swallowed /\ dropped' \in {dropped, dropped \cup (msgs \cap Unparsable)}
        \/ swallowed' = swallowed \cup msgs /\ dropped' = dropped
    BY <1>2 DEF Take, StartBatch, NormalizeRaises
  <2>3. settled' \in {settled \cup {}, settled \cup (msgs \cap Unparsable), settled \cup msgs}
    BY <2>1, <2>2
  <2>4. {} \in SUBSET (1..end) /\ msgs \cap Unparsable \in SUBSET (1..end)
    BY <2>1
  <2> QED
    BY <2>1, <2>3, <2>4
<1>3. ASSUME NEW w \in Workers, UpsertRaises(w) \/ Publish(w) \/ PublishRaises(w)
      PROVE  /\ \E M \in SUBSET (1..end) : settled' = settled \cup M
             /\ UNCHANGED <<end, committed>>
  <2>1. todo[w] \in SUBSET (1..end) /\ UNCHANGED <<end, committed, dropped>>
    BY <1>1, <1>3 DEF TypeOK, UpsertRaises, Publish, PublishRaises, groupVars
  <2>2. PICK M \in SUBSET todo[w] : settled' = settled \cup M
    <3>1. CASE UpsertRaises(w)
      <4>1. settled' = settled \cup todo[w]
        BY <3>1 DEF UpsertRaises, GiveUp
      <4> QED
        BY <4>1
    <3>2. CASE Publish(w)
      <4>1. PICK m \in todo[w] : announced' = announced \cup {m}
        BY <3>2 DEF Publish
      <4>2. settled' = settled \cup {m} /\ {m} \in SUBSET todo[w]
        BY <3>2, <4>1 DEF Publish
      <4> QED
        BY <4>2
    <3>3. CASE PublishRaises(w)
      <4>1. settled' = settled \cup todo[w]
        BY <3>3 DEF PublishRaises, GiveUp
      <4> QED
        BY <4>1
    <3> QED
      BY <1>3, <3>1, <3>2, <3>3
  <2> QED
    BY <2>1, <2>2
<1> QED
  BY <1>2, <1>3 DEF Next, Work, Fault, Produce, Rebalance, LearnRevoked, DeadlinePasses,
    Upsert,
    Commit, CommitFails, TakeRaises, Crash, Restart, Stop, vars, stores

\* The pipeline implements the at-least-once promise, a batch at a time:
\* announced, left out and given up together are what the promise calls settled.
THEOREM KeepsPromise == Spec => AtLeastOnceSpec
<1> DEFINE settled == announced \cup dropped \cup swallowed
<1>1. Init => Promise!Init
  BY DEF Init, GroupInit, Promise!Init
<1>2. IInv /\ [Next]_vars => [Promise!Next]_<<end, committed, settled>>
  <2> SUFFICES ASSUME IInv, [Next]_vars
               PROVE  Promise!Next \/ UNCHANGED <<end, committed, settled>>
    OBVIOUS
  <2>1. CASE committed' # committed
    BY <2>1, OffsetStep DEF stores, Promise!Next, Promise!Ack
  <2>2. CASE settled' # settled
    BY <2>2, SettledStep DEF Promise!Next, Promise!Settle
  <2>3. CASE committed' = committed /\ settled' = settled /\ end' # end
    <3>1. Produce
      BY <2>3 DEF Next, Work, Fault, Rebalance, LearnRevoked, Assign, Revoked, Take,
        Deliver,
        DeadlinePasses, Upsert, UpsertRaises, Publish, PublishRaises, Commit, CommitReturns,
        CommitFails, TakeRaises, Crash, Restart, Stop, vars, groupVars
    <3> QED
      BY <2>3, <3>1 DEF Produce, AppendMessage, Promise!Next, Promise!Produce
  <2> QED
    BY <2>1, <2>2, <2>3
<1> QED
  BY <1>1, <1>2, InvCorrect, PTL DEF Spec, AtLeastOnceSpec, Promise!Spec

================================================================================
