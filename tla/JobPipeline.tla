------------------------------ MODULE JobPipeline ------------------------------
(***************************************************************************)
(* The job pipeline workers                                                *)
(* (worker-service/app/consumers/job_pipeline_consumer.py with              *)
(* processors/normalizer.py and processors/embedder.py): messages of        *)
(* job.scraped are collected into batches, normalised, indexed in Qdrant    *)
(* and announced on job.normalized; then the offsets are committed.         *)
(*                                                                         *)
(* A worker is at an await of its loop: the next message, the upsert, a     *)
(* publication or the commit.  Normalising has no await of its own and is   *)
(* part of the step that starts the batch.  A batch is kept as the set of   *)
(* its offsets with its length (a redelivered message can be in it twice);  *)
(* the order of the publications within a batch is left open.              *)
(***************************************************************************)
EXTENDS ConsumerGroup

CONSTANTS BatchSize,    \* BATCH_SIZE
          Unparsable    \* objects _normalize_one raises on

ASSUME BatchAssumption == BatchSize \in Nat \ {0}

VARIABLES
  pc,         \* where each worker is in run_job_pipeline_consumer
  batch,      \* its list of messages, as a set of offsets
  size,       \* the length of that list
  expired,    \* its deadline has passed
  todo,       \* normalised jobs of the batch not yet announced
  indexed,    \* messages whose job is in Qdrant
  announced,  \* messages whose job is in job.normalized
  dropped,    \* history: messages normalize_jobs left out
  swallowed   \* history: jobs given up when _process_batch caught an exception

workerVars == <<pc, batch, size, expired, todo>>
stores == <<indexed, announced, dropped, swallowed>>
vars == <<groupVars, workerVars, stores>>

TypeOK ==
  /\ GroupTypeOK
  /\ pc \in [Workers -> {"next", "upsert", "publish", "commit", "down"}]
  /\ batch \in [Workers -> SUBSET (1..end)]
  /\ size \in [Workers -> 0..BatchSize]
  /\ expired \in [Workers -> BOOLEAN]
  /\ todo \in [Workers -> SUBSET (1..end)]
  /\ indexed \subseteq 1..end /\ announced \subseteq 1..end
  /\ dropped \subseteq 1..end /\ swallowed \subseteq 1..end
  /\ \A w \in Workers : /\ pc[w] = "next" => size[w] < BatchSize
                        /\ pc[w] = "down" => ~assigned[w] /\ size[w] = 0

Init ==
  /\ GroupInit
  /\ pc = [w \in Workers |-> "next"]
  /\ batch = [w \in Workers |-> {}]
  /\ size = [w \in Workers |-> 0]
  /\ expired = [w \in Workers |-> FALSE]
  /\ todo = [w \in Workers |-> {}]
  /\ indexed = {} /\ announced = {} /\ dropped = {} /\ swallowed = {}

GoTo(w, l) == pc' = [pc EXCEPT ![w] = l]

\* The crawlers publish to job.scraped.
Produce == AppendMessage /\ UNCHANGED <<workerVars, stores>>

Rebalance(w) == pc[w] # "down" /\ Assign(w) /\ UNCHANGED <<workerVars, stores>>

LearnRevoked(w) == pc[w] # "down" /\ Revoked(w) /\ UNCHANGED <<workerVars, stores>>

\* BATCH_TIMEOUT_S passes; nothing happens until the next message is yielded.
DeadlinePasses(w) ==
  /\ pc[w] = "next"
  /\ ~expired[w]
  /\ expired' = [expired EXCEPT ![w] = TRUE]
  /\ UNCHANGED <<groupVars, pc, batch, size, todo, stores>>

\* Mutant: a batch is full only when it has outgrown BATCH_SIZE.
FullLate(w) == size[w] + 1 > BatchSize

Full(w) == size[w] + 1 >= BatchSize

\* Mutant: the batch is processed before the message is appended to it.
StartBatchEarly(w, msgs) ==
  /\ batch[w] \cap NotObjects = {}
  /\ UNCHANGED swallowed
  /\ todo' = [todo EXCEPT ![w] = batch[w] \ Unparsable]
  /\ dropped' = dropped \cup (batch[w] \cap Unparsable)
  /\ GoTo(w, IF batch[w] \subseteq Unparsable THEN "commit" ELSE "upsert")

\* normalize_jobs raises on the first message that is no object, when it comes
\* to log it: _process_batch gives up the batch.
NormalizeRaises(w, msgs) ==
  /\ msgs \cap NotObjects # {}
  /\ swallowed' = swallowed \cup msgs
  /\ GoTo(w, "commit")
  /\ UNCHANGED <<todo, dropped>>

\* normalize_jobs leaves out the jobs it could not normalise; embed_and_store
\* and the publication loop have nothing to do for an empty list.
StartBatch(w, msgs) ==
  /\ msgs \cap NotObjects = {}
  /\ UNCHANGED swallowed
  /\ todo' = [todo EXCEPT ![w] = msgs \ Unparsable]
  /\ dropped' = dropped \cup (msgs \cap Unparsable)
  /\ GoTo(w, IF msgs \subseteq Unparsable THEN "commit" ELSE "upsert")

\* The async for loop yields a message, whose arrival may start the batch.
Take(w) ==
  LET msgs == batch[w] \cup {pos[w] + 1}
  IN /\ pc[w] = "next"
     /\ Deliver(w)
     /\ batch' = [batch EXCEPT ![w] = msgs]
     /\ size' = [size EXCEPT ![w] = @ + 1]
     /\ \/ (Full(w) \/ expired[w]) /\ (StartBatch(w, msgs) \/ NormalizeRaises(w, msgs))
        \/ ~(Full(w) \/ expired[w]) /\ UNCHANGED <<pc, todo, dropped, swallowed>>
     /\ UNCHANGED <<expired, indexed, announced>>

\* Mutant: the jobs are announced ahead of the upsert.
UpsertLater(w) ==
  /\ pc[w] = "upsert"
  /\ GoTo(w, "publish")
  /\ UNCHANGED <<groupVars, batch, size, expired, todo, stores>>

Upsert(w) ==
  /\ pc[w] = "upsert"
  /\ indexed' = indexed \cup todo[w]
  /\ GoTo(w, "publish")
  /\ UNCHANGED <<groupVars, batch, size, expired, todo, announced, dropped, swallowed>>

\* The except block of _process_batch: the rest of the batch is given up.
GiveUp(w) ==
  /\ swallowed' = swallowed \cup todo[w]
  /\ todo' = [todo EXCEPT ![w] = {}]
  /\ GoTo(w, "commit")

\* The upsert raises; Qdrant may have applied it.
UpsertRaises(w) ==
  /\ pc[w] = "upsert"
  /\ indexed' \in {indexed, indexed \cup todo[w]}
  /\ GiveUp(w)
  /\ UNCHANGED <<groupVars, batch, size, expired, announced, dropped>>

Publish(w) ==
  /\ pc[w] = "publish"
  /\ \E m \in todo[w] :
       /\ announced' = announced \cup {m}
       /\ todo' = [todo EXCEPT ![w] = @ \ {m}]
       /\ IF todo[w] = {m} THEN GoTo(w, "commit") ELSE UNCHANGED pc
  /\ UNCHANGED <<groupVars, batch, size, expired, indexed, dropped, swallowed>>

\* publish() re-raises the KafkaError; the record may have been written.
PublishRaises(w) ==
  /\ pc[w] = "publish"
  /\ \E m \in todo[w] : announced' \in {announced, announced \cup {m}}
  /\ GiveUp(w)
  /\ UNCHANGED <<groupVars, batch, size, expired, indexed, dropped>>

Commit(w) ==
  /\ pc[w] = "commit"
  /\ CommitReturns(w)
  /\ batch' = [batch EXCEPT ![w] = {}]
  /\ size' = [size EXCEPT ![w] = 0]
  /\ expired' = [expired EXCEPT ![w] = FALSE]
  /\ GoTo(w, "next")
  /\ UNCHANGED <<todo, stores>>

\* The process ends, with what it had collected.
Stop(w) ==
  /\ GoTo(w, "down")
  /\ assigned' = [assigned EXCEPT ![w] = FALSE]
  /\ batch' = [batch EXCEPT ![w] = {}]
  /\ size' = [size EXCEPT ![w] = 0]
  /\ todo' = [todo EXCEPT ![w] = {}]
  /\ expired' = [expired EXCEPT ![w] = FALSE]
  /\ UNCHANGED <<end, owner, pos, stores>>

\* The deserializer raises out of the iterator: the loop is left with the
\* messages collected so far, which will come again.
TakeRaises(w) ==
  /\ pc[w] = "next"
  /\ HasNext(w)
  /\ pos[w] + 1 \in Undecodable
  /\ Stop(w)
  /\ UNCHANGED committed

\* Mutant: the commit is inside the try, and the loop goes on.
CommitFailsSwallowed(w) ==
  /\ pc[w] = "commit"
  /\ CommitRaises(w)
  /\ batch' = [batch EXCEPT ![w] = {}]
  /\ size' = [size EXCEPT ![w] = 0]
  /\ GoTo(w, "next")
  /\ UNCHANGED <<expired, todo, stores>>

\* The commit is outside _process_batch: its failure leaves the loop.
CommitFails(w) ==
  /\ pc[w] = "commit"
  /\ committed' \in {committed, PositionToCommit(w)}
  /\ Stop(w)

Crash(w) == pc[w] # "down" /\ Stop(w) /\ UNCHANGED committed

Restart(w) ==
  /\ pc[w] = "down"
  /\ GoTo(w, "next")
  /\ UNCHANGED <<groupVars, batch, size, expired, todo, stores>>

\* What a worker does by itself when no call fails
Work(w) == Take(w) \/ TakeRaises(w) \/ Upsert(w) \/ Publish(w) \/ Commit(w)

Fault(w) == UpsertRaises(w) \/ PublishRaises(w) \/ CommitFails(w) \/ Crash(w)

Next ==
  \/ Produce
  \/ \E w \in Workers :
       \/ Rebalance(w) \/ LearnRevoked(w) \/ DeadlinePasses(w) \/ Work(w) \/ Fault(w)
       \/ Restart(w)

Spec == Init /\ [][Next]_vars

\* The partition has no live holder that knows it is the holder.
Unheld == pc[owner] = "down" \/ ~assigned[owner]

\* Workers run, time passes, a deposed member is told so, and a partition nobody
\* holds is assigned.  WF(Restart) assumes that somebody restarts a worker that
\* ended: the repository does not show who, as nothing in it calls
\* run_job_pipeline_consumer (its deployments start celery only).
Fairness ==
  /\ \A w \in Workers : /\ WF_vars(Work(w)) /\ WF_vars(DeadlinePasses(w))
                        /\ WF_vars(Restart(w)) /\ WF_vars(LearnRevoked(w))
  /\ WF_vars(Unheld /\ \E w \in Workers : Rebalance(w))
FairSpec == Spec /\ Fairness

(***************************************************************************)
(* Properties                                                              *)
(***************************************************************************)
\* The batch in the hands of the holder covers everything delivered to it and
\* not yet committed, so that a commit acknowledges no message outside it,
\* whatever was redelivered or reassigned while the batch was collected.
BatchCoversGap ==
  \A w \in Workers : assigned[w] /\ owner = w => (committed + 1)..pos[w] \subseteq batch[w]

\* The only ways a message can be committed without its job being announced
\* are that normalize_jobs left it out and that _process_batch swallowed an
\* exception of the batch it was in.
LossOnlyBySwallowing ==
  \A i \in 1..committed : i \in announced \cup dropped \cup swallowed

\* job.normalized never announces a job that cannot be found in Qdrant.
AnnouncedIndexed == announced \subseteq indexed

\* The group keeps the at-least-once promise, a batch at a time: what was left
\* out or given up counts as dealt with (LossOnlyBySwallowing), a commit
\* acknowledges no more than one full batch and never moves back.
Promise == INSTANCE AtLeastOnce
             WITH AckLimit <- BatchSize, produced <- end, acked <- committed,
                  settled <- announced \cup dropped \cup swallowed
AtLeastOnceSpec == Promise!Spec

\* The messages before the first one the workers cannot decode
Decodable == CHOOSE n \in 0..end :
               /\ Undecodable \cap 1..n = {}
               /\ n = end \/ n + 1 \in Undecodable

\* Once faults and needless rebalances stop, a backlog that fills a batch is
\* worked off, as far as the first message that cannot be decoded: it stops
\* each worker it is delivered to, and what is behind it waits for ever.  As
\* for the restarts this needs, see Fairness.
Calm == \A w \in Workers : ~Fault(w) /\ (Rebalance(w) => Unheld)
BacklogDrains ==
  <>[][Calm]_vars => (Decodable - committed >= BatchSize ~> Decodable - committed < BatchSize)

\* job_pipeline_consumer.py:3, "50 messages or 5 seconds, whichever comes
\* first": a batch does not outlive its deadline for ever.
BatchTimeout ==
  <>[][Calm]_vars => \A w \in Workers : expired[w] /\ batch[w] # {} ~> batch[w] = {}

================================================================================
