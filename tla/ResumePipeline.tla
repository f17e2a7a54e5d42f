----------------------------- MODULE ResumePipeline -----------------------------
(***************************************************************************)
(* The resume parsing workers                                              *)
(* (worker-service/app/consumers/resume_pipeline_consumer.py): every        *)
(* message of resume.parse ends as a message of resume.parsed or of the     *)
(* dead-letter topic resume.parse.failed, and is then committed.            *)
(*                                                                         *)
(* A worker takes one message at a time; pc[w] is the await it is at.       *)
(* Messages are named by their offset.  A message that is no JSON object    *)
(* ends the worker that reads it: no producer in the repository writes one, *)
(* and any other writer of the topic may.                                   *)
(***************************************************************************)
EXTENDS ConsumerGroup

VARIABLES
  pc,      \* where each worker is in run_resume_pipeline_consumer
  cur,     \* the message it is processing
  parsed,  \* messages with a result in resume.parsed
  failed   \* messages with an entry in resume.parse.failed

workerVars == <<pc, cur, parsed, failed>>
vars == <<groupVars, workerVars>>

\* Messages whose value raises outside the inner try
Unreadable == Undecodable \cup NotObjects

Awaits == {"next", "parse", "publish", "commit", "dlq", "dlq_commit"}

TypeOK ==
  /\ GroupTypeOK
  /\ pc \in [Workers -> Awaits \cup {"down"}]
  /\ cur \in [Workers -> 0..end]
  /\ parsed \subseteq 1..end
  /\ failed \subseteq 1..end
  /\ \A w \in Workers : /\ pc[w] = "down" => ~assigned[w]
                        /\ pc[w] \in Awaits \ {"next"} => cur[w] # 0

Init ==
  /\ GroupInit
  /\ pc = [w \in Workers |-> "next"]
  /\ cur = [w \in Workers |-> 0]
  /\ parsed = {}
  /\ failed = {}

GoTo(w, l) == pc' = [pc EXCEPT ![w] = l]

\* The user service publishes to resume.parse.
Produce == AppendMessage /\ UNCHANGED workerVars

Rebalance(w) == pc[w] # "down" /\ Assign(w) /\ UNCHANGED workerVars

LearnRevoked(w) == pc[w] # "down" /\ Revoked(w) /\ UNCHANGED workerVars

\* Mutant: auto-commit acknowledges a message as it is yielded.
TakeAutoCommit(w) ==
  /\ pc[w] = "next"
  /\ HasNext(w) /\ owner = w /\ pos[w] + 1 \notin Unreadable
  /\ pos' = [pos EXCEPT ![w] = @ + 1]
  /\ committed' = pos[w] + 1
  /\ cur' = [cur EXCEPT ![w] = pos[w] + 1]
  /\ GoTo(w, "parse")
  /\ UNCHANGED <<end, owner, assigned, parsed, failed>>

\* The async for loop yields a message and event.get answers.
Take(w) ==
  /\ pc[w] = "next"
  /\ Deliver(w)
  /\ pos[w] + 1 \notin NotObjects
  /\ cur' = [cur EXCEPT ![w] = pos[w] + 1]
  /\ GoTo(w, "parse")
  /\ UNCHANGED <<parsed, failed>>

\* The deserializer raises out of the iterator, or event.get does: neither is
\* inside the inner try, so finally stops the consumer and the process ends.
\* The position is lost with the assignment: the message will come again.
TakeRaises(w) ==
  /\ pc[w] = "next"
  /\ HasNext(w)
  /\ pos[w] + 1 \in Unreadable
  /\ Leave(w)
  /\ GoTo(w, "down")
  /\ UNCHANGED <<cur, parsed, failed>>

\* Mutant: a failure is logged and the loop goes on to the next message.
ParseSkipped(w) ==
  /\ pc[w] = "parse"
  /\ GoTo(w, "publish") \/ GoTo(w, "next")
  /\ UNCHANGED <<groupVars, cur, parsed, failed>>

\* parse_and_analyze downloads, extracts and scores; any step of it may raise.
Parse(w) ==
  /\ pc[w] = "parse"
  /\ GoTo(w, "publish") \/ GoTo(w, "dlq")
  /\ UNCHANGED <<groupVars, cur, parsed, failed>>

Publish(w) ==
  /\ pc[w] = "publish"
  /\ parsed' = parsed \cup {cur[w]}
  /\ GoTo(w, "commit")
  /\ UNCHANGED <<groupVars, cur, failed>>

\* publish() re-raises the KafkaError; the record may have been written.
PublishRaises(w) ==
  /\ pc[w] = "publish"
  /\ parsed' \in {parsed, parsed \cup {cur[w]}}
  /\ GoTo(w, "dlq")
  /\ UNCHANGED <<groupVars, cur, failed>>

\* Mutant: commit() is given the offset of the message in hand.
CommitOwnOffset(w) ==
  /\ pc[w] \in {"commit", "dlq_commit"}
  /\ assigned[w] => owner = w
  /\ committed' = IF assigned[w] THEN cur[w] ELSE committed
  /\ GoTo(w, "next")
  /\ UNCHANGED <<end, owner, assigned, pos, cur, parsed, failed>>

Commit(w) ==
  /\ pc[w] \in {"commit", "dlq_commit"}
  /\ CommitReturns(w)
  /\ GoTo(w, "next")
  /\ UNCHANGED <<cur, parsed, failed>>

\* The commit is inside the try: its failure sends the message to the DLQ.
FirstCommitRaises(w) ==
  /\ pc[w] = "commit"
  /\ CommitRaises(w)
  /\ GoTo(w, "dlq")
  /\ UNCHANGED <<cur, parsed, failed>>

SendToDlq(w) ==
  /\ pc[w] = "dlq"
  /\ failed' = failed \cup {cur[w]}
  /\ GoTo(w, "dlq_commit")
  /\ UNCHANGED <<groupVars, cur, parsed>>

\* Mutant: a failure of the dead-letter publication is swallowed.
DlqRaisesSwallowed(w) ==
  /\ pc[w] = "dlq"
  /\ GoTo(w, "next")
  /\ UNCHANGED <<groupVars, cur, parsed, failed>>

\* An exception inside the except block leaves the loop: finally stops the
\* consumer and the process ends.
DlqRaises(w) ==
  /\ pc[w] = "dlq"
  /\ failed' \in {failed, failed \cup {cur[w]}}
  /\ Leave(w)
  /\ GoTo(w, "down")
  /\ UNCHANGED <<cur, parsed>>

\* Mutant: nothing stops the consumer when the loop is left.
DlqCommitRaisesUnstopped(w) ==
  /\ pc[w] = "dlq_commit"
  /\ committed' \in {committed, PositionToCommit(w)}
  /\ GoTo(w, "down")
  /\ UNCHANGED <<end, owner, assigned, pos, cur, parsed, failed>>

\* So does the commit that follows it; what it committed stays committed.
DlqCommitRaises(w) ==
  /\ pc[w] = "dlq_commit"
  /\ committed' \in {committed, PositionToCommit(w)}
  /\ assigned' = [assigned EXCEPT ![w] = FALSE]
  /\ GoTo(w, "down")
  /\ UNCHANGED <<end, owner, pos, cur, parsed, failed>>

Crash(w) ==
  /\ pc[w] # "down"
  /\ Leave(w)
  /\ GoTo(w, "down")
  /\ UNCHANGED <<cur, parsed, failed>>

Restart(w) ==
  /\ pc[w] = "down"
  /\ GoTo(w, "next")
  /\ UNCHANGED <<groupVars, cur, parsed, failed>>

\* What a worker does by itself when no call fails
Work(w) == Take(w) \/ TakeRaises(w) \/ Parse(w) \/ Publish(w) \/ Commit(w) \/ SendToDlq(w)

Fault(w) ==
  \/ PublishRaises(w) \/ FirstCommitRaises(w) \/ DlqRaises(w) \/ DlqCommitRaises(w)
  \/ Crash(w)

Next ==
  \/ Produce
  \/ \E w \in Workers :
       Rebalance(w) \/ LearnRevoked(w) \/ Work(w) \/ Fault(w) \/ Restart(w)

Spec == Init /\ [][Next]_vars

\* The partition has no live holder that knows it is the holder.
Unheld == pc[owner] = "down" \/ ~assigned[owner]

\* Workers run, a deposed member is told so, and the coordinator assigns a
\* partition nobody holds.  WF(Restart) assumes that somebody restarts a worker
\* that ended: the repository does not show who, as nothing in it calls
\* run_resume_pipeline_consumer (infra/k8s/base/worker-deployment.yaml:19 and
\* docker-compose.yml:104 start celery only).
Fairness ==
  /\ \A w \in Workers : WF_vars(Work(w)) /\ WF_vars(Restart(w)) /\ WF_vars(LearnRevoked(w))
  /\ WF_vars(Unheld /\ \E w \in Workers : Rebalance(w))
FairSpec == Spec /\ Fairness

(***************************************************************************)
(* Properties                                                              *)
(***************************************************************************)
\* A committed message is in resume.parsed or in resume.parse.failed: no
\* crash, rebalance, deposed worker or lost commit answer makes one vanish.
NoLoss == \A i \in 1..committed : i \in parsed \cup failed

\* The worker that holds the partition is at most one message ahead of the
\* committed offset, and that message is the one in its hands.
OneInHand ==
  \A w \in Workers : assigned[w] /\ owner = w =>
    \/ pos[w] = committed
    \/ pos[w] = committed + 1 /\ cur[w] = pos[w] /\ pc[w] \notin {"next", "down"}

\* A worker asks for a commit only with its message settled, on the path
\* through the dead-letter topic as on the other.
SettledBeforeCommit ==
  \A w \in Workers : pc[w] \in {"commit", "dlq_commit"} => cur[w] \in parsed \cup failed

\* The committed offset never moves back: a deposed worker cannot rewind what
\* its successor committed.
CommitsAdvance == [][committed' >= committed]_vars

\* The group keeps the at-least-once promise, one message at a time.
Promise == INSTANCE AtLeastOnce
             WITH AckLimit <- 1, produced <- end, acked <- committed, settled <- parsed \cup failed
AtLeastOnceSpec == Promise!Spec

\* Once faults and needless rebalances stop, every message gets settled and
\* committed, however parse_and_analyze fails on it, provided that neither it
\* nor a message before it is unreadable.  An unreadable one stops each worker
\* it is delivered to and is never got past (NeverPastUnreadable).
Calm == \A w \in Workers : ~Fault(w) /\ (Rebalance(w) => Unheld)
EverySettled ==
  <>[][Calm]_vars =>
    \A i \in 1..MaxMessages : Unreadable \cap 1..i = {} => ((end >= i) ~> (committed >= i))

\* No unreadable message is ever committed or settled: it is not skipped, and
\* everything after it waits behind it for ever.
NeverPastUnreadable == Unreadable \cap (1..committed \cup parsed \cup failed) = {}

================================================================================
