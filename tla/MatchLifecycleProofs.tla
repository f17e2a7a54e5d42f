-------------------------- MODULE MatchLifecycleProofs --------------------------
(***************************************************************************)
(* What a client of a match, and the consumers downstream, can rely on, for *)
(* any number of matches and of workers running them, several at a time.    *)
(*                                                                         *)
(* The properties rest on two facts.  A status is only ever "queued" before *)
(* the event that starts the first run exists (Started), and a run past one *)
(* of the finalizer's writes has left that write in Redis, unless a key has *)
(* expired since (Written).                                                *)
(***************************************************************************)
EXTENDS MatchLifecycle, TLAPS

\* Only a match that was asked for has a status, an event or a run.
Started ==
  /\ \A m \in Matches : request[m] = "new" => statusKey[m] = "none" /\ m \notin requested
  /\ \A w \in Workers : run[w] # Idle => run[w].match \in requested

Readable(m) == lapsed[m] \/ (statusKey[m] = "done" /\ resultsKey[m] # "none")

\* What a run has left behind at each await of the finalizer
Written ==
  \A w \in Workers :
    /\ run[w].at \in {"results", "push", "event", "analytics"} =>
         /\ statusKey[run[w].match] # "queued"
         /\ lapsed[run[w].match] \/ statusKey[run[w].match] = "done"
    /\ run[w].at \in {"push", "event", "analytics"} => Readable(run[w].match)
    /\ run[w].at \in {"event", "analytics"} => run[w].match \in pushed
    /\ run[w].at = "analytics" => run[w].match \in completed

Pushed ==
  /\ \A m \in pushed : statusKey[m] # "queued" /\ Readable(m) /\ m \in requested
  /\ completed \subseteq pushed
  /\ analytics \subseteq completed

\* What a poll has seen stays true until it is answered, and after.
Polled ==
  \A m \in Matches : poll[m] # Unasked =>
    /\ poll[m].watched # "out" => socket[m] # "out"
    /\ poll[m].watched = "listening" => socket[m] # "open"
    /\ poll[m].status = "queued" /\ socket[m] \in {"open", "listening"} =>
         /\ poll[m].watched = "listening" => m \notin pushed
         /\ poll[m].watched = "open" => m \notin pushed \/ m \in gap
    /\ poll[m].told => m \in pushed
    /\ poll[m].told /\ ~lapsed[m] => poll[m].status = "done"
    /\ poll[m].told /\ ~lapsed[m] /\ poll[m].at = "answered" => poll[m].results

IInv == TypeOK /\ Started /\ Written /\ Pushed /\ Polled

\* The steps of a run that are not yet in the finalizer, by what they change.
NodeStep(w) ==
  \/ ResumeAnalyzer(w) \/ TopJobsHit(w) \/ TopJobsMiss(w) \/ JobSearch(w)
  \/ Reranker(w) \/ MatchScorer(w)

\* A node before the finalizer changes its own worker's run and nothing a client
\* or a consumer of events sees; it ends in a node or at the first await of the
\* finalizer.
LEMMA NodeEffect ==
  ASSUME TypeOK, NEW w \in Workers, NodeStep(w)
  PROVE  /\ run[w] # Idle /\ run'[w] # Idle
         /\ run'[w] \in Running
         /\ run'[w].match = run[w].match
         /\ run'[w].at \in Nodes \cup {"status"}
         /\ run' = [run EXCEPT ![w] = run'[w]]
         /\ topJobs' \in BOOLEAN
         /\ UNCHANGED <<request, statusKey, resultsKey, lapsed, eventVars, socket, poll>>
<1>1. run \in [Workers -> Running \cup {Idle}] /\ topJobs \in BOOLEAN
  BY DEF TypeOK
<1>2. Idle.at = "end" /\ \A r \in Running : r.at # "end"
  BY DEF Idle, Running, Steps, Nodes, Finalizer
<1>3. run[w] \in Running
  BY <1>1, <1>2 DEF NodeStep, ResumeAnalyzer, TopJobsHit, TopJobsMiss, JobSearch, Reranker,
     MatchScorer, At
<1>4. \A next \in Nodes \cup {"status"}, written \in SUBSET Keys, full \in SUBSET Keys :
        Return(w, next, written, full) =>
          /\ run'[w] \in Running /\ run'[w].match = run[w].match /\ run'[w].at = next
          /\ run' = [run EXCEPT ![w] = run'[w]]
  <2> SUFFICES ASSUME NEW next \in Nodes \cup {"status"}, NEW written \in SUBSET Keys,
                      NEW full \in SUBSET Keys, Return(w, next, written, full)
               PROVE  /\ run'[w] \in Running /\ run'[w].match = run[w].match
                      /\ run'[w].at = next /\ run' = [run EXCEPT ![w] = run'[w]]
    OBVIOUS
  <2>1. MatchState \subseteq Keys
    BY DEF Keys
  <2>2. next \in Steps
    BY DEF Steps, Finalizer
  <2> HIDE DEF Keys
  <2> QED
    BY <1>1, <1>3, <2>1, <2>2 DEF Return, Running
<1>5. \A S \in SUBSET {"resume_structured", "resume_embedding", "candidate_job_ids",
                       "_qdrant_results", "ranked_jobs", "scored_jobs"} : S \in SUBSET Keys
  BY DEF Keys, MatchState
<1>6. AfterStep["match_scorer"] = "status"
  BY DEF AfterStep
<1>7. CASE TopJobsMiss(w)
  BY <1>1, <1>2, <1>3, <1>7 DEF TopJobsMiss, Running, Steps, Nodes, redisVars
<1>8. CASE ResumeAnalyzer(w)
  BY <1>1, <1>2, <1>3, <1>4, <1>5, <1>8 DEF ResumeAnalyzer, Nodes, redisVars
<1>9. CASE TopJobsHit(w)
  BY <1>1, <1>2, <1>3, <1>4, <1>5, <1>9 DEF TopJobsHit, Nodes, redisVars
<1>10. CASE JobSearch(w)
  BY <1>1, <1>2, <1>3, <1>4, <1>5, <1>10 DEF JobSearch, Nodes
<1>11. CASE Reranker(w)
  BY <1>1, <1>2, <1>3, <1>4, <1>5, <1>11 DEF Reranker, Nodes, redisVars
<1>12. CASE MatchScorer(w)
  BY <1>1, <1>2, <1>3, <1>4, <1>5, <1>6, <1>12 DEF MatchScorer, redisVars
<1> QED
  BY <1>7, <1>8, <1>9, <1>10, <1>11, <1>12 DEF NodeStep

\* Leaving an await of the finalizer, by what the worker then runs
LEMMA AdvanceEffect ==
  ASSUME TypeOK, NEW w \in Workers, run[w].at \in Finalizer, Advance(w)
  PROVE  /\ run[w] \in Running
         /\ run' \in [Workers -> Running \cup {Idle}]
         /\ \A v \in Workers \ {w} : run'[v] = run[v]
         /\ run[w].at = "analytics" => run'[w] = Idle
         /\ run[w].at # "analytics" =>
              /\ run'[w] \in Running /\ run'[w].match = run[w].match
              /\ run[w].at = "status" => run'[w].at = "results"
              /\ run[w].at = "results" => run'[w].at = "push"
              /\ run[w].at = "push" => run'[w].at = "event"
              /\ run[w].at = "event" => run'[w].at = "analytics"
<1>1. run \in [Workers -> Running \cup {Idle}] /\ run[w] \in Running
  BY DEF TypeOK, Idle, Finalizer
<1>2. /\ AfterStep["status"] = "results" /\ AfterStep["results"] = "push"
      /\ AfterStep["push"] = "event" /\ AfterStep["event"] = "analytics"
      /\ AfterStep["analytics"] = "end"
  BY DEF AfterStep
<1>3. CASE run[w].at = "analytics"
  BY <1>1, <1>2, <1>3 DEF Advance
<1>4. CASE run[w].at # "analytics"
  <2>1. AfterStep[run[w].at] \in Steps
    BY <1>2, <1>4 DEF Finalizer, Steps
  <2>2. run' = [run EXCEPT ![w] = [run[w] EXCEPT !.at = AfterStep[run[w].at]]]
    BY <1>1, <1>2, <1>4 DEF Advance, Finalizer
  <2>3. [run[w] EXCEPT !.at = AfterStep[run[w].at]] \in Running
    BY <1>1, <2>1 DEF Running
  <2> QED
    BY <1>1, <1>2, <1>4, <2>2, <2>3 DEF Finalizer, Running
<1> QED
  BY <1>3, <1>4

\* A worker that runs something runs a match of Matches.
LEMMA Ready ==
  ASSUME TypeOK, NEW w \in Workers
  PROVE  /\ run[w] = Idle <=> run[w].at = "end"
         /\ run[w] # Idle => run[w] \in Running
         /\ run[w] # Idle => run[w].match \in Matches
BY DEF TypeOK, Idle, Running, Steps, Nodes, Finalizer

\* Every step keeps the types.
LEMMA TypeStep == TypeOK /\ [Next]_vars => TypeOK'
<1> SUFFICES ASSUME TypeOK, [Next]_vars PROVE TypeOK'
  OBVIOUS
<1>1. ASSUME NEW m \in Matches,
             MarkQueued(m) \/ Enqueue(m) \/ Accept(m) \/ RequestFails(m) PROVE TypeOK'
  BY <1>1 DEF TypeOK, MarkQueued, Enqueue, Accept, RequestFails, redisVars, eventVars
<1>2. ASSUME NEW m \in Matches, SocketStep(m) PROVE TypeOK'
  BY <1>2 DEF TypeOK, SocketStep, OpenSocket, Subscribe, SendUpdate, SocketFails, Sockets,
     redisVars, eventVars
<1>3. ASSUME NEW m \in Matches, ReadStatus(m) PROVE TypeOK'
  <2>1. /\ Unasked \in Polls \cup {Unasked}
        /\ statusKey[m] # "none" =>
             [at |-> "status", status |-> statusKey[m], results |-> FALSE,
              watched |-> socket[m], told |-> m \in pushed] \in Polls
    BY DEF TypeOK, Polls
  <2> QED
    BY <1>3, <2>1 DEF TypeOK, ReadStatus, redisVars, eventVars
<1>4. ASSUME NEW m \in Matches, ReadResults(m) PROVE TypeOK'
  <2>1. poll[m] \in Polls
    BY <1>4 DEF TypeOK, ReadResults, Unasked
  <2>2. poll'[m] \in Polls /\ poll' = [poll EXCEPT ![m] = poll'[m]]
    BY <1>4, <2>1 DEF TypeOK, ReadResults, Polls
  <2> QED
    BY <1>4, <2>2 DEF TypeOK, ReadResults, redisVars, eventVars
<1>5. ASSUME NEW m \in Matches, StatusExpires(m) \/ ResultsExpire(m) PROVE TypeOK'
  BY <1>5 DEF TypeOK, StatusExpires, ResultsExpire, eventVars
<1>6. ASSUME NEW w \in Workers, NEW m \in Matches, Take(w, m) PROVE TypeOK'
  <2>1. [match |-> m, at |-> "resume_analyzer", keys |-> RequestKeys \cap MatchState,
         full |-> RequestKeys \cap MatchState] \in Running
    BY DEF Running, Keys, Steps, Nodes
  <2> QED
    BY <1>6, <2>1 DEF TypeOK, Take, redisVars, eventVars
<1>7. ASSUME NEW w \in Workers, RunFails(w) \/ PublishRaises(w) PROVE TypeOK'
  BY <1>7 DEF TypeOK, RunFails, PublishRaises, redisVars, eventVars
<1>8. ASSUME NEW w \in Workers, NodeStep(w) PROVE TypeOK'
  BY <1>8, NodeEffect DEF TypeOK, eventVars
<1>9. ASSUME NEW w \in Workers,
             SetStatus(w) \/ SetResults(w) \/ Push(w) \/ PublishCompleted(w)
             \/ PublishAnalytics(w)
      PROVE  TypeOK'
  <2>1. run[w].at \in Finalizer /\ Advance(w)
    BY <1>9 DEF SetStatus, SetResults, Push, PublishCompleted, PublishAnalytics, At,
      Finalizer
  <2>2. run[w] # Idle /\ run[w].match \in Matches
    BY <2>1 DEF TypeOK, Idle, Finalizer, Running
  <2>3. run' \in [Workers -> Running \cup {Idle}]
    BY <2>1, <2>2, AdvanceEffect, Ready DEF TypeOK
  <2>4. CASE Push(w)
    BY <2>2, <2>3, <2>4 DEF TypeOK, Push, Sockets, redisVars
  <2>5. CASE SetStatus(w) \/ SetResults(w)
    BY <2>2, <2>3, <2>5 DEF TypeOK, SetStatus, SetResults, eventVars
  <2>6. CASE PublishCompleted(w) \/ PublishAnalytics(w)
    BY <2>2, <2>3, <2>6 DEF TypeOK, PublishCompleted, PublishAnalytics, redisVars
  <2> QED
    BY <1>9, <2>4, <2>5, <2>6
<1>10. CASE TopJobsExpire
  BY <1>10 DEF TypeOK, TopJobsExpire, eventVars
<1>11. CASE UNCHANGED vars
  BY <1>11 DEF TypeOK, vars, redisVars, eventVars
<1> QED
  BY <1>1, <1>2, <1>3, <1>4, <1>5, <1>6, <1>7, <1>8, <1>9, <1>10, <1>11 DEF Next, NodeStep

\* A step of the finalizer takes its worker one await further and leaves the
\* others where they are.
LEMMA FinalizerEffect ==
  ASSUME TypeOK, NEW w \in Workers,
         SetStatus(w) \/ SetResults(w) \/ Push(w) \/ PublishCompleted(w) \/ PublishAnalytics(w)
  PROVE  /\ run[w].match \in Matches /\ run[w] # Idle
         /\ \A v \in Workers \ {w} : run'[v] = run[v]
         /\ run'[w] # Idle => run'[w].match = run[w].match
         /\ SetStatus(w) => run'[w].at = "results"
         /\ SetResults(w) => run'[w].at = "push"
         /\ Push(w) => run'[w].at = "event"
         /\ PublishCompleted(w) => run'[w].at = "analytics"
         /\ PublishAnalytics(w) => run'[w] = Idle
<1>1. run[w].at \in Finalizer /\ Advance(w)
  BY DEF SetStatus, SetResults, Push, PublishCompleted, PublishAnalytics, At, Finalizer
<1>2. run[w] # Idle
  BY <1>1 DEF Idle, Finalizer
<1>3. \A r \in Running : r.match \in Matches
  BY DEF Running
<1>4. /\ SetStatus(w) => run[w].at = "status"
      /\ SetResults(w) => run[w].at = "results"
      /\ Push(w) => run[w].at = "push"
      /\ PublishCompleted(w) => run[w].at = "event"
      /\ PublishAnalytics(w) => run[w].at = "analytics"
  BY DEF SetStatus, SetResults, Push, PublishCompleted, PublishAnalytics, At
<1> QED
  BY <1>1, <1>2, <1>3, <1>4, AdvanceEffect

\* request_match writes the status of a new match only, and an event or a run
\* exists only after that.
LEMMA StartedStep ==
  ASSUME IInv, [Next]_vars
  PROVE  Started'
<1> USE DEF Started
<1>1. TypeOK /\ Started
  BY DEF IInv
<1>2. ASSUME NEW m \in Matches,
             \/ MarkQueued(m) \/ Enqueue(m) \/ Accept(m) \/ RequestFails(m)
             \/ StatusExpires(m) \/ ResultsExpire(m)
      PROVE  Started'
  BY <1>1, <1>2 DEF TypeOK, MarkQueued, Enqueue, Accept, RequestFails, StatusExpires,
     ResultsExpire, redisVars, eventVars
<1>3. ASSUME NEW m \in Matches,
             SocketStep(m) \/ ReadStatus(m) \/ ReadResults(m)
      PROVE  Started'
  BY <1>1, <1>3 DEF SocketStep, OpenSocket, Subscribe, SendUpdate, SocketFails,
    ReadStatus, ReadResults, redisVars, eventVars
<1>4. ASSUME NEW w \in Workers, NEW m \in Matches, Take(w, m) PROVE Started'
  BY <1>1, <1>4 DEF TypeOK, Take, redisVars, eventVars
<1>5. ASSUME NEW w \in Workers, RunFails(w) \/ PublishRaises(w) PROVE Started'
  BY <1>1, <1>5 DEF TypeOK, RunFails, PublishRaises, redisVars, eventVars
<1>6. ASSUME NEW w \in Workers, NodeStep(w) PROVE Started'
  BY <1>1, <1>6, NodeEffect DEF TypeOK, eventVars
<1>7. ASSUME NEW w \in Workers,
             SetStatus(w) \/ SetResults(w) \/ Push(w) \/ PublishCompleted(w)
             \/ PublishAnalytics(w)
      PROVE  Started'
  BY <1>1, <1>7, FinalizerEffect
  DEF TypeOK, SetStatus, SetResults, Push, PublishCompleted, PublishAnalytics, redisVars,
    eventVars
<1>8. CASE TopJobsExpire \/ UNCHANGED vars
  BY <1>1, <1>8 DEF TopJobsExpire, vars, redisVars, eventVars
<1> QED
  BY <1>2, <1>3, <1>4, <1>5, <1>6, <1>7, <1>8 DEF Next, NodeStep

\* Another run, an expiry or the request handler takes nothing away from what
\* the finalizer has written, unless it marks the match as lapsed.
LEMMA WrittenStep ==
  ASSUME IInv, [Next]_vars
  PROVE  Written'
<1> USE DEF Written, Readable
<1>1. TypeOK /\ Started /\ Written /\ Pushed
  BY DEF IInv
<1> DEFINE Runs == \A w \in Workers : run[w].at # "end" => run[w].match \in requested
<1>2. Runs /\ \A w \in Workers : run[w].at # "end" => run[w].match \in Matches
  BY <1>1, Ready DEF Started
<1>3. ASSUME NEW m \in Matches, MarkQueued(m) PROVE Written'
  BY <1>1, <1>2, <1>3 DEF Started, TypeOK, MarkQueued, eventVars
<1>4. ASSUME NEW m \in Matches,
             \/ Enqueue(m) \/ Accept(m) \/ RequestFails(m)
             \/ SocketStep(m) \/ ReadStatus(m) \/ ReadResults(m)
      PROVE  Written'
  BY <1>1, <1>4 DEF Enqueue, Accept, RequestFails, SocketStep, OpenSocket, Subscribe,
     SendUpdate, SocketFails, ReadStatus, ReadResults, redisVars, eventVars
<1>5. ASSUME NEW m \in Matches, StatusExpires(m) \/ ResultsExpire(m) PROVE Written'
  BY <1>1, <1>2, <1>5 DEF TypeOK, StatusExpires, ResultsExpire, eventVars
<1>6. ASSUME NEW w \in Workers, NEW m \in Matches, Take(w, m) PROVE Written'
  BY <1>1, <1>6 DEF TypeOK, Take, redisVars, eventVars
<1>7. ASSUME NEW w \in Workers, RunFails(w) \/ PublishRaises(w) PROVE Written'
  BY <1>1, <1>7 DEF TypeOK, RunFails, PublishRaises, Idle, redisVars, eventVars
<1>8. ASSUME NEW w \in Workers, NodeStep(w) PROVE Written'
  BY <1>1, <1>8, NodeEffect DEF TypeOK, Nodes, eventVars
<1>9. ASSUME NEW w \in Workers, SetStatus(w) PROVE Written'
  <2>1. /\ run[w].match \in Matches /\ run'[w].at = "results"
        /\ run'[w] # Idle => run'[w].match = run[w].match
        /\ \A v \in Workers \ {w} : run'[v] = run[v]
    BY <1>1, <1>9, FinalizerEffect
  <2>2. /\ \A m \in Matches : statusKey'[m] = IF m = run[w].match THEN "done" ELSE statusKey[m]
        /\ \A m \in Matches : resultsKey[m] # "none" => resultsKey'[m] # "none"
        /\ UNCHANGED <<lapsed, pushed, completed>>
    BY <1>1, <1>9, <2>1 DEF TypeOK, SetStatus, eventVars
  <2>3. run'[w] # Idle
    BY <2>1 DEF Idle
  <2> QED
    BY <1>1, <1>2, <2>1, <2>2, <2>3
<1>10. ASSUME NEW w \in Workers, SetResults(w) PROVE Written'
  <2>1. /\ run[w].match \in Matches /\ run[w].at = "results" /\ run'[w].at = "push"
        /\ run'[w] # Idle => run'[w].match = run[w].match
        /\ \A v \in Workers \ {w} : run'[v] = run[v]
    BY <1>1, <1>10, FinalizerEffect DEF SetResults, At
  <2>2. /\ \A m \in Matches : resultsKey'[m] = IF m = run[w].match THEN "newer" ELSE resultsKey[m]
        /\ UNCHANGED <<statusKey, lapsed, pushed, completed>>
    BY <1>1, <1>10, <2>1 DEF TypeOK, SetResults, eventVars
  <2>3. run'[w] # Idle
    BY <2>1 DEF Idle
  <2> QED
    BY <1>1, <1>2, <2>1, <2>2, <2>3
<1>11. ASSUME NEW w \in Workers, Push(w) \/ PublishCompleted(w) \/ PublishAnalytics(w)
       PROVE  Written'
  BY <1>1, <1>2, <1>11, FinalizerEffect
  DEF Push, PublishCompleted, PublishAnalytics, At, Idle, redisVars
<1>12. CASE TopJobsExpire \/ UNCHANGED vars
  BY <1>1, <1>12 DEF TopJobsExpire, vars, redisVars, eventVars
<1> QED
  BY <1>3, <1>4, <1>5, <1>6, <1>7, <1>8, <1>9, <1>10, <1>11, <1>12 DEF Next, NodeStep

\* The same for the matches whose update has been published.
LEMMA PushedStep ==
  ASSUME IInv, [Next]_vars
  PROVE  Pushed'
<1> USE DEF Pushed, Readable
<1>1. TypeOK /\ Started /\ Written /\ Pushed
  BY DEF IInv
<1>2. pushed \subseteq Matches
  BY <1>1 DEF TypeOK
<1>3. ASSUME NEW m \in Matches, MarkQueued(m) PROVE Pushed'
  <2>1. m \notin pushed
    BY <1>1, <1>3 DEF Started, MarkQueued
  <2> QED
    BY <1>1, <1>2, <1>3, <2>1 DEF TypeOK, MarkQueued, eventVars
<1>4. ASSUME NEW m \in Matches,
             \/ Enqueue(m) \/ Accept(m) \/ RequestFails(m)
             \/ SocketStep(m) \/ ReadStatus(m) \/ ReadResults(m)
      PROVE  Pushed'
  BY <1>1, <1>4 DEF Enqueue, Accept, RequestFails, SocketStep, OpenSocket, Subscribe,
     SendUpdate, SocketFails, ReadStatus, ReadResults, redisVars, eventVars
<1>5. ASSUME NEW m \in Matches, StatusExpires(m) \/ ResultsExpire(m) PROVE Pushed'
  BY <1>1, <1>2, <1>5 DEF TypeOK, StatusExpires, ResultsExpire, eventVars
<1>6. ASSUME NEW w \in Workers, NEW m \in Matches, Take(w, m) PROVE Pushed'
  BY <1>1, <1>6 DEF Take, redisVars, eventVars
<1>7. ASSUME NEW w \in Workers, RunFails(w) \/ PublishRaises(w) PROVE Pushed'
  BY <1>1, <1>7 DEF RunFails, PublishRaises, redisVars, eventVars
<1>8. ASSUME NEW w \in Workers, NodeStep(w) PROVE Pushed'
  BY <1>1, <1>8, NodeEffect DEF eventVars
<1>9. ASSUME NEW w \in Workers, SetStatus(w) PROVE Pushed'
  <2>1. /\ run[w].match \in Matches
        /\ \A m \in Matches : statusKey'[m] = IF m = run[w].match THEN "done" ELSE statusKey[m]
        /\ \A m \in Matches : resultsKey[m] # "none" => resultsKey'[m] # "none"
    BY <1>1, <1>9, FinalizerEffect DEF TypeOK, SetStatus
  <2> QED
    BY <1>1, <1>2, <1>9, <2>1 DEF SetStatus, eventVars
<1>10. ASSUME NEW w \in Workers, SetResults(w) PROVE Pushed'
  <2>1. /\ run[w].match \in Matches
        /\ \A m \in Matches : resultsKey'[m] = IF m = run[w].match THEN "newer" ELSE resultsKey[m]
    BY <1>1, <1>10, FinalizerEffect DEF TypeOK, SetResults
  <2> QED
    BY <1>1, <1>2, <1>10, <2>1 DEF SetResults, eventVars
<1>11. ASSUME NEW w \in Workers, Push(w) PROVE Pushed'
  <2>1. /\ run[w].at = "push" /\ run[w] # Idle /\ run[w].match \in requested
        /\ statusKey[run[w].match] # "queued" /\ Readable(run[w].match)
    BY <1>1, <1>11, FinalizerEffect DEF Push, At, Started, Written
  <2> QED
    BY <1>1, <1>11, <2>1 DEF Push, redisVars
<1>12. ASSUME NEW w \in Workers, PublishCompleted(w) PROVE Pushed'
  <2>1. run[w].match \in pushed
    BY <1>1, <1>12 DEF PublishCompleted, At, Written
  <2> QED
    BY <1>1, <1>12, <2>1 DEF PublishCompleted, redisVars
<1>13. ASSUME NEW w \in Workers, PublishAnalytics(w) PROVE Pushed'
  <2>1. run[w].match \in completed
    BY <1>1, <1>13 DEF PublishAnalytics, At, Written
  <2> QED
    BY <1>1, <1>13, <2>1 DEF PublishAnalytics, redisVars
<1>14. CASE TopJobsExpire \/ UNCHANGED vars
  BY <1>1, <1>14 DEF TopJobsExpire, vars, redisVars, eventVars
<1> QED
  BY <1>3, <1>4, <1>5, <1>6, <1>7, <1>8, <1>9, <1>10, <1>11, <1>12, <1>13, <1>14
  DEF Next, NodeStep

\* What a client has seen: its poll changes only in its own steps, and what
\* happens to the match between the poll's two reads only helps its answer.
LEMMA PolledStep ==
  ASSUME IInv, [Next]_vars
  PROVE  Polled'
<1> USE DEF Polled
<1>1. TypeOK /\ Started /\ Written /\ Pushed /\ Polled
  BY DEF IInv
<1>2. ASSUME NEW m \in Matches,
             \/ MarkQueued(m) \/ Enqueue(m) \/ Accept(m) \/ RequestFails(m)
      PROVE  Polled'
  BY <1>1, <1>2 DEF MarkQueued, Enqueue, Accept, RequestFails, redisVars, eventVars
<1>3. ASSUME NEW m \in Matches, SocketStep(m) PROVE Polled'
  BY <1>1, <1>3 DEF TypeOK, SocketStep, OpenSocket, Subscribe, SendUpdate, SocketFails,
    Sockets,
     redisVars, eventVars
<1>4. ASSUME NEW m \in Matches, ReadStatus(m) PROVE Polled'
  <2> DEFINE asked == [at |-> "status", status |-> statusKey[m], results |-> FALSE,
                       watched |-> socket[m], told |-> m \in pushed]
  <2>1. \A n \in Matches \ {m} : poll'[n] = poll[n]
    BY <1>1, <1>4 DEF TypeOK, ReadStatus
  <2>2. poll'[m] \in {Unasked, asked}
    BY <1>1, <1>4 DEF TypeOK, ReadStatus
  <2>3. /\ asked.at = "status" /\ asked.status = statusKey[m]
        /\ asked.watched = socket[m]
        /\ asked.told <=> m \in pushed
    OBVIOUS
  <2>4. m \in pushed => statusKey[m] # "queued" /\ (lapsed[m] \/ statusKey[m] = "done")
    BY <1>1 DEF Pushed, Readable
  <2>5. UNCHANGED <<socket, pushed, gap, lapsed>>
    BY <1>4 DEF ReadStatus, redisVars, eventVars
  <2> HIDE DEF asked
  <2> QED
    BY <1>1, <2>1, <2>2, <2>3, <2>4, <2>5
<1>5. ASSUME NEW m \in Matches, ReadResults(m) PROVE Polled'
  <2>1. poll[m] \in Polls
    BY <1>1, <1>5 DEF TypeOK, ReadResults, Unasked
  <2>2. /\ \A n \in Matches \ {m} : poll'[n] = poll[n]
        /\ poll'[m].at = "answered" /\ poll'[m].results = (resultsKey[m] # "none")
        /\ poll'[m].status = poll[m].status /\ poll'[m].watched = poll[m].watched
        /\ poll'[m].told = poll[m].told
    BY <1>1, <1>5, <2>1 DEF TypeOK, ReadResults, Polls
  <2>3. m \in pushed => lapsed[m] \/ resultsKey[m] # "none"
    BY <1>1 DEF Pushed, Readable
  <2>4. UNCHANGED <<socket, pushed, gap, lapsed>>
    BY <1>5 DEF ReadResults, redisVars, eventVars
  <2>5. poll[m] # Unasked
    BY <1>5 DEF ReadResults, Unasked
  <2> QED
    BY <1>1, <2>2, <2>3, <2>4, <2>5
<1>6. ASSUME NEW m \in Matches, StatusExpires(m) \/ ResultsExpire(m) PROVE Polled'
  BY <1>1, <1>6 DEF TypeOK, StatusExpires, ResultsExpire, eventVars
<1>7. ASSUME NEW w \in Workers, NEW m \in Matches, Take(w, m) PROVE Polled'
  BY <1>1, <1>7 DEF Take, redisVars, eventVars
<1>8. ASSUME NEW w \in Workers, RunFails(w) \/ PublishRaises(w) PROVE Polled'
  BY <1>1, <1>8 DEF RunFails, PublishRaises, redisVars, eventVars
<1>9. ASSUME NEW w \in Workers, NodeStep(w) PROVE Polled'
  BY <1>1, <1>9, NodeEffect DEF eventVars
<1>10. ASSUME NEW w \in Workers,
              SetStatus(w) \/ SetResults(w) \/ PublishCompleted(w) \/ PublishAnalytics(w)
       PROVE  Polled'
  BY <1>1, <1>10 DEF SetStatus, SetResults, PublishCompleted, PublishAnalytics, redisVars,
     eventVars
<1>11. ASSUME NEW w \in Workers, Push(w) PROVE Polled'
  <2>1. /\ run[w].match \in Matches
        /\ pushed' = pushed \cup {run[w].match}
        /\ \A m \in Matches : socket'[m] = IF m = run[w].match /\ socket[m] = "listening"
                                          THEN "notified" ELSE socket[m]
        /\ gap \subseteq gap'
        /\ socket[run[w].match] = "open" => run[w].match \in gap'
        /\ UNCHANGED <<poll, lapsed>>
    BY <1>1, <1>11, FinalizerEffect DEF TypeOK, Push, redisVars
  <2> QED
    BY <1>1, <2>1
<1>12. CASE TopJobsExpire \/ UNCHANGED vars
  BY <1>1, <1>12 DEF TopJobsExpire, vars, redisVars, eventVars
<1> QED
  BY <1>2, <1>3, <1>4, <1>5, <1>6, <1>7, <1>8, <1>9, <1>10, <1>11, <1>12 DEF Next, NodeStep

\* The invariant is inductive.
LEMMA InvCorrect == Spec => []IInv
<1>1. Init => IInv
  <2> SUFFICES ASSUME Init PROVE IInv
    OBVIOUS
  <2>1. TypeOK
    BY DEF Init, TypeOK, Sockets
  <2>2. Started /\ Written
    BY DEF Init, Started, Written, Idle
  <2>3. Pushed /\ Polled
    BY DEF Init, Pushed, Polled
  <2> QED
    BY <2>1, <2>2, <2>3 DEF IInv
<1>2. IInv /\ [Next]_vars => IInv'
  <2> SUFFICES ASSUME IInv, [Next]_vars PROVE IInv'
    OBVIOUS
  <2>1. TypeOK'
    BY TypeStep DEF IInv
  <2> QED
    BY <2>1, StartedStep, WrittenStep, PushedStep, PolledStep DEF IInv
<1> QED
  BY <1>1, <1>2, PTL DEF Spec

\* Every variable keeps its type: no run is ever at an unknown await.
THEOREM TypeCorrect == Spec => []TypeOK
<1>1. IInv => TypeOK
  BY DEF IInv
<1> QED
  BY <1>1, InvCorrect, PTL

\* A client told "queued" after its socket was opened has its update still to
\* come, unless it was published between the accept and the SUBSCRIBE.
THEOREM UpdateMissedOnlyInGap == Spec => []MissedOnlyInGap
<1>1. IInv => MissedOnlyInGap
  BY DEF IInv, MissedOnlyInGap, Polled, Unasked
<1> QED
  BY <1>1, InvCorrect, PTL

\* Whoever has been told of the end of a match can read its results, until a
\* key expires, whatever other runs of the same match are writing.
THEOREM UpdateReadable == Spec => []UpdateIsReadable
<1>1. IInv => UpdateIsReadable
  BY DEF IInv, UpdateIsReadable, Polled, Unasked
<1> QED
  BY <1>1, InvCorrect, PTL

\* The events downstream follow the update, and the update the results.
THEOREM CompletionOrdered == Spec => []CompletionOrder
<1>1. IInv => CompletionOrder
  BY DEF IInv, CompletionOrder, TypeOK, Pushed, Readable
<1> QED
  BY <1>1, InvCorrect, PTL

\* A status that was once "done" never reads "queued" again.
THEOREM DoneIsFinal == Spec => DoneStays
<1>1. IInv /\ [Next]_vars =>
        [\A m \in Matches : statusKey[m] = "done" => statusKey'[m] # "queued"]_vars
  <2> SUFFICES ASSUME IInv, [Next]_vars, NEW m \in Matches, statusKey[m] = "done"
               PROVE  statusKey'[m] # "queued"
    OBVIOUS
  <2>1. ASSUME NEW n \in Matches, MarkQueued(n) PROVE statusKey'[m] # "queued"
    BY <2>1 DEF IInv, TypeOK, Started, MarkQueued
  <2>2. ASSUME NEW n \in Matches, StatusExpires(n) PROVE statusKey'[m] # "queued"
    BY <2>2 DEF IInv, TypeOK, StatusExpires
  <2>3. ASSUME NEW w \in Workers, SetStatus(w) PROVE statusKey'[m] # "queued"
    BY <2>3 DEF IInv, TypeOK, SetStatus
  <2>4. ASSUME NEW w \in Workers, NodeStep(w) PROVE statusKey'[m] # "queued"
    BY <2>4, NodeEffect DEF IInv
  <2>5. CASE UNCHANGED statusKey
    BY <2>5
  <2>6. ASSUME NEW n \in Matches,
               \/ Enqueue(n) \/ Accept(n) \/ RequestFails(n) \/ SocketStep(n)
               \/ ReadStatus(n) \/ ReadResults(n) \/ ResultsExpire(n)
               \/ \E w \in Workers : Take(w, n)
        PROVE  UNCHANGED statusKey
    BY <2>6 DEF Enqueue, Accept, RequestFails, SocketStep, OpenSocket, Subscribe,
      SendUpdate, SocketFails, ReadStatus, ReadResults,
       ResultsExpire, Take, redisVars
  <2>7. ASSUME NEW w \in Workers,
               \/ RunFails(w) \/ PublishRaises(w) \/ SetResults(w) \/ Push(w)
               \/ PublishCompleted(w) \/ PublishAnalytics(w)
        PROVE  UNCHANGED statusKey
    BY <2>7 DEF RunFails, PublishRaises, SetResults, Push, PublishCompleted,
      PublishAnalytics,
       redisVars
  <2>8. TopJobsExpire \/ UNCHANGED vars => UNCHANGED statusKey
    BY DEF TopJobsExpire, vars, redisVars
  <2> QED
    BY <2>1, <2>2, <2>3, <2>4, <2>5, <2>6, <2>7, <2>8 DEF Next, NodeStep
<1> QED
  BY <1>1, InvCorrect, PTL DEF Spec, DoneStays

\* The keys of a run at each of its nodes: those of the request are carried to
\* the end, what resume_analyzer adds to every later node, and the ranking to
\* the scorer.
Carried ==
  \A w \in Workers : run[w] # Idle =>
    /\ {"match_id", "user_id", "resume_id", "filters"} \subseteq run[w].keys
    /\ At(w, "resume_analyzer")
         \/ {"resume_structured", "resume_embedding"} \subseteq run[w].keys
    /\ At(w, "match_scorer") => "ranked_jobs" \in run[w].keys

\* A node that returns keeps the keys of the schema and adds to them.
LEMMA ReturnKeeps ==
  ASSUME TypeOK, NEW w \in Workers, run[w] # Idle,
         NEW next \in Steps, NEW written \in SUBSET Keys, NEW full \in SUBSET Keys,
         Return(w, next, written, full)
  PROVE  /\ \A v \in Workers \ {w} : run'[v] = run[v]
         /\ run'[w].at = next
         /\ run'[w].keys = (run[w].keys \cup written) \cap MatchState
<1>1. run \in [Workers -> Running \cup {Idle}] /\ run[w] \in Running
  BY DEF TypeOK
<1> HIDE DEF Keys
<1> QED
  BY <1>1 DEF Return, Running

\* Of these only the ones just filled, or not written again, hold anything.
LEMMA ReturnFills ==
  ASSUME TypeOK, NEW w \in Workers, run[w] # Idle,
         NEW next \in Steps, NEW written \in SUBSET Keys, NEW full \in SUBSET Keys,
         Return(w, next, written, full)
  PROVE  /\ \A v \in Workers \ {w} : run'[v] = run[v]
         /\ run'[w].full = ((run[w].full \ written) \cup full) \cap MatchState
<1>1. run \in [Workers -> Running \cup {Idle}] /\ run[w] \in Running
  BY DEF TypeOK
<1> HIDE DEF Keys
<1> QED
  BY <1>1 DEF Return, Running

\* Each step leaves its run the keys of the node it goes to.
LEMMA CarriedStep == TypeOK /\ Carried /\ [Next]_vars => Carried'
<1> SUFFICES ASSUME TypeOK, Carried, [Next]_vars PROVE Carried'
  OBVIOUS
<1> USE DEF Carried
<1>1. run \in [Workers -> Running \cup {Idle}]
  BY DEF TypeOK
<1>2. \A w \in Workers : run[w] = Idle <=> run[w].at = "end"
  BY Ready
<1>3. ASSUME NEW w \in Workers, NEW m \in Matches, Take(w, m) PROVE Carried'
  BY <1>1, <1>3 DEF Take, At, RequestKeys, MatchState
<1>4. ASSUME NEW w \in Workers, RunFails(w) \/ PublishRaises(w) PROVE Carried'
  BY <1>1, <1>4 DEF RunFails, PublishRaises, At
<1>5. ASSUME NEW w \in Workers, TopJobsMiss(w) PROVE Carried'
  <2>1. run[w] \in Running /\ run[w] # Idle
    BY <1>1, <1>2, <1>5 DEF TopJobsMiss, At, Idle
  <2>2. /\ \A v \in Workers \ {w} : run'[v] = run[v]
        /\ run'[w].at = "job_search" /\ run'[w].keys = run[w].keys
    BY <1>1, <1>5, <2>1 DEF TopJobsMiss, Running
  <2> QED
    BY <1>5, <2>1, <2>2 DEF TopJobsMiss, At
<1>6. ASSUME NEW w \in Workers,
             ResumeAnalyzer(w) \/ TopJobsHit(w) \/ JobSearch(w) \/ Reranker(w)
             \/ MatchScorer(w)
      PROVE  Carried'
  <2> DEFINE Lacks == At(w, "resume_analyzer")
  <2>1. run[w] # Idle
    BY <1>2, <1>6 DEF ResumeAnalyzer, TopJobsHit, JobSearch, Reranker, MatchScorer, At, Idle
  <2>2. \E next \in Steps, written \in SUBSET Keys, full \in SUBSET Keys :
          /\ Return(w, next, written, full)
          /\ next # "resume_analyzer"
          /\ Lacks => {"resume_structured", "resume_embedding"} \subseteq written
          /\ next = "match_scorer" => "ranked_jobs" \in written
    <3>1. CASE ResumeAnalyzer(w)
      BY <3>1 DEF ResumeAnalyzer, Steps, Nodes, Keys, MatchState
    <3>2. CASE TopJobsHit(w)
      BY <3>2 DEF TopJobsHit, At, Steps, Nodes, Keys, MatchState
    <3>3. CASE JobSearch(w)
      <4>1. PICK full \in {{}, {"candidate_job_ids", "_qdrant_results"}} :
              Return(w, "reranker", {"candidate_job_ids", "_qdrant_results"}, full)
        BY <3>3 DEF JobSearch
      <4>2. ~Lacks
        BY <3>3 DEF JobSearch, At
      <4>3. /\ "reranker" \in Steps /\ full \in SUBSET Keys
            /\ {"candidate_job_ids", "_qdrant_results"} \in SUBSET Keys
        BY DEF Steps, Nodes, Keys, MatchState
      <4> QED
        BY <4>1, <4>2, <4>3
    <3>4. CASE Reranker(w)
      BY <3>4 DEF Reranker, At, Steps, Nodes, Keys, MatchState
    <3>5. CASE MatchScorer(w)
      <4>1. AfterStep["match_scorer"] = "status"
        BY DEF AfterStep
      <4> QED
        BY <3>5, <4>1 DEF MatchScorer, At, Steps, Finalizer, Keys, MatchState
    <3> QED
      BY <1>6, <3>1, <3>2, <3>3, <3>4, <3>5
  <2>3. PICK next \in Steps, written \in SUBSET Keys, full \in SUBSET Keys :
          /\ Return(w, next, written, full)
          /\ next # "resume_analyzer"
          /\ Lacks => {"resume_structured", "resume_embedding"} \subseteq written
          /\ next = "match_scorer" => "ranked_jobs" \in written
    BY <2>2
  <2>4. /\ \A v \in Workers \ {w} : run'[v] = run[v]
        /\ run'[w].at = next
        /\ run'[w].keys = (run[w].keys \cup written) \cap MatchState
    BY <2>1, <2>3, ReturnKeeps
  <2>5. {"match_id", "user_id", "resume_id", "filters", "resume_structured",
         "resume_embedding", "ranked_jobs"} \subseteq MatchState
    BY DEF MatchState
  <2> QED
    BY <2>1, <2>3, <2>4, <2>5 DEF At
<1>7. ASSUME NEW w \in Workers,
             SetStatus(w) \/ SetResults(w) \/ Push(w) \/ PublishCompleted(w)
             \/ PublishAnalytics(w)
      PROVE  Carried'
  <2>1. run[w].at \in Finalizer /\ Advance(w)
    BY <1>7 DEF SetStatus, SetResults, Push, PublishCompleted, PublishAnalytics, At,
      Finalizer
  <2>2. run[w] # Idle /\ run[w] \in Running
    BY <1>1, <2>1 DEF Idle, Finalizer
  <2>3. /\ \A v \in Workers \ {w} : run'[v] = run[v]
        /\ run'[w] # Idle => run'[w].at \notin Nodes /\ run'[w].keys = run[w].keys
    BY <1>1, <2>1, <2>2 DEF Advance, AfterStep, Running, Finalizer, Nodes
  <2> QED
    BY <2>1, <2>2, <2>3 DEF At, Nodes, Finalizer
<1>8. CASE UNCHANGED run
  BY <1>8 DEF At
<1>9. TopJobsExpire \/ UNCHANGED vars => UNCHANGED run
  BY DEF TopJobsExpire, vars
<1>10. \A m \in Matches :
         \/ MarkQueued(m) \/ Enqueue(m) \/ Accept(m) \/ RequestFails(m)
         \/ SocketStep(m) \/ ReadStatus(m) \/ ReadResults(m)
         \/ StatusExpires(m) \/ ResultsExpire(m)
         => UNCHANGED run
  BY DEF MarkQueued, Enqueue, Accept, RequestFails, SocketStep, OpenSocket, Subscribe,
    SendUpdate, SocketFails, ReadStatus,
     ReadResults, StatusExpires, ResultsExpire
<1> QED
  BY <1>3, <1>4, <1>5, <1>6, <1>7, <1>8, <1>9, <1>10 DEF Next

\* No node subscripts a key that the graph has not carried to it, although the
\* schema filters what the nodes return at every edge.
THEOREM KeysArrive == Spec => []NodesFindTheirKeys
<1>1. Init => Carried
  BY DEF Init, Carried
<1>2. TypeOK /\ Carried => NodesFindTheirKeys
  BY Ready DEF Carried, NodesFindTheirKeys, Reads, At
<1> QED
  BY <1>1, <1>2, CarriedStep, TypeCorrect, PTL DEF Spec

(***************************************************************************)
(* What the ranking ends with                                              *)
(***************************************************************************)
\* No run ever has a job ranked or scored: the search results the reranker
\* needs are under a key the schema of the graph drops.
NothingRanked ==
  \A w \in Workers : run[w] # Idle =>
    run[w].full \cap {"_qdrant_results", "ranked_jobs", "scored_jobs"} = {}

\* No node turns a state without search results into one with a ranking.
LEMMA RankStep == TypeOK /\ NothingRanked /\ [Next]_vars => NothingRanked'
<1> SUFFICES ASSUME TypeOK, NothingRanked, [Next]_vars PROVE NothingRanked'
  OBVIOUS
<1> DEFINE Ranking == {"_qdrant_results", "ranked_jobs", "scored_jobs"}
<1>1. run \in [Workers -> Running \cup {Idle}] /\ \A w \in Workers : run[w] = Idle <=> run[w].at = "end"
  BY Ready DEF TypeOK
<1>2. ASSUME NEW w \in Workers, NEW m \in Matches, Take(w, m) PROVE NothingRanked'
  BY <1>1, <1>2 DEF NothingRanked, Take, RequestKeys, MatchState
<1>3. ASSUME NEW w \in Workers, RunFails(w) \/ PublishRaises(w) PROVE NothingRanked'
  BY <1>1, <1>3 DEF NothingRanked, RunFails, PublishRaises
<1>4. ASSUME NEW w \in Workers, TopJobsMiss(w) PROVE NothingRanked'
  <2>1. run[w] \in Running /\ run[w] # Idle
    BY <1>1, <1>4 DEF TopJobsMiss, At, Idle
  <2>2. (\A v \in Workers \ {w} : run'[v] = run[v]) /\ run'[w].full = run[w].full
    BY <1>1, <1>4, <2>1 DEF TopJobsMiss, Running
  <2> QED
    BY <2>1, <2>2 DEF NothingRanked
<1>5. ASSUME NEW w \in Workers,
             ResumeAnalyzer(w) \/ TopJobsHit(w) \/ JobSearch(w) \/ Reranker(w)
             \/ MatchScorer(w)
      PROVE  NothingRanked'
  <2>1. run[w] # Idle
    BY <1>1, <1>5 DEF ResumeAnalyzer, TopJobsHit, JobSearch, Reranker, MatchScorer, At, Idle
  <2>2. run[w].full \cap Ranking = {}
    BY <2>1 DEF NothingRanked
  <2>3. \E next \in Steps, written \in SUBSET Keys, full \in SUBSET Keys :
          Return(w, next, written, full) /\ full \cap Ranking \cap MatchState = {}
    <3>1. CASE ResumeAnalyzer(w)
      BY <3>1 DEF ResumeAnalyzer, Steps, Nodes, Keys, MatchState
    <3>2. CASE TopJobsHit(w)
      BY <3>2 DEF TopJobsHit, Steps, Nodes, Keys, MatchState
    <3>3. CASE JobSearch(w)
      <4> DEFINE out == {"candidate_job_ids", "_qdrant_results"}
      <4>1. PICK full \in {{}, out} : Return(w, "reranker", out, full)
        BY <3>3 DEF JobSearch
      <4>2. "reranker" \in Steps /\ full \in SUBSET Keys /\ out \in SUBSET Keys
        BY DEF Steps, Nodes, Keys, MatchState
      <4>3. full \cap Ranking \cap MatchState = {}
        BY DEF MatchState
      <4> QED
        BY <4>1, <4>2, <4>3
    <3>4. CASE Reranker(w)
      <4>1. Return(w, "match_scorer", {"ranked_jobs"}, {})
        BY <2>2, <3>4 DEF Reranker
      <4> QED
        BY <4>1 DEF Steps, Nodes, Keys, MatchState
    <3>5. CASE MatchScorer(w)
      <4>1. Return(w, "status", {"scored_jobs"}, {})
        BY <2>2, <3>5 DEF MatchScorer, AfterStep
      <4> QED
        BY <4>1 DEF Steps, Finalizer, Keys, MatchState
    <3> QED
      BY <1>5, <3>1, <3>2, <3>3, <3>4, <3>5
  <2>4. PICK next \in Steps, written \in SUBSET Keys, full \in SUBSET Keys :
          Return(w, next, written, full) /\ full \cap Ranking \cap MatchState = {}
    BY <2>3
  <2>5. /\ \A v \in Workers \ {w} : run'[v] = run[v]
        /\ run'[w].full = ((run[w].full \ written) \cup full) \cap MatchState
    BY <2>1, <2>4, ReturnFills
  <2>6. run'[w].full \cap Ranking = {}
    BY <2>2, <2>4, <2>5
  <2> QED
    BY <2>5, <2>6 DEF NothingRanked
<1>6. ASSUME NEW w \in Workers,
             SetStatus(w) \/ SetResults(w) \/ Push(w) \/ PublishCompleted(w)
             \/ PublishAnalytics(w)
      PROVE  NothingRanked'
  <2>1. run[w].at \in Finalizer /\ Advance(w)
    BY <1>6 DEF SetStatus, SetResults, Push, PublishCompleted, PublishAnalytics, At,
      Finalizer
  <2>2. run[w] # Idle /\ run[w] \in Running
    BY <1>1, <2>1 DEF Idle, Finalizer
  <2>3. /\ \A v \in Workers \ {w} : run'[v] = run[v]
        /\ run'[w] # Idle => run'[w].full = run[w].full
    BY <1>1, <2>1, <2>2 DEF Advance, AfterStep, Running, Finalizer
  <2> QED
    BY <2>2, <2>3 DEF NothingRanked
<1>7. CASE UNCHANGED run
  BY <1>7 DEF NothingRanked
<1>8. TopJobsExpire \/ UNCHANGED vars => UNCHANGED run
  BY DEF TopJobsExpire, vars
<1>9. \A m \in Matches :
        \/ MarkQueued(m) \/ Enqueue(m) \/ Accept(m) \/ RequestFails(m)
        \/ SocketStep(m) \/ ReadStatus(m) \/ ReadResults(m)
        \/ StatusExpires(m) \/ ResultsExpire(m)
        => UNCHANGED run
  BY DEF MarkQueued, Enqueue, Accept, RequestFails, SocketStep, OpenSocket, Subscribe,
    SendUpdate, SocketFails, ReadStatus,
     ReadResults, StatusExpires, ResultsExpire
<1> QED
  BY <1>2, <1>3, <1>4, <1>5, <1>6, <1>7, <1>8, <1>9 DEF Next

\* Every match, with whatever the retriever found, cached or not, is finished
\* with nothing ranked and nothing scored.
THEOREM EveryMatchIsEmpty == Spec => []NothingRanked
<1>1. Init => NothingRanked
  BY DEF Init, NothingRanked
<1> QED
  BY <1>1, RankStep, TypeCorrect, PTL DEF Spec

================================================================================
