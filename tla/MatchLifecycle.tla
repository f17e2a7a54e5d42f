----------------------------- MODULE MatchLifecycle -----------------------------
(***************************************************************************)
(* A match of the ai-orchestration service, from POST /match/request to the *)
(* client that polls its status or listens on its WebSocket.                *)
(*                                                                         *)
(* The request handler, the status handler, the WebSocket handler and the   *)
(* runs of the LangGraph pipeline share nothing but Redis: two keys per     *)
(* match, a pub/sub channel per match, and the top_jobs cache.  Every await *)
(* is a point where the others may run, so an action is the code between    *)
(* two awaits.  What consumes match.requested and invokes MatchGraph is not *)
(* in the repository: here it is any number of workers that deliver an      *)
(* event at least once, may run it twice at a time, and may crash.          *)
(***************************************************************************)
EXTENDS FiniteSets

CONSTANTS Matches,  \* match ids
          Workers   \* processes that run the pipeline

VARIABLES
  request,     \* where request_match is for this match
  requested,   \* matches with an event in the topic match.requested
  statusKey,   \* Redis key match_status:<id>
  resultsKey,  \* Redis key match_results:<id>, older or newer than the status
  lapsed,      \* TRUE once one of the two keys has reached its TTL
  topJobs,     \* TRUE while the shared cache of candidate ids is filled
  run,         \* what each worker is running
  pushed,      \* matches whose "done" update has been published
  completed,   \* matches with an event in match.completed
  analytics,   \* matches with an event in analytics.match_completed
  gap,         \* history: updates published to a socket accepted and not subscribed
  socket,      \* a client's WebSocket for this match
  poll         \* a client's status request for this match

redisVars == <<statusKey, resultsKey, lapsed, topJobs>>
eventVars == <<requested, pushed, completed, analytics, gap>>
vars == <<request, redisVars, eventVars, run, socket, poll>>

\* Mutant: the schema of the graph forgets ranked_jobs.
MatchStateShort ==
  {"match_id", "user_id", "resume_id", "filters", "resume_structured",
   "resume_embedding", "candidate_job_ids", "scored_jobs", "error"}

MatchState ==
  {"match_id", "user_id", "resume_id", "filters", "resume_structured",
   "resume_embedding", "candidate_job_ids", "ranked_jobs", "scored_jobs", "error"}

\* What request_match puts in the event
RequestKeys == {"match_id", "user_id", "resume_id", "filters", "status", "created_at"}

Keys == MatchState \cup RequestKeys \cup {"_qdrant_results"}

Nodes == {"resume_analyzer", "job_retriever", "job_search", "reranker", "match_scorer"}
Finalizer == {"status", "results", "push", "event", "analytics"}
Steps == Nodes \cup Finalizer

\* Mutant: the finalizer pushes the update before it persists anything.
AfterStepPushFirst ==
  [match_scorer |-> "push", push |-> "status", status |-> "results",
   results |-> "event", event |-> "analytics", analytics |-> "end"]

\* Mutant: it pushes the update between the two keys.
AfterStepPushEarly ==
  [match_scorer |-> "status", status |-> "push", push |-> "results",
   results |-> "event", event |-> "analytics", analytics |-> "end"]

\* The awaits of finalizer_node, in their order
AfterStep ==
  [match_scorer |-> "status", status |-> "results", results |-> "push",
   push |-> "event", event |-> "analytics", analytics |-> "end"]

Idle == [at |-> "end"]
Running == [match : Matches, at : Steps, keys : SUBSET Keys, full : SUBSET Keys]
Unasked == [at |-> "start"]
Sockets == {"out", "open", "listening", "notified", "closed"}
Polls == [at : {"status", "answered"}, status : {"queued", "done"},
          results : BOOLEAN, watched : Sockets, told : BOOLEAN]

TypeOK ==
  /\ request \in [Matches -> {"new", "marked", "accepted", "failed"}]
  /\ requested \subseteq Matches
  /\ statusKey \in [Matches -> {"none", "queued", "done"}]
  /\ resultsKey \in [Matches -> {"none", "older", "newer"}]
  /\ lapsed \in [Matches -> BOOLEAN]
  /\ topJobs \in BOOLEAN
  /\ run \in [Workers -> Running \cup {Idle}]
  /\ pushed \subseteq Matches /\ completed \subseteq Matches /\ analytics \subseteq Matches
  /\ gap \subseteq Matches
  /\ socket \in [Matches -> Sockets]
  /\ poll \in [Matches -> Polls \cup {Unasked}]

Init ==
  /\ request = [m \in Matches |-> "new"]
  /\ requested = {} /\ pushed = {} /\ completed = {} /\ analytics = {} /\ gap = {}
  /\ statusKey = [m \in Matches |-> "none"]
  /\ resultsKey = [m \in Matches |-> "none"]
  /\ lapsed = [m \in Matches |-> FALSE]
  /\ topJobs = FALSE
  /\ run = [w \in Workers |-> Idle]
  /\ socket = [m \in Matches |-> "out"]
  /\ poll = [m \in Matches |-> Unasked]

(***************************************************************************)
(* request_match                                                           *)
(***************************************************************************)
MarkQueued(m) ==
  /\ request[m] = "new"
  /\ request' = [request EXCEPT ![m] = "marked"]
  /\ statusKey' = [statusKey EXCEPT ![m] = "queued"]
  /\ UNCHANGED <<eventVars, resultsKey, lapsed, topJobs, run, socket, poll>>

\* The broker has the event; the handler still waits for the acknowledgement.
Enqueue(m) ==
  /\ request[m] = "marked"
  /\ requested' = requested \cup {m}
  /\ UNCHANGED <<request, redisVars, run, pushed, completed, analytics, gap, socket, poll>>

\* Mutant: the status is written when the enqueue has returned.
AcceptMarks(m) ==
  /\ request[m] = "marked" /\ m \in requested
  /\ request' = [request EXCEPT ![m] = "accepted"]
  /\ statusKey' = [statusKey EXCEPT ![m] = "queued"]
  /\ UNCHANGED <<eventVars, resultsKey, lapsed, topJobs, run, socket, poll>>

Accept(m) ==
  /\ request[m] = "marked" /\ m \in requested
  /\ request' = [request EXCEPT ![m] = "accepted"]
  /\ UNCHANGED <<redisVars, eventVars, run, socket, poll>>

\* enqueue_match raises, with or without the event stored: the status stays.
RequestFails(m) ==
  /\ request[m] = "marked"
  /\ request' = [request EXCEPT ![m] = "failed"]
  /\ UNCHANGED <<redisVars, eventVars, run, socket, poll>>

(***************************************************************************)
(* A run of MatchGraph                                                     *)
(***************************************************************************)
\* A worker takes an event, for the first time or again.
Take(w, m) ==
  /\ run[w] = Idle /\ m \in requested
  /\ run' = [run EXCEPT ![w] =
       [match |-> m, at |-> "resume_analyzer",
        keys |-> RequestKeys \cap MatchState, full |-> RequestKeys \cap MatchState]]
  /\ UNCHANGED <<request, redisVars, eventVars, socket, poll>>

\* A node raises, or the worker stops: nothing records it.
RunFails(w) ==
  /\ run[w] # Idle
  /\ run' = [run EXCEPT ![w] = Idle]
  /\ UNCHANGED <<request, redisVars, eventVars, socket, poll>>

\* A node returns its state with "written" added, those in "full" not empty;
\* the graph keeps of it only the keys its schema declares.
Return(w, next, written, full) ==
  run' = [run EXCEPT
    ![w].at = next,
    ![w].keys = (@ \cup written) \cap MatchState,
    ![w].full = ((@ \ written) \cup full) \cap MatchState]

At(w, s) == run[w].at = s

ResumeAnalyzer(w) ==
  /\ At(w, "resume_analyzer")
  /\ LET out == {"resume_structured", "resume_embedding"}
     IN Return(w, "job_retriever", out, out)
  /\ UNCHANGED <<request, redisVars, eventVars, socket, poll>>

\* job_retriever_node up to the answer of the cache
TopJobsHit(w) ==
  /\ At(w, "job_retriever") /\ topJobs
  /\ \E full \in SUBSET {"candidate_job_ids"} :
       Return(w, "reranker", {"candidate_job_ids"}, full)
  /\ UNCHANGED <<request, redisVars, eventVars, socket, poll>>

TopJobsMiss(w) ==
  /\ At(w, "job_retriever") /\ ~topJobs
  /\ run' = [run EXCEPT ![w].at = "job_search"]
  /\ UNCHANGED <<request, redisVars, eventVars, socket, poll>>

\* The rest of it: the search, and what it found stored in the cache
JobSearch(w) ==
  /\ At(w, "job_search")
  /\ LET out == {"candidate_job_ids", "_qdrant_results"}
     IN \E full \in {{}, out} : Return(w, "reranker", out, full)
  /\ topJobs' = TRUE
  /\ UNCHANGED <<request, statusKey, resultsKey, lapsed, eventVars, socket, poll>>

Reranker(w) ==
  /\ At(w, "reranker")
  /\ Return(w, "match_scorer", {"ranked_jobs"},
            IF "_qdrant_results" \in run[w].full THEN {"ranked_jobs"} ELSE {})
  /\ UNCHANGED <<request, redisVars, eventVars, socket, poll>>

MatchScorer(w) ==
  /\ At(w, "match_scorer")
  /\ Return(w, AfterStep["match_scorer"], {"scored_jobs"},
            IF "ranked_jobs" \in run[w].full THEN {"scored_jobs"} ELSE {})
  /\ UNCHANGED <<request, redisVars, eventVars, socket, poll>>

(***************************************************************************)
(* finalizer_node                                                          *)
(***************************************************************************)
Advance(w) ==
  LET next == AfterStep[run[w].at]
  IN run' = IF next = "end" THEN [run EXCEPT ![w] = Idle] ELSE [run EXCEPT ![w].at = next]

SetStatus(w) ==
  /\ At(w, "status")
  /\ statusKey' = [statusKey EXCEPT ![run[w].match] = "done"]
  /\ resultsKey' = [resultsKey EXCEPT ![run[w].match] = IF @ = "none" THEN @ ELSE "older"]
  /\ Advance(w)
  /\ UNCHANGED <<request, lapsed, topJobs, eventVars, socket, poll>>

SetResults(w) ==
  /\ At(w, "results")
  /\ resultsKey' = [resultsKey EXCEPT ![run[w].match] = "newer"]
  /\ Advance(w)
  /\ UNCHANGED <<request, statusKey, lapsed, topJobs, eventVars, socket, poll>>

\* Pub/sub keeps nothing: only who listens now will see the update.
Push(w) ==
  /\ At(w, "push")
  /\ LET m == run[w].match
     IN /\ pushed' = pushed \cup {m}
        /\ socket' = [socket EXCEPT ![m] = IF @ = "listening" THEN "notified" ELSE @]
        /\ gap' = IF socket[m] = "open" THEN gap \cup {m} ELSE gap
  /\ Advance(w)
  /\ UNCHANGED <<request, redisVars, requested, completed, analytics, poll>>

PublishCompleted(w) ==
  /\ At(w, "event")
  /\ completed' = completed \cup {run[w].match}
  /\ Advance(w)
  /\ UNCHANGED <<request, redisVars, requested, pushed, analytics, gap, socket, poll>>

\* Mutant: the failed publish is swallowed and the node goes on.
PublishRaisesSwallowed(w) ==
  /\ At(w, "event") \/ At(w, "analytics")
  /\ Advance(w)
  /\ UNCHANGED <<request, redisVars, eventVars, socket, poll>>

\* get_producer or publish raises: the node, and with it the run, ends there.
PublishRaises(w) ==
  /\ At(w, "event") \/ At(w, "analytics")
  /\ run' = [run EXCEPT ![w] = Idle]
  /\ UNCHANGED <<request, redisVars, eventVars, socket, poll>>

PublishAnalytics(w) ==
  /\ At(w, "analytics")
  /\ analytics' = analytics \cup {run[w].match}
  /\ Advance(w)
  /\ UNCHANGED <<request, redisVars, requested, pushed, completed, gap, socket, poll>>

(***************************************************************************)
(* The client: match_websocket and get_match_status.  It learns the match   *)
(* id from the answer to its request.                                      *)
(***************************************************************************)
\* websocket.accept: the client sees its socket open.
OpenSocket(m) ==
  /\ request[m] = "accepted" /\ socket[m] = "out"
  /\ socket' = [socket EXCEPT ![m] = "open"]
  /\ UNCHANGED <<request, redisVars, eventVars, run, poll>>

\* Redis has the SUBSCRIBE; the handler does not look at the status.
Subscribe(m) ==
  /\ socket[m] = "open"
  /\ socket' = [socket EXCEPT ![m] = "listening"]
  /\ UNCHANGED <<request, redisVars, eventVars, run, poll>>

\* It sends the update and then ends: the test for the last message compares
\* bytes with the decoded text and raises, and "finally" unsubscribes.
SendUpdate(m) ==
  /\ socket[m] = "notified"
  /\ socket' = [socket EXCEPT ![m] = "closed"]
  /\ UNCHANGED <<request, redisVars, eventVars, run, poll>>

\* The connection to Redis or to the client is lost: the handler ends.
SocketFails(m) ==
  /\ socket[m] \in {"open", "listening", "notified"}
  /\ socket' = [socket EXCEPT ![m] = "closed"]
  /\ UNCHANGED <<request, redisVars, eventVars, run, poll>>

SocketStep(m) == OpenSocket(m) \/ Subscribe(m) \/ SendUpdate(m) \/ SocketFails(m)

\* Mutant: a missing status is not answered with 404.
ReadStatusUnchecked(m) ==
  /\ request[m] = "accepted" /\ poll[m].at # "status"
  /\ poll' = [poll EXCEPT ![m] =
       [at |-> "status", status |-> statusKey[m], results |-> FALSE,
        watched |-> socket[m], told |-> m \in pushed]]
  /\ UNCHANGED <<request, redisVars, eventVars, run, socket>>

\* The first of the two reads; without a status the answer is 404.
ReadStatus(m) ==
  /\ request[m] = "accepted" /\ poll[m].at # "status"
  /\ poll' = [poll EXCEPT ![m] =
       IF statusKey[m] = "none" THEN Unasked
       ELSE [at |-> "status", status |-> statusKey[m], results |-> FALSE,
             watched |-> socket[m], told |-> m \in pushed]]
  /\ UNCHANGED <<request, redisVars, eventVars, run, socket>>

ReadResults(m) ==
  /\ poll[m].at = "status"
  /\ poll' = [poll EXCEPT ![m].at = "answered", ![m].results = resultsKey[m] # "none"]
  /\ UNCHANGED <<request, redisVars, eventVars, run, socket>>

(***************************************************************************)
(* Redis drops keys at their TTL, the same for both keys of a match, so the *)
(* one written first goes first: the status, unless a later run renewed it  *)
(* and has not yet renewed the results, or ended in between.                *)
(***************************************************************************)
StatusExpires(m) ==
  /\ statusKey[m] # "none" /\ resultsKey[m] # "older"
  /\ statusKey' = [statusKey EXCEPT ![m] = "none"]
  /\ lapsed' = [lapsed EXCEPT ![m] = TRUE]
  /\ UNCHANGED <<request, resultsKey, topJobs, eventVars, run, socket, poll>>

ResultsExpire(m) ==
  /\ resultsKey[m] = "older" \/ (resultsKey[m] = "newer" /\ statusKey[m] = "none")
  /\ resultsKey' = [resultsKey EXCEPT ![m] = "none"]
  /\ lapsed' = [lapsed EXCEPT ![m] = TRUE]
  /\ UNCHANGED <<request, statusKey, topJobs, eventVars, run, socket, poll>>

TopJobsExpire ==
  /\ topJobs
  /\ topJobs' = FALSE
  /\ UNCHANGED <<request, statusKey, resultsKey, lapsed, eventVars, run, socket, poll>>

Next ==
  \/ \E m \in Matches :
       \/ MarkQueued(m) \/ Enqueue(m) \/ Accept(m) \/ RequestFails(m)
       \/ SocketStep(m) \/ ReadStatus(m) \/ ReadResults(m)
       \/ StatusExpires(m) \/ ResultsExpire(m)
       \/ \E w \in Workers : Take(w, m)
  \/ \E w \in Workers :
       \/ RunFails(w)
       \/ ResumeAnalyzer(w) \/ TopJobsHit(w) \/ TopJobsMiss(w) \/ JobSearch(w)
       \/ Reranker(w) \/ MatchScorer(w)
       \/ SetStatus(w) \/ SetResults(w) \/ Push(w)
       \/ PublishCompleted(w) \/ PublishRaises(w) \/ PublishAnalytics(w)
  \/ TopJobsExpire

Spec == Init /\ [][Next]_vars

(***************************************************************************)
(* Properties                                                              *)
(***************************************************************************)
\* A finished match is never shown as queued again, however late the request
\* handler's own write is and however often the event is run: request_match
\* writes "queued" before the event that lets a worker write "done" exists.
DoneStays ==
  [][\A m \in Matches : statusKey[m] = "done" => statusKey'[m] # "queued"]_vars

\* What a client that opens its socket first and polls next can miss.  If the
\* poll answered "queued" and the socket is still up, the update has not been
\* published, or it was published between the accept the client saw and the
\* SUBSCRIBE it did not see, and is lost: the client waits in vain.  It cannot
\* be lost once the handler had subscribed before the poll.  match_websocket
\* does not look at the status itself; this rests on the finalizer's order of
\* writes.
MissedOnlyInGap ==
  \A m \in Matches :
    /\ poll[m].at = "answered" /\ poll[m].status = "queued"
    /\ socket[m] \in {"open", "listening"}
    => /\ poll[m].watched = "listening" => m \notin pushed
       /\ poll[m].watched = "open" => m \notin pushed \/ m \in gap

\* A status request sent after the update was published answers "done" and
\* carries the results, as long as no key of the match has expired, although
\* it reads the two keys in two steps and a second run may be writing them.
UpdateIsReadable ==
  \A m \in Matches :
    poll[m].at = "answered" /\ poll[m].told /\ ~lapsed[m]
      => poll[m].status = "done" /\ poll[m].results

\* Downstream never hears of a match more than the client can see: the event
\* match.completed follows the update and the persisted results, the analytics
\* record follows match.completed, and a failed publish stops the run.
CompletionOrder ==
  /\ analytics \subseteq completed
  /\ completed \subseteq pushed
  /\ \A m \in completed : lapsed[m] \/ (statusKey[m] = "done" /\ resultsKey[m] # "none")

\* No node subscripts a key of the state that the graph does not carry to it.
Reads(s) ==
  CASE s = "resume_analyzer" -> {"resume_id"}
    [] s = "job_retriever"   -> {"resume_embedding", "filters"}
    [] s = "job_search"      -> {"resume_embedding", "filters", "match_id"}
    [] s = "reranker"        -> {"match_id"}
    [] s = "match_scorer"    -> {"ranked_jobs", "resume_structured", "match_id"}
    [] OTHER                 -> {"match_id", "user_id", "resume_id", "filters"}

NodesFindTheirKeys ==
  \A w \in Workers : run[w] # Idle => Reads(run[w].at) \subseteq run[w].keys

\* reranker.py:3: "Cross-encoder reranking + RRF fusion over top-200 ANN
\* candidates": when the retriever found candidates, the reranker ranks some.
CandidatesAreRanked ==
  \A w \in Workers :
    At(w, "match_scorer") /\ "candidate_job_ids" \in run[w].full
      => "ranked_jobs" \in run[w].full

================================================================================
