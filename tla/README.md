# A TLA+ development of the job matching platform

The repository holds four Python services (user, job, ai-orchestration, worker), a shared
library and an `ml` package. They share PostgreSQL, Redis, Qdrant, S3 and Kafka, and most
of what can go wrong happens between two `await`s: another coroutine runs, another process
rebalances, a write was done and the next one was not. The modules here model those steps,
TLC checks them on small instances, and TLAPS proves the main safety properties for every
value of the constants.

## 1. The system

| part | state it keeps | operations | talks to |
|---|---|---|---|
| LLM router (`llm_router.py`) | breaker per provider, in-process cache | `route`, `record_success`, `record_failure`, `is_available` | four LLM providers |
| Match API (`routes/match.py`, `background.py`) | Redis `match_status:*`, `match_results:*`, pub/sub channel | request, poll, WebSocket | Kafka `match.requested` |
| Match graph (`match_graph.py`, `nodes/*.py`) | graph state, Redis caches | five nodes, the finalizer's five writes | router, Qdrant, Redis, Kafka |
| Tailoring (`routes/tailor.py`), semantic cache | Redis keys, Qdrant points | stream, sync; get, set | router |
| Resume upload (`resume_service.py`, `db/session.py`) | rows, S3 objects | upload, list, get, delete | Kafka `resume.parse` |
| Accounts (`auth.py`, `users.py`) | users | register, login, preferences, delete | Kafka `user.deletion_requested` |
| Resume pipeline (`resume_pipeline_consumer.py`) | message in hand, offsets | consume, parse, publish, dead-letter, commit | Kafka, S3 |
| Job pipeline (`job_pipeline_consumer.py`) | batch, deadline, offsets | consume, normalise, upsert, publish, commit | Kafka, Qdrant |
| Resume analysis (`resume_analyzer.py`, `embedding_service.py`, `resume_loader.py`) | Redis `resume_analysis:*`, `resume_embedding:*` | load text, extract, embed, cache | user-service, router |
| Job store (`job_service.py`, `dedup_service.py`) | rows, Bloom filter | upsert, search, is_duplicate, mark_seen | PostgreSQL, Redis |
| Crawlers and scheduler | none of their own | crawl, enqueue scrape | Kafka `scrape.requested` |
| `ml`: reranker, embeddings, vLLM client | memoised models | pure functions, HTTP client | - |
| Celery tasks | placeholder cache keys | warm, notify | Redis |

Several topics have no consumer in the repository (`match.requested`, `resume.parsed`,
`resume.parse.failed`, `scrape.requested`, `user.deletion_requested`), and nothing invokes
`MatchGraph`. `match_graph.py` and its nodes import each other, so at this commit the import
fails; the modules describe what the handlers do once that is resolved.

What makes each part correct:

* router: the breaker's fields agree under any interleaving; an open breaker sheds load,
  stays open until tested, and does not shut a provider out for ever; every call ends;
* pipelines: nothing is acknowledged before it was dealt with, whoever crashes or is deposed;
* upload: the client's answer, the bucket, the table and the topic agree;
* match: what a client has seen is never taken back, and it can tell whether to go on waiting;
* resume analysis: what the two caches return is not older than their lifetimes allow;
* accounts: only who proved its password acts on an account, an account that was confirmed
  stays, and an update of preferences loses only to one that overlaps it;
* job store: a duplicate is the duplicate of something stored, a known posting passes for new
  only when Redis has lost its mark, and sessions that wait for each other end.

The full list of hazards, each at its line, is in `PROJECT.json`; those without a property
say why.

## 2. The modules

| module | models | status |
|---|---|---|
| `LLMRouter` | a router object and the coroutines in `route()` | checked, proved |
| `CircuitBreaker` | what one breaker promises: when it opens, lets calls through and closes | refined by `LLMRouter`, once per provider |
| `ConsumerGroup` | one Kafka partition and its group: the environment of both pipelines | checked through them |
| `AtLeastOnce` | what a group promises: settle, then acknowledge, in order, at most `AckLimit` at a time | refined by `ResumePipeline` and `JobPipeline` |
| `ResumePipeline` | the resume workers, EXTENDS `ConsumerGroup` | checked, proved |
| `JobPipeline` | the job workers, EXTENDS `ConsumerGroup` | checked, proved |
| `ResumeUpload` | uploads and deletions of a user, with their transactions | checked, proved |
| `MatchLifecycle` | a match: request, graph, finalizer, poll, WebSocket | checked, proved |
| `ResumeAnalysis` | runs of the node over the caches of one resume | checked, proved |
| `Accounts` | registration, login, authenticated requests, erasure | checked, proved |
| `JobStore` | database sessions calling `is_duplicate`, `mark_seen`, `upsert` | checked, proved |
| `*Proofs` | the theorems about the module they extend | |
| `MC*` | the small instances | |

How actions correspond to code. An action is what runs between two awaits, so other
coroutines and processes interleave exactly where the code lets them. Code that raises is an
action of its own next to the one that succeeds, and where the outcome of a call is unknown
to the caller (a lost acknowledgement of Kafka, a COMMIT that raised) the action allows both.

* **LLMRouter.** `call[c]` is a coroutine's place in `route()`. `Enter` runs from the call to
  the first provider await: cache lookup, choice of chain, the loop over closed breakers
  with the side effect of `is_available`. `Answer`, `Expire` and `HttpError` are the three
  ends the code handles, the last two running the loop on; `SdkError` and `Abandon` leave
  `route()` without touching the breaker, because only `TimeoutError` and `httpx.HTTPError`
  are caught. `Breaker(p)` maps the three fields of a provider to a `CircuitBreaker` whose
  `Straggle` is the provider's timeout plus the lag of the event loop. Time is a tick; ages replace time stamps and saturate past the reset timeout.
* **ConsumerGroup.** The coordinator's `owner` and a worker's belief `assigned` are separate,
  so a deposed worker goes on with what it holds. `pos` is the consumed position `commit()`
  sends. Commits of a worker that is not the owner are refused. `Undecodable` are the messages
  that are no JSON: the deserializer of `kafka.py:37` raises on them out of the iterator.
  `NotObjects` are those that are JSON and no object.
* **ResumePipeline.** `pc[w]` is the await the loop is at. The first commit is inside the
  `try`, so its failure goes to the dead-letter topic; a failure there leaves the loop and
  ends the process. So does an unreadable message (`TakeRaises`): the deserializer and
  `event.get` (line 25) are outside the inner `try`, nothing is settled or committed, and the
  message comes again to whoever holds the partition next. `Promise` is the refinement: offsets of the topic, the committed offset and
  the two result topics are the produced, acknowledged and settled messages, one per commit.
* **JobPipeline.** The batch is the set of its offsets plus its length. `expired` is the
  deadline, read only when a message arrives, as in the code. `_process_batch` swallows
  exceptions (`GiveUp`); the history variables `swallowed` and `dropped` record which jobs that
  cost and which `normalize_jobs` left out. A message that is no object makes `normalize_jobs`
  itself raise (`raw.get` in its warning), and the batch goes the way of any swallowed exception
  (`NormalizeRaises`); one that is no JSON ends the loop (`TakeRaises`). `Promise` counts both as settled, along with what was
  announced, and a commit acknowledges at most `BatchSize` messages.
* **ResumeUpload.** One row per request. `pending` is the open transactions; `Insert` waits
  for an open transaction holding the same version, as the unique index makes PostgreSQL do.
  `unique`, chosen at the start, is the schema: `scripts/init_db.sql:60` declares the constraint
  and the ORM model, from which the service creates missing tables, does not. That script stops
  before it when PostgreSQL refuses its line 33, a unique index without the partition key, so
  which of the two is deployed is open, and everything is checked and proved of both. A COMMIT
  that is sent and not answered may have taken effect, whether the request then fails
  (`CommitRaises`) or its process is dead (`Crash`); `doubtful` remembers these requests.
  `before` and `counted` remember the table each request picked its version from. Erasure of the
  account, which would take the rows along (`ON DELETE CASCADE`, `init_db.sql:50`), is not part of
  it. `Listed` and `Found` are the two queries: the first skips deleted rows.
* **MatchLifecycle.** The WebSocket handler has an await in `websocket.accept()` and one in
  `pubsub.subscribe()`: `OpenSocket` is what the client sees, `Subscribe` what Redis sees, and an
  update published between them is lost (`gap`). The two Redis keys carry no time stamps, only which was written last,
  which decides which expires first. A run's state is the set of keys present and the set
  of those not empty; `Return` filters both by `MatchState`, as the graph's schema does.
  Workers are external: they take an event any number of times, concurrently, and may crash.
  The node `resume_analyzer` is one step here ("populates its keys or raises"), and its caches
  are modelled in `ResumeAnalysis`; the concurrency inside `match_scorer` is abstracted, as
  none of the module's properties sees it.
* **ResumeAnalysis.** A key is its age (time since the text behind it was loaded) and the time
  it has left. `Start` and `StartCached` are the two answers of the cache, `Load` to
  `StoreEmbedding` the awaits that follow. The loader never raises: it returns `""` for an
  error, for a refusal (it sends no token, and user-service asks for one) and for a resume
  that is not parsed, so an age counts as much for a text that was missing.
* **Accounts.** An account is named by the registration that inserted it. `Authenticate` is `get_current_user`; `Reload` is
  the handler's own SELECT, which may return the object the session already holds (SQLAlchemy
  keeps it only weakly) with the preferences of before, or a fresh one. `Update` is the flush
  with its commit. When the merged preferences equal those the session loaded, SQLAlchemy sends
  nothing (`Changes`): the request is answered with success and whatever was committed in
  between stays. Otherwise the UPDATE is by primary key and the JSON column is written whole, so two
  of them overwrite each other without a conflict. Erasure is external: the topic has no
  consumer here.
* **JobStore.** `dirty` is what the session has changed in loaded rows and not sent, `held`
  what it has written in its open transaction. The next query flushes (`Flush`), and a write
  waits for the transaction that holds the row or the hash (`WaitsFor`); a cycle of waits is
  broken by PostgreSQL (`DeadlockDetected`): a session is `Deadlocked` when every set of sessions
  that is closed under waiting and holds all it waits for holds the session itself. `FilterLost`,
  `MarkSwallowed` and a `BloomHit` for a URL that is not in the filter are the ways Redis may
  disappoint. `marked` is what callers believe: a URL stays in it when its BF.ADD failed without
  a word or the filter is lost. `is_duplicate` then answers "new" for a stored posting without
  asking the table (`dedup_service.py:42-43`), as it does for a stored text under a URL never
  marked, although the docstring calls the table authoritative (line 4); `missed` records it, and
  `MissNeedsLostMark` says that it happens in no other case. The caller may call in any
  order: no code in the repository fixes one.

## 3. The runs

| run | instance | result |
|---|---|---|
| `router` | 2 calls, 2 providers (one over HTTP), chains of 2 and 1, threshold 2, reset 3, timeouts 1 and 2, lag 1 | pass, with `BreakerSpec` |
| `router_probe` | the same | `OneProbe` violated |
| `resume_pipeline` | 2 workers, 4 messages, the last no JSON object | pass, with `AtLeastOnceSpec` |
| `job_pipeline` | 2 workers, 4 messages, batches of 2; one message does not normalise, one is no object, the last no JSON | pass, with `AtLeastOnceSpec` |
| `job_pipeline_timeout` | 1 worker, 2 messages, batches of 2 | `BatchTimeout` violated |
| `resume_upload` | 3 requests, two of them for the same file, both schemas | pass |
| `resume_upload_version` | the same | `NextVersionFresh` violated |
| `match` | 1 match, 2 workers | pass |
| `resume_analysis` | 2 runs, lifetime 3 ticks, running time up to 2 | pass |
| `accounts` | 2 registrations of one address with different passwords, 3 updates (two give a key the same value), 1 erasure, 2 keys | pass |
| `job_store` | 2 sessions of 3 calls, 1 URL, 2 texts | pass |
| `match_rank` | 1 match, 1 worker | `CandidatesAreRanked` violated |

Why the bounds are enough. The breaker's properties concern one provider and at most two
calls (a straggler and a probe, or two probes); threshold 2 separates "some failures" from
"open", and the reset timeout is as long as the longest provider timeout plus the timer's
lag, the tightest case `RouterAssumption` admits. Two workers are the owner and the deposed
one; three readable messages allow one committed, one in hand and one behind, and a batch of
two plus a remainder, and the fourth is one that cannot be read. Three uploads allow two active ones, a deletion and a third that picks a used
number. Matches touch each other only through the `top_jobs` cache, whose hit one worker can
prepare for the other. In `resume_analysis` the two runs are the one that set a key and the
one that takes it over at its last tick, and the bounds of `Fresh` are attained: one tick less
is violated. Two registrations are the winner and the loser of the race, and after an erasure
the old and the new owner of the address; of the three updates one gives both keys and two the
first of them, one to the same value, so an update can be lost on a key it shares, on one it
does not, and by not being sent. Two sessions
with two texts are the shortest cycle of waits. Every bound is a constant, and the theorems hold for any value.

Deadlock is checked, except where the system may really stop: in `ResumeUpload`, `Accounts` and
`JobStore` all requests or sessions may have ended, and a match whose request failed without an
event ends with its status key. `SYMMETRY` on workers is used in `match`
only, whose properties are safety properties.

The four findings are disagreements between code and its own words: the "one probe" of the
half-open state, the five-second batch deadline, the version number after a deletion, and
the search results that never reach the reranker. A mutant of the code is named for every
property of a passing run in `PROJECT.json`; its operator stands next to the original in the
module, and the property fails with it.

## 4. Fairness

* Router: `Tick` and each `Expire`. Time passes and `wait_for` fires (within `Lag` ticks,
  as the event loop may be busy). Nothing is assumed of providers.
* Pipelines: each worker's own steps, its restart, learning of a
  revocation (aiokafka's coordinator task), time, and the assignment of a partition nobody
  holds. Production, faults and needless rebalances are not fair; the liveness properties are
  conditional on faults and needless rebalances ceasing (`Calm`). That somebody restarts a
  worker that ended is an assumption the repository does not justify: nothing in it calls the two
  `run_*_pipeline_consumer` functions, and the worker deployment
  (`infra/k8s/base/worker-deployment.yaml:19`) and `docker-compose.yml:104` start celery only.
  Nor is settlement claimed of a message at or behind an unreadable one.
* Upload: a running request takes its next step, successfully or not: S3, PostgreSQL and
  Kafka answer or time out.
* Job store: each session takes its next step: callers return, and PostgreSQL executes,
  refuses or aborts a statement that waits for nobody or for itself. Calls, failures and Redis
  are not fair.
* Resume analysis and accounts: none; their properties are safety properties.
* Match: none. The runner is not in the repository, and a failed run leaves the match
  "queued" until its key expires, so no progress is promised and none is claimed.

## 5. The theorems

All are of the form `Spec => []Inv`, `Spec => [][A]_vars` or `Spec => Abstract!Spec`, from an
inductive invariant preserved action by action.

* **LLMRouterProofs.** `BreakerInv` needs no more than the types. `OpenDrains` and
  `ProbesAreFresh` need, beside each other and `BreakerInv`, that no call outlives its
  timeout by more than the lag (`TimersServed`, a theorem of its own: the safety half of
  `EveryCallReturns`); with `CallTimeout + Lag <= ResetTimeout` a call of the outage is over
  before the breaker goes half open. `RecoveryNeedsProbe` and `FailedProbeReopens` follow from
  the invariant at one step. `BreakersAreBreakers` is the refinement: an action of a coroutine
  ends at most one call on one breaker, and its loop touches other breakers only to let calls
  through. That an open breaker hears of calls for `Straggle` ticks at most (`EndsInTime`) is
  where `OpenDrains` and `TimersServed` come together.
* **ResumePipelineProofs.** `NoLoss` rests on `OneInHand` (the holder is at most one message
  past the committed offset and holds it) and `SettledBeforeCommit`. They also give the
  refinement: each step of `ResumePipeline` is a `Produce`, `Settle` or `Ack` of
  `AtLeastOnce` or a stutter; the order of commits (`CommitsAdvance`) is part of it.
  `NeverPastUnreadable` is the other side of `EverySettled`: no worker's position, and so no
  commit, ever gets past a message that is no JSON object.
* **JobPipelineProofs.** `BatchCoversGap` says the uncommitted gap is inside the batch; a
  batch at its commit is announced, left out or swallowed; hence `LossOnlyBySwallowing`. The
  refinement of `AtLeastOnce` also needs that the gap is no longer than the batch
  (`GapWithinSize`): the batch is a list, in which a redelivered message counts twice.
* **ResumeUploadProofs.** An invariant over `pc` says what each stage has already written. From
  it, an INSERT waits for one transaction, past its own INSERT (`WaitsForOne`), so that waits
  are never longer than one; it is the safety half of `EveryUploadEnds`. `VersionsRise` needs what
  a request counted when it picked its version (`Counts`): the number is one more than the
  resumes counted, so it can only fail to rise when one of them has been deleted since.
* **MatchLifecycleProofs.** `Started` (the status is "queued" before the event of the first
  run exists) and `Written` (a run past one of the finalizer's writes has left it in Redis,
  unless a key has lapsed) carry over to the matches whose update is published (`Pushed`) and
  to what a client's poll has seen of them (`Polled`), from which an update a client waits for in
  vain was published while its socket was open and not subscribed. The invariant holds for any number of
  workers, so a second run of a match that overlaps the first takes nothing back.
  `NodesFindTheirKeys` has an inductive invariant of its own, `Carried`: the keys of the
  request are carried to the end, those of each node to the nodes after it. `NothingRanked` is
  the finding of the run `match_rank` for every instance: it is not one order of steps or a
  cache hit that empties the ranking, every match ends with nothing ranked and nothing scored.
* **ResumeAnalysisProofs.** The age of a key and the time it has left add up to at most what a
  run can have when it sets the key plus a lifetime (`AnalysisBounded`, `EmbeddingBounded`),
  and a run's own age grows from there with its running time (`RunBounded`).
* **AccountsProofs.** `OnlyItsOwner` is inductive with `TokensOwned`, the same of the tokens
  clients hold. `LostOnlyToOverlap` needs what an update carries through its request: the
  preferences it loaded keep, of every update committed before, what the table kept of it then
  (`BaseKeeps`), and are those of the table still unless an UPDATE has been sent since
  (`BaseCurrent`); merging and committing them extends that to the table (`TableKeeps`). No two
  accounts, committed or about to be, have one address (`OneAccountPerAddress`): what `login`
  relies on when it takes the one row its query returns.
* **JobStoreProofs.** `KnownIsStored` holds because rows are never deleted and a session sees
  its own writes; `MissNeedsLostMark` needs that what was stored when the question was asked
  is still visible when the table is read (`KnownStaysVisible`). `SomeoneMoves` is the safety
  half of `EverySessionEnds`: whoever is waited for is alive (`HeldByLive`) and holds what no
  other does (`ExclusiveWrites`); among live sessions that wait only for each other, take one
  in a smallest non-empty set closed under waiting. It waits for nobody, or whatever it waits
  for leads back to it. Smallest sets exist because sessions are finitely many
  (`WaitsEnd`, from well-foundedness of the strict subsets of a finite set).

Assumptions: `RouterAssumption` (chains without repetition, timeouts below the reset
timeout, as the code's constants are), `GroupAssumption`, `BatchAssumption`,
`UploadAssumption` and `StoreAssumption` (finite sets and natural numbers), `TimeAssumption`
(a lifetime of at least one tick) and `AccountsAssumption` (each update gives values to some
keys; requests and markers are told apart). TLC evaluates them in the runs.

Every safety property a passing run checks is also proved, and so are the three refinements.
Only model-checked, because the prover does neither fairness nor ENABLED, are the liveness
properties: `EveryCallReturns`, `ProviderReadmitted`, `EverySettled`, `BacklogDrains`,
`EveryUploadEnds` and `EverySessionEnds`. For three of them the safety half is proved, as said
above: timers are served, and waits never close into a circle nobody breaks.

`SettledBeforeCommit`, `CommitsAdvance`, `FailedProbeReopens` and `NeverPastUnreadable` are
theorems that no run checks by themselves: the first is the step on which `NoLoss` rests, the
next two are part of what the refinements say, and the last is what `EverySettled` leaves out.

## 6. Plan

1. Done: the router, the two pipelines with the refinement of `AtLeastOnce`, the upload, the
   match life cycle; then the resume analyzer's caches, the accounts and the job store; proofs
   of all eight; the refinements of `AtLeastOnce` by the job pipeline and of `CircuitBreaker`.
2. Next modules, most important first: `ResumeSystem` (upload composed with the resume
   pipeline: events without rows, results before rows); `MatchScorer` (the semaphore over
   concurrent `route()` calls, ordering of scores); pure functions for rank fusion and salary
   parsing against reference definitions; then tailoring and the semantic cache.
3. Next proofs: the invariants of those modules, an abstract specification of what a client of
   the match API may observe and its refinement by `MatchLifecycle`, one of the job store as a set
   that only grows, and lemmas about rank fusion.

## 7. Not modelled

Settings, telemetry, health endpoints, Docker, Helm, Kubernetes and Terraform files have no
state of the program's. The crawlers are I/O against job sites, and the Celery tasks only
log or write keys nobody reads. Tailoring is a sequential loop over `route()`, and the semantic
cache has no caller. Of the job store, the read-only queries, the values of its timestamps and
`ensure_bloom_filter` (no caller) are left out. Texts, embeddings, prompts and scores are abstracted
wherever no property tells them apart. The exact reasons per part are in `PROJECT.json`.
