----------------------------- MODULE ResumeAnalysis -----------------------------
(***************************************************************************)
(* The two caches behind the node resume_analyzer, for one resume           *)
(* (ai-orchestration/app/agents/nodes/resume_analyzer.py,                   *)
(* services/embedding_service.py, services/resume_loader.py).               *)
(*                                                                         *)
(* The analysis is made from the text user-service returned, or from "" when *)
(* the loader failed in any way, and kept for a day.  The embedding is made  *)
(* from an analysis, perhaps a cached one, and kept for a day of its own.    *)
(* Runs of the node share nothing but the two keys.  Time is counted in      *)
(* ticks; an age is the time since the text was loaded.                     *)
(***************************************************************************)
EXTENDS Naturals

CONSTANTS Runs,    \* workers that run the node, again and again
          TTL,     \* lifetime of both keys, 24 hours
          MaxRun   \* bound: a run ends within this time

ASSUME TimeAssumption == TTL \in Nat \ {0} /\ MaxRun \in Nat

VARIABLES
  analysis,   \* Redis key resume_analysis:<id>
  embedding,  \* Redis key resume_embedding:<id>
  run         \* each run: where it is, for how long it has run, the ages of the
              \* analysis it holds and of the embedding it has returned

vars == <<analysis, embedding, run>>

Key == [age : Nat, left : 0..TTL]
Absent == [age |-> 0, left |-> 0]
Begun(l, age) == [at |-> l, time |-> 0, age |-> age, embedded |-> 0]
Idle == Begun("idle", 0)

TypeOK ==
  /\ analysis \in Key /\ embedding \in Key
  /\ run \in [Runs -> [at : {"idle", "load", "route", "embed", "encode", "done"},
                       time : 0..MaxRun, age : Nat, embedded : Nat]]

Init ==
  /\ analysis = Absent /\ embedding = Absent
  /\ run = [r \in Runs |-> Idle]

Present(key) == key.left > 0
Set(age) == [age |-> age, left |-> TTL]
At(r, l) == run[r].at = l

Start(r) ==
  /\ At(r, "idle") \/ At(r, "done")
  /\ ~Present(analysis)
  /\ run' = [run EXCEPT ![r] = Begun("load", 0)]
  /\ UNCHANGED <<analysis, embedding>>

\* Mutant: a hit renews the key.
StartCachedRenews(r) ==
  /\ At(r, "idle") \/ At(r, "done")
  /\ Present(analysis)
  /\ run' = [run EXCEPT ![r] = Begun("embed", analysis.age)]
  /\ analysis' = Set(analysis.age)
  /\ UNCHANGED embedding

StartCached(r) ==
  /\ At(r, "idle") \/ At(r, "done")
  /\ Present(analysis)
  /\ run' = [run EXCEPT ![r] = Begun("embed", analysis.age)]
  /\ UNCHANGED <<analysis, embedding>>

\* load_resume_text returns the parsed resume as text, or "" for an error, a
\* refusal (it sends no token) or a resume that is not parsed: the caller cannot
\* tell.  It does not try S3.
Load(r) ==
  /\ At(r, "load")
  /\ run' = [run EXCEPT ![r].at = "route", ![r].age = 0]
  /\ UNCHANGED <<analysis, embedding>>

\* The router has answered with JSON.
StoreAnalysis(r) ==
  /\ At(r, "route")
  /\ analysis' = Set(run[r].age)
  /\ run' = [run EXCEPT ![r].at = "embed"]
  /\ UNCHANGED embedding

\* get_or_create
EmbeddingCached(r) ==
  /\ At(r, "embed") /\ Present(embedding)
  /\ run' = [run EXCEPT ![r].at = "done", ![r].embedded = embedding.age]
  /\ UNCHANGED <<analysis, embedding>>

EmbeddingMissing(r) ==
  /\ At(r, "embed") /\ ~Present(embedding)
  /\ run' = [run EXCEPT ![r].at = "encode"]
  /\ UNCHANGED <<analysis, embedding>>

StoreEmbedding(r) ==
  /\ At(r, "encode")
  /\ embedding' = Set(run[r].age)
  /\ run' = [run EXCEPT ![r].at = "done", ![r].embedded = run[r].age]
  /\ UNCHANGED analysis

\* No provider, an answer that is not JSON, Redis, the model: the node raises.
Raises(r) ==
  /\ run[r].at \notin {"idle", "done"}
  /\ run' = [run EXCEPT ![r] = Idle]
  /\ UNCHANGED <<analysis, embedding>>

Aged(key) ==
  IF key.left <= 1 THEN Absent ELSE [age |-> key.age + 1, left |-> key.left - 1]

Running(r) == run[r].at \notin {"idle", "done"}

Tick ==
  /\ \A r \in Runs : Running(r) => run[r].time < MaxRun
  /\ analysis' = Aged(analysis) /\ embedding' = Aged(embedding)
  /\ run' = [r \in Runs |->
       IF Running(r) THEN [run[r] EXCEPT !.time = @ + 1, !.age = @ + 1] ELSE run[r]]

\* Redis evicts a key or restarts without it.
KeyLost ==
  \/ analysis' = Absent /\ UNCHANGED <<embedding, run>>
  \/ embedding' = Absent /\ UNCHANGED <<analysis, run>>

Next ==
  \/ \E r \in Runs :
       \/ Start(r) \/ StartCached(r) \/ Load(r) \/ StoreAnalysis(r)
       \/ EmbeddingCached(r) \/ EmbeddingMissing(r) \/ StoreEmbedding(r) \/ Raises(r)
  \/ Tick \/ KeyLost

Spec == Init /\ [][Next]_vars

(***************************************************************************)
(* Properties                                                              *)
(***************************************************************************)
\* What the node returns is not older than the lifetimes allow: an analysis made
\* from an empty or outdated text is gone a day after it was made, and the
\* embedding made from it a day later, however runs overlap, overwrite each
\* other's keys and take them over just before they expire.
Fresh ==
  \A r \in Runs : At(r, "done") =>
    /\ run[r].age < TTL + 2 * MaxRun
    /\ run[r].embedded < 2 * (TTL + MaxRun) - 1

================================================================================
