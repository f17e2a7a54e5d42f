-------------------------- MODULE ResumeAnalysisProofs --------------------------
(***************************************************************************)
(* Proofs about ResumeAnalysis, for any number of runs and any lifetimes:   *)
(* its types, and the bound on the age of what the node returns.            *)
(***************************************************************************)
EXTENDS ResumeAnalysis, TLAPS

(***************************************************************************)
(* The age of a key and the time it has left add up to at most what a run   *)
(* can have when it sets the key plus a lifetime; a run's own age grows from *)
(* there with its running time.                                             *)
(***************************************************************************)
AnalysisBounded == Present(analysis) => analysis.age + analysis.left <= TTL + MaxRun

EmbeddingBounded ==
  Present(embedding) => embedding.age + embedding.left < 2 * (TTL + MaxRun)

RunBounded(r) ==
  /\ At(r, "route") => run[r].age <= run[r].time
  /\ run[r].at \in {"embed", "encode"} => run[r].age < TTL + MaxRun + run[r].time
  /\ At(r, "done") => run[r].age < TTL + 2 * MaxRun
  /\ At(r, "done") => run[r].embedded < 2 * (TTL + MaxRun) - 1

IInv ==
  /\ TypeOK
  /\ AnalysisBounded
  /\ EmbeddingBounded
  /\ \A r \in Runs : RunBounded(r)

LEMMA InitIInv == Init => IInv
  BY TimeAssumption DEF Init, IInv, TypeOK, AnalysisBounded, EmbeddingBounded, RunBounded,
     Key, Absent, Idle, Begun, Present, At

\* A set key obeys its bound when the age it is set with does.
LEMMA SetKey ==
  ASSUME NEW age \in Nat
  PROVE  Set(age) \in Key /\ Set(age).age = age /\ Set(age).left = TTL
  BY TimeAssumption DEF Set, Key

\* An ageing key keeps the sum of its age and the time it has left.
LEMMA AgedKey ==
  ASSUME NEW key \in Key
  PROVE  /\ Aged(key) \in Key
         /\ Present(Aged(key)) =>
              Present(key) /\ Aged(key).age + Aged(key).left = key.age + key.left
  BY TimeAssumption DEF Aged, Key, Absent, Present

LEMMA AbsentKey == Absent \in Key /\ ~Present(Absent)
  BY TimeAssumption DEF Absent, Key, Present

\* A step of one run that leaves that run bounded leaves all of them bounded.
LEMMA OtherRuns ==
  ASSUME IInv, NEW r \in Runs, NEW v,
         v \in [at : {"idle", "load", "route", "embed", "encode", "done"},
                time : 0..MaxRun, age : Nat, embedded : Nat],
         run' = [run EXCEPT ![r] = v],
         RunBounded(r)'
  PROVE  /\ run' \in [Runs -> [at : {"idle", "load", "route", "embed", "encode", "done"},
                               time : 0..MaxRun, age : Nat, embedded : Nat]]
         /\ \A s \in Runs : RunBounded(s)'
  <1>1. run' \in [Runs -> [at : {"idle", "load", "route", "embed", "encode", "done"},
                           time : 0..MaxRun, age : Nat, embedded : Nat]]
    BY DEF IInv, TypeOK
  <1>2. ASSUME NEW s \in Runs, s # r PROVE RunBounded(s)'
    <2>1. run'[s] = run[s]
      BY <1>2 DEF IInv, TypeOK
    <2> QED
      BY <2>1 DEF IInv, RunBounded, At
  <1> QED
    BY <1>1, <1>2

LEMMA NextIInv == IInv /\ [Next]_vars => IInv'
  <1> SUFFICES ASSUME IInv, [Next]_vars PROVE IInv'
    OBVIOUS
  <1> USE TimeAssumption
  <1> DEFINE RunType == [at : {"idle", "load", "route", "embed", "encode", "done"},
                         time : 0..MaxRun, age : Nat, embedded : Nat]
  <1>t. /\ analysis \in Key /\ embedding \in Key
        /\ \A r \in Runs : run[r] \in RunType /\ RunBounded(r)
        /\ run \in [Runs -> RunType]
    BY DEF IInv, TypeOK
  <1>f. \A r \in Runs : /\ run[r].time \in Nat /\ run[r].time <= MaxRun
                         /\ run[r].age \in Nat /\ run[r].embedded \in Nat
    BY <1>t
  <1>1. ASSUME NEW r \in Runs, Start(r) PROVE IInv'
    <2> DEFINE v == Begun("load", 0)
    <2>1. v \in RunType /\ v.at = "load"
      BY DEF Begun
    <2>2. run' = [run EXCEPT ![r] = v] /\ run'[r] = v
      BY <1>1, <1>t DEF Start
    <2>3. RunBounded(r)'
      BY <2>1, <2>2 DEF RunBounded, At
    <2> QED
      BY <1>1, <1>t, <2>1, <2>2, <2>3, OtherRuns
      DEF Start, IInv, TypeOK, AnalysisBounded, EmbeddingBounded
  <1>2. ASSUME NEW r \in Runs, StartCached(r) PROVE IInv'
    <2> DEFINE v == Begun("embed", analysis.age)
    <2>1. v \in RunType /\ v.at = "embed" /\ v.time = 0 /\ v.age = analysis.age
      <3>1. analysis.age \in Nat
        BY <1>t DEF Key
      <3> QED
        BY <3>1 DEF Begun
    <2>2. run' = [run EXCEPT ![r] = v] /\ run'[r] = v
      BY <1>2, <1>t DEF StartCached
    <2>3. analysis.age < TTL + MaxRun
      BY <1>2, <1>t DEF StartCached, IInv, AnalysisBounded, Present, Key
    <2>4. RunBounded(r)'
      <3>1. run'[r].at = "embed" /\ run'[r].time = 0 /\ run'[r].age < TTL + MaxRun
        BY <2>1, <2>2, <2>3
      <3> QED
        BY <3>1, <1>t DEF RunBounded, At
    <2> QED
      BY <1>2, <1>t, <2>1, <2>2, <2>4, OtherRuns
      DEF StartCached, IInv, TypeOK, AnalysisBounded, EmbeddingBounded
  <1>3. ASSUME NEW r \in Runs, Load(r) PROVE IInv'
    <2> DEFINE v == [run[r] EXCEPT !.at = "route", !.age = 0]
    <2>1. v \in RunType /\ v.at = "route" /\ v.age = 0 /\ v.time = run[r].time
      BY <1>t
    <2>2. run' = [run EXCEPT ![r] = v] /\ run'[r] = v
      BY <1>3, <1>t DEF Load
    <2>3. RunBounded(r)'
      BY <1>t, <2>1, <2>2 DEF RunBounded, At
    <2> QED
      BY <1>3, <1>t, <2>1, <2>2, <2>3, OtherRuns
      DEF Load, IInv, TypeOK, AnalysisBounded, EmbeddingBounded
  <1>4. ASSUME NEW r \in Runs, StoreAnalysis(r) PROVE IInv'
    <2> DEFINE v == [run[r] EXCEPT !.at = "embed"]
    <2>1. v \in RunType /\ v.at = "embed" /\ v.age = run[r].age /\ v.time = run[r].time
      BY <1>t
    <2>2. run' = [run EXCEPT ![r] = v] /\ run'[r] = v
      BY <1>4, <1>t DEF StoreAnalysis
    <2>3. run[r].age <= run[r].time /\ run[r].time <= MaxRun /\ run[r].age \in Nat
      BY <1>4, <1>t DEF StoreAnalysis, RunBounded
    <2>4. RunBounded(r)'
      <3>1. run[r].age < TTL + MaxRun + run[r].time
        BY <1>t, <2>3
      <3>2. run'[r].at = "embed" /\ run'[r].age < TTL + MaxRun + run'[r].time
        BY <2>1, <2>2, <3>1
      <3> QED
        BY <3>2 DEF RunBounded, At
    <2>5. analysis' \in Key /\ AnalysisBounded'
      <3>1. analysis' \in Key /\ analysis'.age = run[r].age /\ analysis'.left = TTL
        BY <1>4, <2>3, SetKey DEF StoreAnalysis
      <3> QED
        BY <1>f, <2>3, <3>1 DEF AnalysisBounded
    <2> QED
      BY <1>4, <1>t, <2>1, <2>2, <2>4, <2>5, OtherRuns
      DEF StoreAnalysis, IInv, TypeOK, EmbeddingBounded
  <1>5. ASSUME NEW r \in Runs, EmbeddingCached(r) PROVE IInv'
    <2> DEFINE v == [run[r] EXCEPT !.at = "done", !.embedded = embedding.age]
    <2>1. v \in RunType /\ v.at = "done" /\ v.age = run[r].age /\ v.embedded = embedding.age
      BY <1>t DEF Key
    <2>2. run' = [run EXCEPT ![r] = v] /\ run'[r] = v
      BY <1>5, <1>t DEF EmbeddingCached
    <2>3. run[r].age < TTL + MaxRun + run[r].time /\ run[r].time <= MaxRun /\ run[r].age \in Nat
      BY <1>5, <1>t DEF EmbeddingCached, RunBounded, At
    <2>4. embedding.age < 2 * (TTL + MaxRun) - 1
      BY <1>5, <1>t DEF EmbeddingCached, IInv, EmbeddingBounded, Present, Key
    <2>5. RunBounded(r)'
      BY <1>t, <2>1, <2>2, <2>3, <2>4 DEF RunBounded, At
    <2> QED
      BY <1>5, <1>t, <2>1, <2>2, <2>5, OtherRuns
      DEF EmbeddingCached, IInv, TypeOK, AnalysisBounded, EmbeddingBounded
  <1>6. ASSUME NEW r \in Runs, EmbeddingMissing(r) PROVE IInv'
    <2> DEFINE v == [run[r] EXCEPT !.at = "encode"]
    <2>1. v \in RunType /\ v.at = "encode" /\ v.age = run[r].age /\ v.time = run[r].time
      BY <1>t
    <2>2. run' = [run EXCEPT ![r] = v] /\ run'[r] = v
      BY <1>6, <1>t DEF EmbeddingMissing
    <2>3. RunBounded(r)'
      BY <1>6, <1>t, <2>1, <2>2 DEF EmbeddingMissing, RunBounded, At
    <2> QED
      BY <1>6, <1>t, <2>1, <2>2, <2>3, OtherRuns
      DEF EmbeddingMissing, IInv, TypeOK, AnalysisBounded, EmbeddingBounded
  <1>7. ASSUME NEW r \in Runs, StoreEmbedding(r) PROVE IInv'
    <2> DEFINE v == [run[r] EXCEPT !.at = "done", !.embedded = run[r].age]
    <2>1. v \in RunType /\ v.at = "done" /\ v.age = run[r].age /\ v.embedded = run[r].age
      BY <1>t
    <2>2. run' = [run EXCEPT ![r] = v] /\ run'[r] = v
      BY <1>7, <1>t DEF StoreEmbedding
    <2>3. run[r].age < TTL + MaxRun + run[r].time /\ run[r].time <= MaxRun /\ run[r].age \in Nat
      BY <1>7, <1>t DEF StoreEmbedding, RunBounded, At
    <2>4. RunBounded(r)'
      BY <1>t, <2>1, <2>2, <2>3 DEF RunBounded, At
    <2>5. embedding' \in Key /\ EmbeddingBounded'
      <3>1. embedding' \in Key /\ embedding'.age = run[r].age /\ embedding'.left = TTL
        BY <1>7, <2>3, SetKey DEF StoreEmbedding
      <3> QED
        BY <1>f, <2>3, <3>1 DEF EmbeddingBounded
    <2> QED
      BY <1>7, <1>t, <2>1, <2>2, <2>4, <2>5, OtherRuns
      DEF StoreEmbedding, IInv, TypeOK, AnalysisBounded
  <1>8. ASSUME NEW r \in Runs, Raises(r) PROVE IInv'
    <2>1. Idle \in RunType /\ Idle.at = "idle"
      BY DEF Idle, Begun
    <2>2. run' = [run EXCEPT ![r] = Idle] /\ run'[r] = Idle
      BY <1>8, <1>t DEF Raises
    <2>3. RunBounded(r)'
      BY <2>1, <2>2 DEF RunBounded, At
    <2> QED
      BY <1>8, <1>t, <2>1, <2>2, <2>3, OtherRuns
      DEF Raises, IInv, TypeOK, AnalysisBounded, EmbeddingBounded
  <1>9. CASE Tick
    <2>1. ASSUME NEW r \in Runs, Running(r)
          PROVE  /\ run'[r] \in RunType /\ run'[r].at = run[r].at
                 /\ run'[r].time = run[r].time + 1 /\ run'[r].age = run[r].age + 1
      <3> DEFINE time == run[r].time + 1
                 age == run[r].age + 1
      <3>1. run'[r] = [run[r] EXCEPT !.time = @ + 1, !.age = @ + 1]
        BY <1>9, <2>1 DEF Tick
      <3>2. time \in 0..MaxRun /\ age \in Nat
        <4>1. run[r].time < MaxRun
          BY <1>9, <2>1, Zenon DEF Tick
        <4> QED
          BY <1>f, <4>1
      <3> HIDE DEF time, age
      <3>3. [run[r] EXCEPT !.time = time, !.age = age] \in RunType
        BY <1>t, <3>2
      <3> QED
        BY <1>t, <3>1, <3>2, <3>3 DEF time, age
    <2>2. ASSUME NEW r \in Runs, ~Running(r) PROVE run'[r] = run[r]
      BY <1>9, <2>2 DEF Tick
    <2>3. ASSUME NEW r \in Runs PROVE run'[r] \in RunType /\ RunBounded(r)'
      <3>1. CASE Running(r)
        BY <1>t, <2>1, <3>1 DEF RunBounded, At, Running
      <3>2. CASE ~Running(r)
        BY <1>t, <2>2, <3>2 DEF RunBounded, At
      <3> QED
        BY <3>1, <3>2
    <2>4. run' \in [Runs -> RunType]
      BY <1>9, <2>3 DEF Tick
    <2>5. analysis' \in Key /\ AnalysisBounded'
      BY <1>9, <1>t, AgedKey DEF Tick, IInv, AnalysisBounded
    <2>6. embedding' \in Key /\ EmbeddingBounded'
      BY <1>9, <1>t, AgedKey DEF Tick, IInv, EmbeddingBounded
    <2> QED
      BY <2>3, <2>4, <2>5, <2>6 DEF IInv, TypeOK
  <1>10. CASE KeyLost
    BY <1>10, <1>t, AbsentKey
    DEF KeyLost, IInv, TypeOK, AnalysisBounded, EmbeddingBounded, RunBounded, At
  <1>11. CASE UNCHANGED vars
    BY <1>11 DEF vars, IInv, TypeOK, AnalysisBounded, EmbeddingBounded, RunBounded, At, Present
  <1> QED
    BY <1>1, <1>2, <1>3, <1>4, <1>5, <1>6, <1>7, <1>8, <1>9, <1>10, <1>11 DEF Next

LEMMA Invariance == Spec => []IInv
  BY InitIInv, NextIInv, PTL DEF Spec

\* Type correctness of the two caches and of the runs.
THEOREM TypeCorrect == Spec => []TypeOK
  <1>1. IInv => TypeOK
    BY DEF IInv
  <1> QED
    BY <1>1, Invariance, PTL

\* However many runs overlap and take over each other's keys, an analysis older
\* than a lifetime and two runs, or an embedding of the age of two of each less a
\* tick, is never returned.
THEOREM ReturnsFresh == Spec => []Fresh
  <1>1. IInv => Fresh
    BY DEF IInv, Fresh, RunBounded
  <1> QED
    BY <1>1, Invariance, PTL

================================================================================
