----------------------------- MODULE JobStoreProofs -----------------------------
(***************************************************************************)
(* Proofs about JobStore, for any sessions, URLs, texts and number of calls. *)
(*                                                                         *)
(* That no session relies on a posting nobody stored follows from rows never *)
(* being deleted and a session seeing its own writes.  That a posting whose  *)
(* mark Redis has is caught needs, besides, what a question remembers: a     *)
(* posting stored when it was asked about is still visible when the table    *)
(* is read.                                                                *)
(*                                                                         *)
(* That no sessions hang on each other rests on who is waited for: a live    *)
(* session (HeldByLive), the only one that holds the row (ExclusiveWrites).  *)
(***************************************************************************)
EXTENDS JobStore, FiniteSetTheorems, TLAPS

KnownStaysVisible ==
  \A s \in Sessions :
    pc[s] = "lookup" /\ query[s].mark # "none" => query[s].text \in Visible(s)

IInv == TypeOK /\ KnownIsStored /\ KnownStaysVisible /\ MissNeedsLostMark

\* A session has at most one changed row that it has not sent.
LEMMA OneDirty ==
  ASSUME NEW t, NEW d \in {{}, {t}}
  PROVE  Cardinality(d) <= 1
<1>1. Cardinality({}) = 0 /\ Cardinality({t}) = 1
  BY FS_EmptySet, FS_Singleton
<1>2. d = {} \/ d = {t}
  OBVIOUS
<1> QED
  BY <1>1, <1>2

LEMMA InitIInv == Init => IInv
<1> SUFFICES ASSUME Init PROVE IInv
  OBVIOUS
<1>1. \A s \in Sessions : Cardinality(dirty[s]) <= 1
  BY OneDirty DEF Init
<1>2. TypeOK
  BY <1>1, StoreAssumption DEF Init, TypeOK, Live, Waits, Marks
<1> QED
  BY <1>2 DEF Init, IInv, KnownIsStored, KnownStaysVisible, MissNeedsLostMark, Visible

LEMMA NextIInv == IInv /\ [Next]_vars => IInv'
<1> SUFFICES ASSUME IInv, [Next]_vars PROVE IInv'
  OBVIOUS
<1> USE StoreAssumption
        DEF IInv, TypeOK, KnownIsStored, KnownStaysVisible, MissNeedsLostMark, Visible,
            Live, Waits, GoTo, local, filter
<1>1. ASSUME NEW s \in Sessions, NEW u \in Urls, NEW t \in Texts, BloomMiss(s, u, t)
      PROVE  IInv'
  <2>1. Question(s, u, t).mark # "kept"
    BY <1>1 DEF BloomMiss, Question
  <2>2. Question(s, u, t) \in [text : Texts, mark : Marks]
    BY DEF Question, Marks
  <2>3. /\ relied' = relied /\ "kept" \notin missed'
        /\ missed' \subseteq Marks \ {"none"}
    BY <1>1, <2>1, <2>2 DEF BloomMiss, Answer
  <2>4. /\ calls' = [calls EXCEPT ![s] = @ + 1] /\ calls[s] < MaxCalls
        /\ pc[s] = "open" /\ pc' = [pc EXCEPT ![s] = "open"]
        /\ UNCHANGED <<query, local, rows, filter>>
    BY <1>1 DEF BloomMiss, Answer, Call
  <2> HIDE DEF Question
  <2> QED
    BY <2>3, <2>4
<1>2. ASSUME NEW s \in Sessions, NEW u \in Urls, NEW t \in Texts, BloomHit(s, u, t)
      PROVE  IInv'
  <2>1. /\ Question(s, u, t) \in [text : Texts, mark : Marks]
        /\ Question(s, u, t).mark # "none" => Question(s, u, t).text \in Visible(s)
    BY DEF Question, Marks
  <2> QED
    BY <1>2, <2>1 DEF BloomHit, Call
<1>3. ASSUME NEW s \in Sessions, Lookup(s) PROVE IInv'
  <2> DEFINE t == query[s].text
  <2>1. t \in Texts /\ (query[s].mark # "none" => t \in Visible(s))
    BY <1>3 DEF Lookup
  <2>2. missed' = missed
    <3>1. CASE t \in Visible(s)
      BY <1>3, <3>1 DEF Lookup, Answer
    <3>2. CASE query[s].mark = "none"
      BY <1>3, <3>2 DEF Lookup, Answer
    <3> QED
      BY <2>1, <3>1, <3>2
  <2>3. \/ relied' = relied
        \/ t \in Visible(s) /\ relied' = [relied EXCEPT ![s] = @ \cup {t}]
    BY <1>3 DEF Lookup, Answer, Relies
  <2>4. /\ query' = [query EXCEPT ![s].mark = "none"]
        /\ pc' = [pc EXCEPT ![s] = "open"] /\ UNCHANGED <<calls, local, rows, filter>>
    BY <1>3 DEF Lookup, Answer
  <2>5. /\ query' \in [Sessions -> [text : Texts \cup {"none"}, mark : Marks]]
        /\ \A o \in Sessions : query'[o].text = query[o].text
        /\ \A o \in Sessions \ {s} : query'[o] = query[o]
    BY <2>4 DEF Marks
  <2>6. TypeOK'
    <3>1. relied' \in [Sessions -> SUBSET Texts]
      BY <2>1, <2>3
    <3>2. pc' \in [Sessions -> Live \cup {"ended", "failed"}]
          /\ \A o \in Sessions : pc'[o] \in {"lookup", "select", "insert"} => pc'[o] = pc[o]
      BY <2>4
    <3>3. \A o \in Sessions : pc'[o] \in {"lookup", "select", "insert"} => query'[o].text \in Texts
      BY <2>5, <3>2
    <3> QED
      BY <2>2, <2>4, <2>5, <3>1, <3>2, <3>3
  <2>7. KnownIsStored'
    <3>1. /\ \A o \in Sessions : pc'[o] # "failed" => pc[o] # "failed"
          /\ UNCHANGED <<rows, held>>
      BY <1>3, <2>4 DEF Lookup
    <3>2. \A o \in Sessions : relied'[o] \subseteq relied[o] \cup Visible(o)
      BY <2>3
    <3> QED
      BY <3>1, <3>2
  <2>8. (KnownStaysVisible /\ MissNeedsLostMark)'
    BY <2>2, <2>4, <2>5
  <2> QED
    BY <2>6, <2>7, <2>8
<1>4. ASSUME NEW s \in Sessions, NEW u \in Urls, MarkSeen(s, u) \/ MarkSwallowed(s, u)
      PROVE  IInv'
  BY <1>4 DEF MarkSeen, MarkSwallowed, Call
<1>5. CASE FilterLost
  BY <1>5 DEF FilterLost
<1>6. ASSUME NEW s \in Sessions, NEW t \in Texts, Upsert(s, t) PROVE IInv'
  BY <1>6 DEF Upsert, Call, Marks
<1>7. ASSUME NEW s \in Sessions, Select(s) PROVE IInv'
  <2> DEFINE t == query[s].text
  <2>1. t \in Texts
    BY <1>7 DEF Select
  <2>2. CASE t \in Visible(s)
    <3>1. PICK d \in {{}, {t}} : dirty' = [dirty EXCEPT ![s] = d]
      BY <1>7, <2>2 DEF Select
    <3>2. Cardinality(d) <= 1 /\ d \subseteq Texts
      BY <2>1, OneDirty
    <3>3. \A o \in Sessions : Cardinality(dirty'[o]) <= 1
      BY <3>1, <3>2
    <3>4. /\ pc[s] = "select" /\ pc' = [pc EXCEPT ![s] = "open"]
          /\ relied' = [relied EXCEPT ![s] = @ \cup {t}]
          /\ UNCHANGED <<calls, query, held, rows, filter, missed>>
      BY <1>7, <2>2 DEF Select, Relies
    <3>5. TypeOK'
      BY <2>1, <3>1, <3>2, <3>3, <3>4
    <3> QED
      BY <2>2, <3>4, <3>5
  <2>3. CASE t \notin Visible(s)
    <3>1. /\ pc[s] = "select"
          /\ pc' = [pc EXCEPT ![s] = "insert"] /\ UNCHANGED <<dirty, relied>>
          /\ UNCHANGED <<calls, query, held, rows, filter, missed>>
      BY <1>7, <2>3 DEF Select
    <3>2. TypeOK'
      BY <2>1, <3>1
    <3>3. (KnownIsStored /\ KnownStaysVisible /\ MissNeedsLostMark)'
      BY <3>1
    <3> QED
      BY <3>2, <3>3
  <2> QED
    BY <2>2, <2>3
<1>8. ASSUME NEW s \in Sessions, Insert(s) PROVE IInv'
  BY <1>8 DEF Insert, Relies
<1>9. ASSUME NEW s \in Sessions, Flush(s) PROVE IInv'
  <2>1. \A o \in Sessions : Cardinality(dirty'[o]) <= 1
    BY <1>9, OneDirty DEF Flush
  <2> QED
    BY <1>9, <2>1 DEF Flush
<1>10. ASSUME NEW s \in Sessions, Return(s) PROVE IInv'
  BY <1>10 DEF Return
<1>11. ASSUME NEW s \in Sessions, Commit(s) \/ CommitUnanswered(s) PROVE IInv'
  BY <1>11 DEF Commit, CommitUnanswered
<1>12. ASSUME NEW s \in Sessions, Rollback(s) PROVE IInv'
  <2>1. \A o \in Sessions : Cardinality(dirty'[o]) <= 1
    BY <1>12, OneDirty DEF Rollback
  <2> QED
    BY <1>12, <2>1 DEF Rollback
<1>13. CASE UNCHANGED vars
  BY <1>13 DEF vars
<1> QED
  BY <1>1, <1>2, <1>3, <1>4, <1>5, <1>6, <1>7, <1>8, <1>9, <1>10, <1>11, <1>12, <1>13
  DEF Next, Use, Step, InsertRefused, DeadlockDetected, Raises

LEMMA Invariance == Spec => []IInv
  BY InitIInv, NextIInv, PTL DEF Spec

\* Type correctness of sessions, table and filter; at most one row is dirty.
THEOREM TypeCorrect == Spec => []TypeOK
<1>1. IInv => TypeOK
  BY DEF IInv
<1> QED
  BY <1>1, Invariance, PTL

\* Nothing is dropped as the duplicate of a posting that was never stored.
THEOREM DuplicatesAreStored == Spec => []KnownIsStored
<1>1. IInv => KnownIsStored
  BY DEF IInv
<1> QED
  BY <1>1, Invariance, PTL

\* A posting marked and stored is reported as new only where its mark is lost.
THEOREM MissesAreLostMarks == Spec => []MissNeedsLostMark
<1>1. IInv => MissNeedsLostMark
  BY DEF IInv
<1> QED
  BY <1>1, Invariance, PTL

(***************************************************************************)
(* Who waits for whom                                                      *)
(*                                                                         *)
(* Only a live session holds anything, and a write waits until no other     *)
(* session holds what it writes.  So whoever is waited for is live, and     *)
(* among the sets of live sessions that wait only within themselves there   *)
(* is a least one: its members are all waiting for each other, or it is one *)
(* session that waits for nobody.                                          *)
(***************************************************************************)
HeldByLive == \A s \in Sessions : held[s] # {} => pc[s] \in Live

\* No two open transactions hold the same row or the same hash.
ExclusiveWrites == \A s, o \in Sessions : s # o => held[s] \cap held[o] = {}

LInv == HeldByLive /\ ExclusiveWrites

\* What a step may do to the writes of open transactions: nothing, add those
\* of one session that waits for nobody, or end one session.
LEMMA HeldSteps ==
  ASSUME TypeOK, [Next]_vars
  PROVE  \/ held' = held /\ \A o \in Sessions : pc[o] \in Live => pc'[o] \in Live
         \/ \E s \in Sessions :
              /\ pc[s] \in Waits /\ WaitsFor(s) = {}
              /\ held' = [held EXCEPT ![s] = @ \cup Writes(s)]
              /\ \A o \in Sessions : pc[o] \in Live => pc'[o] \in Live
         \/ \E s \in Sessions :
              /\ held' = [held EXCEPT ![s] = {}]
              /\ \A o \in Sessions \ {s} : pc'[o] = pc[o]
<1> USE DEF TypeOK, Live, Waits, GoTo, local, filter
<1>1. ASSUME NEW s \in Sessions, NEW u \in Urls, NEW t \in Texts,
             BloomMiss(s, u, t) \/ BloomHit(s, u, t)
      PROVE  held' = held /\ \A o \in Sessions : pc[o] \in Live => pc'[o] \in Live
  BY <1>1 DEF BloomMiss, BloomHit, Answer
<1>2. ASSUME NEW s \in Sessions, NEW u \in Urls, MarkSeen(s, u) \/ MarkSwallowed(s, u)
      PROVE  held' = held /\ pc' = pc
  BY <1>2 DEF MarkSeen, MarkSwallowed
<1>3. ASSUME NEW s \in Sessions, NEW t \in Texts, Upsert(s, t)
      PROVE  held' = held /\ \A o \in Sessions : pc[o] \in Live => pc'[o] \in Live
  BY <1>3 DEF Upsert
<1>4. ASSUME NEW s \in Sessions, Lookup(s) \/ Return(s)
      PROVE  held' = held /\ \A o \in Sessions : pc[o] \in Live => pc'[o] \in Live
  BY <1>4 DEF Lookup, Answer, Return
<1>5. ASSUME NEW s \in Sessions, Select(s)
      PROVE  held' = held /\ \A o \in Sessions : pc[o] \in Live => pc'[o] \in Live
  BY <1>5 DEF Select
<1>6. ASSUME NEW s \in Sessions, Insert(s)
      PROVE  /\ pc[s] \in Waits /\ WaitsFor(s) = {}
             /\ held' = [held EXCEPT ![s] = @ \cup Writes(s)]
             /\ \A o \in Sessions : pc[o] \in Live => pc'[o] \in Live
  BY <1>6 DEF Insert, Writes
<1>7. ASSUME NEW s \in Sessions, Flush(s)
      PROVE  /\ pc[s] \in Waits /\ WaitsFor(s) = {}
             /\ held' = [held EXCEPT ![s] = @ \cup Writes(s)]
             /\ \A o \in Sessions : pc[o] \in Live => pc'[o] \in Live
  BY <1>7 DEF Flush, Writes
<1>8. ASSUME NEW s \in Sessions, Commit(s) \/ CommitUnanswered(s) \/ Rollback(s)
      PROVE  /\ held' = [held EXCEPT ![s] = {}]
             /\ \A o \in Sessions \ {s} : pc'[o] = pc[o]
  BY <1>8 DEF Commit, CommitUnanswered, Rollback
<1>9. CASE FilterLost \/ UNCHANGED vars
  BY <1>9 DEF FilterLost, vars
<1> HIDE DEF TypeOK, Live, Waits, GoTo, local, filter
<1> QED
  BY <1>1, <1>2, <1>3, <1>4, <1>5, <1>6, <1>7, <1>8, <1>9
  DEF Next, Use, Step, InsertRefused, DeadlockDetected, Raises

LEMMA NextLInv == TypeOK /\ LInv /\ [Next]_vars => LInv'
<1> SUFFICES ASSUME TypeOK, LInv, [Next]_vars PROVE LInv'
  OBVIOUS
<1>1. CASE held' = held /\ \A o \in Sessions : pc[o] \in Live => pc'[o] \in Live
  BY <1>1 DEF LInv, HeldByLive, ExclusiveWrites
<1>2. ASSUME NEW s \in Sessions,
             pc[s] \in Waits, WaitsFor(s) = {},
             held' = [held EXCEPT ![s] = @ \cup Writes(s)],
             \A o \in Sessions : pc[o] \in Live => pc'[o] \in Live
      PROVE  LInv'
  <2>1. \A o \in Sessions \ {s} : Writes(s) \cap held[o] = {} /\ held'[o] = held[o]
    BY <1>2 DEF WaitsFor, TypeOK
  <2>2. held'[s] = held[s] \cup Writes(s)
    BY <1>2 DEF TypeOK
  <2>3. HeldByLive'
    BY <1>2, <2>1 DEF LInv, HeldByLive, Live
  <2>4. ExclusiveWrites'
    BY <2>1, <2>2 DEF LInv, ExclusiveWrites
  <2> QED
    BY <2>3, <2>4 DEF LInv
<1>3. ASSUME NEW s \in Sessions,
             held' = [held EXCEPT ![s] = {}],
             \A o \in Sessions \ {s} : pc'[o] = pc[o]
      PROVE  LInv'
  BY <1>3 DEF TypeOK, LInv, HeldByLive, ExclusiveWrites
<1> QED
  BY <1>1, <1>2, <1>3, HeldSteps

LEMMA LInvariance == Spec => []LInv
<1>1. Init => LInv
  BY DEF Init, LInv, HeldByLive, ExclusiveWrites
<1> QED
  BY <1>1, NextLInv, TypeCorrect, PTL DEF Spec

\* Of the sessions of a set that wait only for each other, one waits for nobody
\* or is aborted.
LEMMA WaitsEnd ==
  ASSUME NEW S \in SUBSET Sessions, S # {}, WaitsWithin(S)
  PROVE  \E o \in S : WaitsFor(o) = {} \/ Deadlocked(o)
<1> DEFINE Closed == {T \in SUBSET S : T # {} /\ WaitsWithin(T)}
<1>1. IsFiniteSet(S)
  BY StoreAssumption, FS_Subset
<1>2. IsWellFoundedOn(StrictSubsetOrdering(S), SUBSET S)
  BY <1>1, FS_FiniteSubsetsOfFinite, FS_StrictSubsetOrderingWellFounded
<1>3. Closed \subseteq SUBSET S /\ Closed # {}
  OBVIOUS
<1> HIDE DEF Closed
<1>4. PICK M \in Closed : \A T \in Closed : <<T, M>> \notin StrictSubsetOrdering(S)
  BY <1>2, <1>3, WFMin
<1> USE DEF Closed
<1>5. PICK o \in M : TRUE
  BY <1>4
<1>6. SUFFICES ASSUME WaitsFor(o) # {} PROVE Deadlocked(o)
  BY <1>4, <1>5
<1>7. SUFFICES ASSUME NEW T \in SUBSET Sessions, WaitsFor(o) \subseteq T, WaitsWithin(T)
               PROVE  o \in T
  BY DEF Deadlocked
<1>8. T \cap M \in Closed
  BY <1>4, <1>5, <1>6, <1>7 DEF WaitsWithin
<1>9. T \cap M = M
  BY <1>4, <1>8 DEF StrictSubsetOrdering
<1> QED
  BY <1>5, <1>9

\* Follow whatever a live session waits for, and there is a live session that
\* waits for nobody or that PostgreSQL aborts: the safety half of
\* EverySessionEnds, for any number of sessions and any order of writes.
THEOREM NoMutualWait == Spec => []SomeoneMoves
<1>1. ASSUME HeldByLive PROVE SomeoneMoves
  <2> SUFFICES ASSUME NEW s \in Sessions, NEW S \in SUBSET Sessions,
                      pc[s] \in Live, s \in S, WaitsWithin(S)
               PROVE  \E o \in S : pc[o] \in Live /\ (WaitsFor(o) = {} \/ Deadlocked(o))
    BY DEF SomeoneMoves
  <2> DEFINE L == {o \in S : pc[o] \in Live}
  <2>1. \A o, w \in Sessions : w \in WaitsFor(o) => pc[w] \in Live
    BY <1>1 DEF WaitsFor, HeldByLive
  <2>2. L \in SUBSET Sessions /\ L # {} /\ WaitsWithin(L)
    BY <2>1 DEF WaitsWithin, WaitsFor
  <2>3. PICK o \in L : WaitsFor(o) = {} \/ Deadlocked(o)
    BY <2>2, WaitsEnd
  <2> QED
    BY <2>3
<1>2. LInv => HeldByLive
  BY DEF LInv
<1> QED
  BY <1>1, <1>2, LInvariance, PTL

================================================================================
