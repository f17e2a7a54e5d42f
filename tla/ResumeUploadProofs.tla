--------------------------- MODULE ResumeUploadProofs ---------------------------
(***************************************************************************)
(* What an upload leaves behind in S3, PostgreSQL and Kafka, for any number *)
(* of concurrent uploads and deletions of one user, with and without the    *)
(* unique constraint.                                                      *)
(*                                                                         *)
(* The properties speak of requests that have ended; Progress carries what  *)
(* a request has already done while it runs, and ties the open transactions *)
(* and the committed rows to the requests that own them.                    *)
(***************************************************************************)
EXTENDS ResumeUpload, FiniteSetTheorems, TLAPS

Progress ==
  \A r \in Requests :
    /\ pc[r] \in {"insert", "publish", "commit"} => FileOf[r] \in objects
    /\ pc[r] = "commit" => r \in queued
    /\ r \in pending <=> pc[r] \in {"publish", "commit"}
    /\ r \in rows => pc[r] \in {"accepted", "failed", "crashed"}

\* What the unique index means: no two rows, committed or about to be, share a
\* version.
VersionsUnique ==
  unique => \A r, s \in rows \cup pending : version[r] = version[s] => r = s

\* A number is one more than the rows counted for it, which were in the table
\* and not the request's own; who found a row found what its upload had counted.
Counts ==
  /\ \A r \in Requests : pc[r] \notin {"idle", "rejected"} =>
       r \notin counted[r] /\ version[r] = Cardinality(counted[r]) + 1
  /\ \A r, s \in Requests : r \in before[s] => counted[r] \subseteq before[s]

IInv ==
  /\ TypeOK /\ Progress /\ AcceptedIsDurable /\ RowsAreQueued
  /\ FailureLeavesNoRow /\ VersionsUnique /\ Counts

LEMMA ActiveCount ==
  ASSUME TypeOK
  PROVE  Cardinality(active) \in Nat /\ Cardinality(active) <= Cardinality(Requests)
         /\ Cardinality(Requests) \in Nat
<1>1. active \subseteq Requests
  BY DEF TypeOK
<1> QED
  BY <1>1, UploadAssumption, FS_Subset, FS_CardinalityType

LEMMA TypeStep == TypeOK /\ [Next]_vars => TypeOK'
<1> SUFFICES ASSUME TypeOK, [Next]_vars PROVE TypeOK'
  OBVIOUS
<1> USE DEF TypeOK, GoTo, Steps, Ended
<1>1. ASSUME NEW r \in Requests, PickVersion(r) PROVE TypeOK'
  BY <1>1, ActiveCount DEF PickVersion, Listed, stores
<1>2. ASSUME NEW r \in Requests, Reject(r) \/ Delete(r) PROVE TypeOK'
  BY <1>2 DEF Reject, Delete, Found, picked, stores
<1>3. ASSUME NEW r \in Requests, PutObject(r) \/ PutRaises(r) PROVE TypeOK'
  BY <1>3, UploadAssumption DEF PutObject, PutRaises, RolledBack, picked
<1>4. ASSUME NEW r \in Requests, Insert(r) \/ InsertRefused(r) PROVE TypeOK'
  BY <1>4 DEF Insert, InsertRefused, RolledBack, picked
<1>5. ASSUME NEW r \in Requests, Publish(r) \/ PublishRaises(r) PROVE TypeOK'
  BY <1>5 DEF Publish, PublishRaises, RolledBack, picked
<1>6. ASSUME NEW r \in Requests, Commit(r) \/ CommitRaises(r) \/ Crash(r) PROVE TypeOK'
  BY <1>6 DEF Commit, CommitRaises, Unanswered, Crash, RolledBack, picked
<1>7. CASE UNCHANGED vars
  BY <1>7 DEF vars, stores, picked
<1> QED
  BY <1>1, <1>2, <1>3, <1>4, <1>5, <1>6, <1>7 DEF Next, Step

\* No step but the two ends of a transaction and a deletion touches the rows.
LEMMA DurableStep ==
  ASSUME IInv, [Next]_vars
  PROVE  (Progress /\ AcceptedIsDurable /\ RowsAreQueued /\ FailureLeavesNoRow)'
<1> USE DEF Progress, AcceptedIsDurable, RowsAreQueued, FailureLeavesNoRow, TypeOK, GoTo, Steps,
            Ended
<1>1. TypeOK /\ Progress /\ AcceptedIsDurable /\ RowsAreQueued /\ FailureLeavesNoRow
  BY DEF IInv
<1> DEFINE Goal == (Progress /\ AcceptedIsDurable /\ RowsAreQueued /\ FailureLeavesNoRow)'
<1>2. ASSUME NEW r \in Requests, PickVersion(r) \/ Reject(r) \/ Delete(r) PROVE Goal
  BY <1>1, <1>2 DEF PickVersion, Listed, Reject, Delete, Found, stores
<1>3. ASSUME NEW r \in Requests, Crash(r) PROVE Goal
  BY <1>1, <1>3 DEF Crash, Unanswered, RolledBack
<1>4. ASSUME NEW r \in Requests, PutObject(r) \/ PutRaises(r) PROVE Goal
  BY <1>1, <1>4 DEF PutObject, PutRaises, RolledBack
<1>5. ASSUME NEW r \in Requests, Insert(r) \/ InsertRefused(r) PROVE Goal
  BY <1>1, <1>5 DEF Insert, InsertRefused, RolledBack
<1>6. ASSUME NEW r \in Requests, Publish(r) \/ PublishRaises(r) PROVE Goal
  BY <1>1, <1>6 DEF Publish, PublishRaises, RolledBack
<1>7. ASSUME NEW r \in Requests, Commit(r) \/ CommitRaises(r) PROVE Goal
  BY <1>1, <1>7 DEF Commit, CommitRaises, Unanswered, RolledBack
<1>8. CASE UNCHANGED vars
  BY <1>1, <1>8 DEF vars, stores
<1> QED
  BY <1>2, <1>3, <1>4, <1>5, <1>6, <1>7, <1>8 DEF Next, Step

\* Rows and open transactions only gain a row through an INSERT that the unique
\* index let pass; versions are picked by requests that have no row yet.
LEMMA UniqueStep ==
  ASSUME IInv, [Next]_vars
  PROVE  VersionsUnique'
<1> USE DEF VersionsUnique, TypeOK
<1>1. TypeOK /\ Progress /\ VersionsUnique
  BY DEF IInv
<1>2. ASSUME NEW r \in Requests, PickVersion(r) PROVE VersionsUnique'
  <2>1. r \notin rows \cup pending /\ UNCHANGED <<rows, pending>>
    BY <1>1, <1>2 DEF PickVersion, Listed, Progress, stores
  <2> QED
    BY <1>1, <1>2, <2>1 DEF PickVersion, Listed
<1>3. ASSUME NEW r \in Requests, Insert(r) PROVE VersionsUnique'
  BY <1>1, <1>3 DEF Insert, SameVersion, picked
<1>4. ASSUME NEW r \in Requests, Commit(r) \/ CommitRaises(r) \/ Crash(r) PROVE VersionsUnique'
  <2>1. pc[r] = "commit" => r \in pending
    BY <1>1 DEF Progress
  <2>2. /\ UNCHANGED <<version, unique>> /\ pending' \subseteq pending
        /\ rows' = rows \/ (pc[r] = "commit" /\ rows' = rows \cup {r})
    BY <1>4 DEF Commit, CommitRaises, Unanswered, Crash, RolledBack, picked
  <2> QED
    BY <1>1, <2>1, <2>2
<1> QED
  BY <1>1, <1>2, <1>3, <1>4
  DEF Next, Step, Reject, PutObject, PutRaises, InsertRefused, Publish, PublishRaises,
      Delete, Found, RolledBack, vars, stores, picked

\* Numbers and histories change only when a number is picked, and rows only grow.
LEMMA CountsStep ==
  ASSUME IInv, [Next]_vars
  PROVE  Counts'
<1> USE DEF Counts
<1>1. TypeOK /\ Progress /\ Counts
  BY DEF IInv
<1>2. ASSUME NEW r \in Requests, PickVersion(r) PROVE Counts'
  <2>1. /\ version' = [version EXCEPT ![r] = Cardinality(active) + 1]
        /\ before' = [before EXCEPT ![r] = rows] /\ counted' = [counted EXCEPT ![r] = active]
        /\ pc' = [pc EXCEPT ![r] = "put"] /\ pc[r] = "idle"
    BY <1>2 DEF PickVersion, Listed, GoTo
  <2>2. r \notin rows /\ r \notin active /\ active \subseteq rows
    BY <1>1, <2>1 DEF TypeOK, Progress
  <2>3. \A q \in Requests : pc'[q] \notin {"idle", "rejected"} =>
          q \notin counted'[q] /\ version'[q] = Cardinality(counted'[q]) + 1
    BY <1>1, <2>1, <2>2 DEF TypeOK
  <2>4. ASSUME NEW q \in Requests, NEW s \in Requests, q \in before'[s]
        PROVE  counted'[q] \subseteq before'[s]
    <3>1. q # r
      BY <1>1, <2>1, <2>2, <2>4 DEF TypeOK
    <3>2. counted'[q] = counted[q] /\ counted[q] \subseteq rows
      BY <1>1, <2>1, <3>1 DEF TypeOK
    <3> QED
      BY <1>1, <2>1, <2>4, <3>2 DEF TypeOK
  <2> QED
    BY <2>3, <2>4
<1>3. ASSUME UNCHANGED picked,
             \A q \in Requests : pc[q] \in {"idle", "rejected"} => pc'[q] \in {"idle", "rejected"}
      PROVE  Counts'
  BY <1>1, <1>3 DEF picked
<1>4. ASSUME NEW r \in Requests, Reject(r) \/ Step(r) \/ Crash(r) \/ Delete(r)
      PROVE  /\ UNCHANGED picked
             /\ \A q \in Requests :
                  pc[q] \in {"idle", "rejected"} => pc'[q] \in {"idle", "rejected"}
  BY <1>1, <1>4
  DEF TypeOK, GoTo, Steps, Reject, Step, PutObject, PutRaises, Insert, InsertRefused, Publish,
      PublishRaises, Commit, CommitRaises, Unanswered, Crash, Delete
<1>5. CASE UNCHANGED vars
  BY <1>3, <1>5 DEF vars
<1> QED
  BY <1>2, <1>3, <1>4, <1>5 DEF Next

LEMMA InvCorrect == Spec => []IInv
<1>1. Init => IInv
  BY UploadAssumption, FS_CardinalityType
  DEF Init, IInv, TypeOK, Progress, AcceptedIsDurable, RowsAreQueued, FailureLeavesNoRow,
      VersionsUnique, Counts, Steps, Ended
<1>2. IInv /\ [Next]_vars => IInv'
  BY TypeStep, DurableStep, UniqueStep, CountsStep DEF IInv
<1> QED
  BY <1>1, <1>2, PTL DEF Spec

\* Every variable keeps its type: no version is past the number of uploads
\* plus one, and only rows of the table are active.
THEOREM TypeCorrect == Spec => []TypeOK
  BY InvCorrect, PTL DEF IInv

\* A 202 means that file, row and event are all there.
THEOREM AcceptedDurable == Spec => []AcceptedIsDurable
  BY InvCorrect, PTL DEF IInv

\* Every committed row has its event and its file.
THEOREM RowsQueued == Spec => []RowsAreQueued
  BY InvCorrect, PTL DEF IInv

\* An upload that failed or died leaves no open transaction, and a row only if
\* its COMMIT was sent and not answered.
THEOREM FailureClean == Spec => []FailureLeavesNoRow
  BY InvCorrect, PTL DEF IInv

\* A later upload gets a number not above an earlier one's only after a
\* deletion, whichever schema the table has.
THEOREM VersionsGrow == Spec => []VersionsRise
<1>1. ASSUME IInv PROVE VersionsRise
  <2> SUFFICES ASSUME NEW r \in rows, NEW s \in rows, r \in before[s], version[s] <= version[r],
                      \A d \in counted[r] \cup {r} : d \in counted[s] \/ d \notin before[s]
               PROVE  FALSE
    BY DEF VersionsRise
  <2>1. /\ TypeOK /\ Progress /\ Counts /\ r \in Requests /\ s \in Requests
        /\ pc[r] \notin {"idle", "rejected"} /\ pc[s] \notin {"idle", "rejected"}
    BY <1>1 DEF IInv, TypeOK, Progress
  <2>2. counted[r] \cup {r} \subseteq counted[s]
    BY <2>1 DEF Counts
  <2>3. r \notin counted[r] /\ counted[r] \in SUBSET Requests /\ counted[s] \in SUBSET Requests
    BY <2>1 DEF Counts, TypeOK
  <2>4. IsFiniteSet(counted[r]) /\ IsFiniteSet(counted[s])
    BY <2>3, UploadAssumption, FS_Subset
  <2>5. /\ Cardinality(counted[r] \cup {r}) = Cardinality(counted[r]) + 1
        /\ Cardinality(counted[r] \cup {r}) <= Cardinality(counted[s])
        /\ Cardinality(counted[r]) \in Nat /\ Cardinality(counted[s]) \in Nat
    BY <2>2, <2>3, <2>4, FS_AddElement, FS_Subset, FS_CardinalityType
  <2>6. version[r] = Cardinality(counted[r]) + 1 /\ version[s] = Cardinality(counted[s]) + 1
    BY <2>1 DEF Counts
  <2> QED
    BY <2>5, <2>6
<1> QED
  BY <1>1, InvCorrect, PTL

(***************************************************************************)
(* What an INSERT waits for                                                *)
(***************************************************************************)
\* The unique index makes r wait: the same version is in an open transaction
\* and not yet in the table.
InsertWaits(r) ==
  pc[r] = "insert" /\ unique /\ SameVersion(r, pending) /\ ~SameVersion(r, rows)

\* A waiting INSERT waits for exactly one upload, which has its own INSERT behind
\* it and waits for nobody: uploads cannot wait for each other in a circle.
WaitsForOne ==
  \A r \in Requests : InsertWaits(r) =>
    \E s \in Requests \ {r} :
      /\ pc[s] \in {"publish", "commit"}
      /\ \A o \in pending \ {r} : version[o] = version[r] => o = s

\* The safety half of EveryUploadEnds, for any number of concurrent uploads.
THEOREM InsertsWaitForEnding == Spec => []WaitsForOne
<1>1. ASSUME IInv PROVE WaitsForOne
  <2> SUFFICES ASSUME NEW r \in Requests, InsertWaits(r)
               PROVE  \E s \in Requests \ {r} :
                        /\ pc[s] \in {"publish", "commit"}
                        /\ \A o \in pending \ {r} : version[o] = version[r] => o = s
    BY DEF WaitsForOne
  <2>1. PICK s \in pending \ {r} : version[s] = version[r]
    BY DEF InsertWaits, SameVersion
  <2>2. s \in Requests \ {r} /\ pc[s] \in {"publish", "commit"}
    BY <1>1, <2>1 DEF IInv, TypeOK, Progress
  <2>3. \A o \in pending \ {r} : version[o] = version[r] => o = s
    BY <1>1, <2>1 DEF IInv, VersionsUnique, InsertWaits
  <2> QED
    BY <2>2, <2>3
<1> QED
  BY <1>1, InvCorrect, PTL

================================================================================
