------------------------------ MODULE ResumeUpload ------------------------------
(***************************************************************************)
(* Uploading and deleting the resumes of one user                          *)
(* (user-service/app/api/v1/routes/resumes.py, services/resume_service.py   *)
(* and the session handling of db/session.py).                              *)
(*                                                                         *)
(* An upload counts the user's active resumes to pick a version, stores the *)
(* file in S3, inserts the row, publishes to resume.parse and, after the    *)
(* handler has returned, commits.  The service runs in several processes,   *)
(* so requests interleave between any two of these steps.  A row is named   *)
(* by the request that inserts it.                                         *)
(***************************************************************************)
EXTENDS Naturals, FiniteSets

CONSTANTS Requests,      \* upload requests of the user
          Files,         \* contents and names: the S3 keys
          FileOf         \* the file each request carries

ASSUME UploadAssumption ==
  /\ IsFiniteSet(Requests)
  /\ FileOf \in [Requests -> Files]

VARIABLES
  pc,       \* where each request is
  version,  \* the version number it picked
  objects,  \* files in the bucket
  pending,  \* rows inserted by transactions that are still open
  rows,     \* committed rows
  active,   \* those with is_active
  queued,   \* requests whose event is in resume.parse
  unique,   \* the table has UNIQUE(user_id, version): scripts/init_db.sql
            \* declares it, the schema create_all makes of the ORM model has not
  doubtful, \* history: requests whose COMMIT was sent and not answered
  before,   \* history: the rows committed when each request picked its version
  counted   \* history: those among them it counted

picked == <<version, before, counted>>
stores == <<objects, pending, rows, active, queued>>
vars == <<pc, picked, unique, stores, doubtful>>

Ended == {"rejected", "accepted", "failed", "crashed"}
Steps == {"put", "insert", "publish", "commit"}

TypeOK ==
  /\ pc \in [Requests -> Ended \cup Steps \cup {"idle"}]
  /\ version \in [Requests -> 0..(Cardinality(Requests) + 1)]
  /\ \A r \in Requests : pc[r] \in Steps => version[r] # 0
  /\ objects \subseteq Files
  /\ pending \subseteq Requests /\ rows \subseteq Requests
  /\ active \subseteq rows
  /\ queued \subseteq Requests
  /\ unique \in BOOLEAN
  /\ doubtful \subseteq Requests
  /\ before \in [Requests -> SUBSET rows]
  /\ counted \in [Requests -> SUBSET rows]

Init ==
  /\ pc = [r \in Requests |-> "idle"]
  /\ version = [r \in Requests |-> 0]
  /\ objects = {} /\ pending = {} /\ rows = {} /\ active = {} /\ queued = {}
  /\ unique \in BOOLEAN
  /\ doubtful = {}
  /\ before = [r \in Requests |-> {}]
  /\ counted = [r \in Requests |-> {}]

GoTo(r, l) == pc' = [pc EXCEPT ![r] = l]

\* get_db's except clause, or the connection of a process that died
RolledBack(r) == pending' = pending \ {r}

\* Wrong content type or size: nothing has happened yet.
Reject(r) ==
  /\ pc[r] = "idle"
  /\ GoTo(r, "rejected")
  /\ UNCHANGED <<picked, unique, stores, doubtful>>

\* The user's resumes as list_for_user sees them: committed and active
Listed == active

\* Those get_by_id finds: a deleted one too
Found == rows

\* Mutant: the version is the number of active resumes.
PickCount(r) ==
  /\ pc[r] = "idle"
  /\ version' = [version EXCEPT ![r] = Cardinality(Listed)]
  /\ before' = [before EXCEPT ![r] = rows]
  /\ counted' = [counted EXCEPT ![r] = Listed]
  /\ GoTo(r, "put")
  /\ UNCHANGED <<unique, stores, doubtful>>

\* Mutant: an empty list counts as one, and no number is added.
PickAtLeastOne(r) ==
  /\ pc[r] = "idle"
  /\ version' = [version EXCEPT ![r] = IF Listed = {} THEN 1 ELSE Cardinality(Listed)]
  /\ before' = [before EXCEPT ![r] = rows]
  /\ counted' = [counted EXCEPT ![r] = Listed]
  /\ GoTo(r, "put")
  /\ UNCHANGED <<unique, stores, doubtful>>

PickVersion(r) ==
  /\ pc[r] = "idle"
  /\ version' = [version EXCEPT ![r] = Cardinality(Listed) + 1]
  /\ before' = [before EXCEPT ![r] = rows]
  /\ counted' = [counted EXCEPT ![r] = Listed]
  /\ GoTo(r, "put")
  /\ UNCHANGED <<unique, stores, doubtful>>

PutObject(r) ==
  /\ pc[r] = "put"
  /\ objects' = objects \cup {FileOf[r]}
  /\ GoTo(r, "insert")
  /\ UNCHANGED <<picked, unique, pending, rows, active, queued, doubtful>>

PutRaises(r) ==
  /\ pc[r] = "put"
  /\ objects' \in {objects, objects \cup {FileOf[r]}}
  /\ RolledBack(r)
  /\ GoTo(r, "failed")
  /\ UNCHANGED <<picked, unique, rows, active, queued, doubtful>>

SameVersion(r, S) == \E s \in S \ {r} : version[s] = version[r]

\* flush(); a unique index makes it wait for an open transaction that has
\* inserted the same version.
Insert(r) ==
  /\ pc[r] = "insert"
  /\ unique => ~SameVersion(r, pending \cup rows)
  /\ pending' = pending \cup {r}
  /\ GoTo(r, "publish")
  /\ UNCHANGED <<picked, unique, objects, rows, active, queued, doubtful>>

\* IntegrityError
InsertRefused(r) ==
  /\ pc[r] = "insert"
  /\ unique /\ SameVersion(r, rows)
  /\ RolledBack(r)
  /\ GoTo(r, "failed")
  /\ UNCHANGED <<picked, unique, objects, rows, active, queued, doubtful>>

\* Mutant: the record is sent and not waited for.
PublishUnawaited(r) ==
  /\ pc[r] = "publish"
  /\ queued' \in {queued, queued \cup {r}}
  /\ GoTo(r, "commit")
  /\ UNCHANGED <<picked, unique, objects, pending, rows, active, doubtful>>

Publish(r) ==
  /\ pc[r] = "publish"
  /\ queued' = queued \cup {r}
  /\ GoTo(r, "commit")
  /\ UNCHANGED <<picked, unique, objects, pending, rows, active, doubtful>>

\* Mutants: the row survives a failed publication; its transaction stays open.
PublishRaisesKept(r) ==
  /\ pc[r] = "publish"
  /\ rows' = rows \cup {r} /\ active' = active \cup {r}
  /\ RolledBack(r)
  /\ GoTo(r, "failed")
  /\ UNCHANGED <<picked, unique, objects, queued, doubtful>>
PublishRaisesOpen(r) ==
  /\ pc[r] = "publish"
  /\ GoTo(r, "failed")
  /\ UNCHANGED <<picked, unique, stores, doubtful>>

\* No producer, or publish() raises; the record may have been written.
PublishRaises(r) ==
  /\ pc[r] = "publish"
  /\ queued' \in {queued, queued \cup {r}}
  /\ RolledBack(r)
  /\ GoTo(r, "failed")
  /\ UNCHANGED <<picked, unique, objects, rows, active, doubtful>>

\* Mutant: get_db yields the session and never commits it.
CommitForgotten(r) ==
  /\ pc[r] = "commit"
  /\ RolledBack(r)
  /\ GoTo(r, "accepted")
  /\ UNCHANGED <<picked, unique, objects, rows, active, queued, doubtful>>

\* get_db commits before the 202 is sent.
Commit(r) ==
  /\ pc[r] = "commit"
  /\ pending' = pending \ {r}
  /\ rows' = rows \cup {r} /\ active' = active \cup {r}
  /\ GoTo(r, "accepted")
  /\ UNCHANGED <<picked, unique, objects, queued, doubtful>>

\* The COMMIT is sent and not answered; it may have taken effect.
Unanswered(r) ==
  /\ pc[r] = "commit"
  /\ \/ rows' = rows \cup {r} /\ active' = active \cup {r}
     \/ UNCHANGED <<rows, active>>
  /\ RolledBack(r)
  /\ doubtful' = doubtful \cup {r}
  /\ UNCHANGED <<picked, unique, objects, queued>>

\* It raises: the connection is lost, or PostgreSQL refuses.
CommitRaises(r) == Unanswered(r) /\ GoTo(r, "failed")

\* The process serving the request ends, at any await, the COMMIT's included.
Crash(r) ==
  /\ pc[r] \in Steps
  /\ GoTo(r, "crashed")
  /\ \/ RolledBack(r) /\ UNCHANGED <<picked, unique, objects, rows, active, queued, doubtful>>
     \/ Unanswered(r)

Delete(r) ==
  /\ r \in Found
  /\ active' = active \ {r}
  /\ UNCHANGED <<pc, picked, unique, objects, pending, rows, queued, doubtful>>

Step(r) ==
  \/ PutObject(r) \/ PutRaises(r) \/ Insert(r) \/ InsertRefused(r)
  \/ Publish(r) \/ PublishRaises(r) \/ Commit(r) \/ CommitRaises(r)

Next ==
  \/ \E r \in Requests : Reject(r) \/ PickVersion(r) \/ Step(r) \/ Crash(r) \/ Delete(r)

Spec == Init /\ [][Next]_vars

\* A running request goes on: S3, PostgreSQL and Kafka answer or time out.
FairSpec == Spec /\ \A r \in Requests : WF_vars(Step(r))

(***************************************************************************)
(* Properties                                                              *)
(***************************************************************************)
\* A request that was told 202 has its file, its row and its event: none of
\* the three stores is ahead of what the client knows.
AcceptedIsDurable ==
  \A r \in Requests : pc[r] = "accepted" => r \in rows /\ r \in queued /\ FileOf[r] \in objects

\* A row nobody will parse cannot exist: whatever failed or crashed, a
\* committed row has its event in resume.parse and its file in the bucket.
RowsAreQueued == \A r \in rows : r \in queued /\ FileOf[r] \in objects

\* A request that failed or whose process died holds no transaction open, and
\* it left a row behind only if it had sent its COMMIT and heard no answer: a
\* client that retries after any other failure finds nothing of the first try.
FailureLeavesNoRow ==
  \A r \in Requests : pc[r] \in {"failed", "crashed"} =>
    r \notin pending /\ (r \in rows => r \in doubtful)

\* Versions rise from an upload to those that start when its row is there, with
\* or without the unique constraint, unless a resume was deleted in between: s
\* gets a number not above r's only if a resume r had counted, or r itself, was
\* in the table and no longer active when s counted.  (Uploads that overlap may
\* share a number.)
VersionsRise ==
  \A r, s \in rows : r \in before[s] /\ version[s] <= version[r] =>
    \E d \in counted[r] \cup {r} : d \in before[s] \ counted[s]

\* Every upload gets its answer, even when its INSERT waits for the
\* transaction of another one.
EveryUploadEnds == \A r \in Requests : pc[r] \in Steps ~> pc[r] \in Ended

\* resume_service.py:31, "Get next version number": the number picked is not
\* that of a row the table already holds.
NextVersionFresh ==
  [][\A r \in Requests :
       pc[r] = "idle" /\ pc'[r] = "put" => \A s \in rows : version[s] # version'[r]]_vars

================================================================================
