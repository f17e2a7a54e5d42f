-------------------------------- MODULE JobStore --------------------------------
(***************************************************************************)
(* Storing job postings once (job-service/app/services/dedup_service.py,    *)
(* JobService.upsert, the unique content_hash of models/job_model.py and    *)
(* the transaction get_db of db/session.py wraps round every session).      *)
(*                                                                         *)
(* A caller asks is_duplicate, upserts and marks URLs seen, in any order;   *)
(* nothing in the repository fixes one.  Its session commits when it        *)
(* returns.  Changes to a loaded row are sent by the next query (autoflush) *)
(* or by the commit, and PostgreSQL makes a write wait for the transaction  *)
(* that wrote the same row or the same hash.  A posting is its URL and the  *)
(* content hash of its text: texts equal up to case and white space are one.*)
(***************************************************************************)
EXTENDS Naturals, FiniteSets

CONSTANTS Sessions,  \* database sessions, each used once
          Urls,
          Texts,     \* content hashes
          MaxCalls   \* bound: calls of one session

ASSUME StoreAssumption ==
  /\ IsFiniteSet(Sessions) /\ IsFiniteSet(Texts)
  /\ MaxCalls \in Nat

VARIABLES
  pc,      \* where each session is
  calls,   \* calls it has made
  query,   \* the text it is asking about or upserting, and, for a posting that
           \* was marked and stored when it asked, whether Redis had the mark
  dirty,   \* loaded rows it has changed and not yet sent
  held,    \* rows it has written in its open transaction
  rows,    \* committed rows, by their content hash
  bloom,   \* URLs in the Bloom filter
  marked,  \* history: URLs a call to mark_seen has returned for
  relied,  \* history: texts the session knows as duplicates or has upserted
  missed   \* history: marks, in Redis or not, of postings marked and stored
           \* that a session was told are new

local == <<dirty, held>>
filter == <<bloom, marked>>
vars == <<pc, calls, query, local, rows, filter, relied, missed>>

Waits == {"lookup", "select", "insert", "commit"}
Live == {"open"} \cup Waits

Marks == {"none", "kept", "lost"}

TypeOK ==
  /\ pc \in [Sessions -> Live \cup {"ended", "failed"}]
  /\ calls \in [Sessions -> 0..MaxCalls]
  /\ query \in [Sessions -> [text : Texts \cup {"none"}, mark : Marks]]
  /\ \A s \in Sessions : pc[s] \in {"lookup", "select", "insert"} => query[s].text \in Texts
  /\ dirty \in [Sessions -> SUBSET Texts]
  /\ \A s \in Sessions : Cardinality(dirty[s]) <= 1
  /\ held \in [Sessions -> SUBSET Texts]
  /\ rows \subseteq Texts
  /\ bloom \subseteq marked /\ marked \subseteq Urls
  /\ relied \in [Sessions -> SUBSET Texts]
  /\ missed \subseteq Marks \ {"none"}

Init ==
  /\ pc = [s \in Sessions |-> "open"]
  /\ calls = [s \in Sessions |-> 0]
  /\ query = [s \in Sessions |-> [text |-> "none", mark |-> "none"]]
  /\ dirty = [s \in Sessions |-> {}]
  /\ held = [s \in Sessions |-> {}]
  /\ rows \in SUBSET Texts
  /\ bloom = {} /\ marked = {}
  /\ relied = [s \in Sessions |-> {}]
  /\ missed = {}

GoTo(s, l) == pc' = [pc EXCEPT ![s] = l]

\* A session sees what is committed and what it has written itself.
Visible(s) == rows \cup held[s]

Relies(s, t) == relied' = [relied EXCEPT ![s] = @ \cup {t}]

Call(s) ==
  /\ pc[s] = "open" /\ calls[s] < MaxCalls
  /\ calls' = [calls EXCEPT ![s] = @ + 1]

(***************************************************************************)
(* is_duplicate                                                            *)
(***************************************************************************)
Question(s, u, t) ==
  [text |-> t,
   mark |-> IF u \notin marked \/ t \notin Visible(s) THEN "none"
            ELSE IF u \in bloom THEN "kept" ELSE "lost"]

Answer(s, q, dup) ==
  /\ GoTo(s, "open")
  /\ IF dup THEN Relies(s, q.text) ELSE UNCHANGED relied
  /\ missed' = IF dup THEN missed ELSE missed \cup ({q.mark} \ {"none"})

\* Not in the filter: new, whatever the table holds.
BloomMiss(s, u, t) ==
  /\ Call(s) /\ u \notin bloom
  /\ Answer(s, Question(s, u, t), FALSE)
  /\ UNCHANGED <<query, local, rows, filter>>

\* Mutant: a hit is the answer.
BloomHitTrusted(s, u, t) ==
  /\ Call(s)
  /\ Answer(s, Question(s, u, t), TRUE)
  /\ UNCHANGED <<query, local, rows, filter>>

\* Mutant: without an answer from Redis the posting is new.
BloomErrorIsNew(s, u, t) ==
  /\ Call(s)
  /\ Answer(s, Question(s, u, t), FALSE)
  /\ UNCHANGED <<query, local, rows, filter>>

\* A hit, which for any URL may be a false positive, or no answer from Redis:
\* the table decides.
BloomHit(s, u, t) ==
  /\ Call(s)
  /\ query' = [query EXCEPT ![s] = Question(s, u, t)]
  /\ GoTo(s, "lookup")
  /\ UNCHANGED <<local, rows, filter, relied, missed>>

Lookup(s) ==
  /\ pc[s] = "lookup" /\ dirty[s] = {}
  /\ Answer(s, query[s], query[s].text \in Visible(s))
  /\ query' = [query EXCEPT ![s].mark = "none"]
  /\ UNCHANGED <<calls, local, rows, filter>>

(***************************************************************************)
(* mark_seen                                                               *)
(***************************************************************************)
MarkSeen(s, u) ==
  /\ Call(s)
  /\ bloom' = bloom \cup {u} /\ marked' = marked \cup {u}
  /\ UNCHANGED <<pc, query, local, rows, relied, missed>>

\* BF.ADD raises, done or not; the caller takes the URL for marked.
MarkSwallowed(s, u) ==
  /\ Call(s)
  /\ bloom' \in {bloom, bloom \cup {u}} /\ marked' = marked \cup {u}
  /\ UNCHANGED <<pc, query, local, rows, relied, missed>>

\* Redis restarts empty or evicts the key.
FilterLost ==
  /\ bloom' = {}
  /\ UNCHANGED <<pc, calls, query, local, rows, marked, relied, missed>>

(***************************************************************************)
(* upsert                                                                  *)
(***************************************************************************)
Upsert(s, t) ==
  /\ Call(s)
  /\ query' = [query EXCEPT ![s] = [text |-> t, mark |-> "none"]]
  /\ GoTo(s, "select")
  /\ UNCHANGED <<local, rows, filter, relied, missed>>

\* Mutant: the SELECT does not flush first.
SelectUnflushed(s) ==
  /\ pc[s] = "select"
  /\ LET t == query[s].text
     IN IF t \in Visible(s)
        THEN /\ dirty' = [dirty EXCEPT ![s] = @ \cup {t}]
             /\ GoTo(s, "open") /\ Relies(s, t)
        ELSE GoTo(s, "insert") /\ UNCHANGED <<dirty, relied>>
  /\ UNCHANGED <<calls, query, held, rows, filter, missed>>

\* A row that is there gets last_seen_at; the same time is no change.
Select(s) ==
  /\ pc[s] = "select" /\ dirty[s] = {}
  /\ LET t == query[s].text
     IN IF t \in Visible(s)
        THEN /\ \E d \in {{}, {t}} : dirty' = [dirty EXCEPT ![s] = d]
             /\ GoTo(s, "open") /\ Relies(s, t)
        ELSE GoTo(s, "insert") /\ UNCHANGED <<dirty, relied>>
  /\ UNCHANGED <<calls, query, held, rows, filter, missed>>

\* What the statement a session is executing writes
Writes(s) == IF pc[s] = "insert" THEN {query[s].text} ELSE dirty[s]

WaitsFor(s) == {o \in Sessions \ {s} : pc[s] \in Waits /\ Writes(s) \cap held[o] # {}}

Insert(s) ==
  /\ pc[s] = "insert" /\ WaitsFor(s) = {}
  /\ query[s].text \notin rows
  /\ held' = [held EXCEPT ![s] = @ \cup {query[s].text}]
  /\ GoTo(s, "open") /\ Relies(s, query[s].text)
  /\ UNCHANGED <<calls, query, dirty, rows, filter, missed>>

\* The autoflush of a query, or the flush of the commit
Flush(s) ==
  /\ pc[s] \in Waits \ {"insert"} /\ dirty[s] # {} /\ WaitsFor(s) = {}
  /\ held' = [held EXCEPT ![s] = @ \cup dirty[s]]
  /\ dirty' = [dirty EXCEPT ![s] = {}]
  /\ UNCHANGED <<pc, calls, query, rows, filter, relied, missed>>

(***************************************************************************)
(* get_db                                                                  *)
(***************************************************************************)
Return(s) ==
  /\ pc[s] = "open"
  /\ GoTo(s, "commit")
  /\ UNCHANGED <<calls, query, local, rows, filter, relied, missed>>

Commit(s) ==
  /\ pc[s] = "commit" /\ dirty[s] = {}
  /\ rows' = rows \cup held[s]
  /\ held' = [held EXCEPT ![s] = {}]
  /\ GoTo(s, "ended")
  /\ UNCHANGED <<calls, query, dirty, filter, relied, missed>>

\* Mutant: the exception leaves the transaction open.
RollbackForgotten(s) ==
  /\ GoTo(s, "failed")
  /\ UNCHANGED <<calls, query, local, rows, filter, relied, missed>>

Rollback(s) ==
  /\ GoTo(s, "failed")
  /\ held' = [held EXCEPT ![s] = {}]
  /\ dirty' = [dirty EXCEPT ![s] = {}]
  /\ UNCHANGED <<calls, query, rows, filter, relied, missed>>

\* IntegrityError: another session has stored the text since the SELECT.
InsertRefused(s) ==
  /\ pc[s] = "insert" /\ WaitsFor(s) = {}
  /\ query[s].text \in rows
  /\ Rollback(s)

\* Every session of S waits only for sessions of S.
WaitsWithin(S) == \A o \in S : WaitsFor(o) \subseteq S

\* s waits, through others, for itself: PostgreSQL aborts it.
Deadlocked(s) ==
  \A S \in SUBSET Sessions : WaitsFor(s) \subseteq S /\ WaitsWithin(S) => s \in S

DeadlockDetected(s) == Deadlocked(s) /\ Rollback(s)

\* Any call raises: the connection, the caller, a row without its title or
\* with last_seen_at set to None.
Raises(s) == pc[s] \in Live /\ Rollback(s)

\* COMMIT raises although it took effect.
CommitUnanswered(s) ==
  /\ pc[s] = "commit" /\ dirty[s] = {}
  /\ rows' = rows \cup held[s]
  /\ held' = [held EXCEPT ![s] = {}]
  /\ GoTo(s, "failed")
  /\ UNCHANGED <<calls, query, dirty, filter, relied, missed>>

Use(s) ==
  \/ \E u \in Urls : MarkSeen(s, u) \/ MarkSwallowed(s, u)
  \/ \E u \in Urls, t \in Texts : BloomMiss(s, u, t) \/ BloomHit(s, u, t)
  \/ \E t \in Texts : Upsert(s, t)

Step(s) ==
  \/ Lookup(s) \/ Select(s) \/ Insert(s) \/ InsertRefused(s) \/ Flush(s)
  \/ DeadlockDetected(s) \/ Return(s) \/ Commit(s)

Next ==
  \/ \E s \in Sessions : Use(s) \/ Step(s) \/ Raises(s) \/ CommitUnanswered(s)
  \/ FilterLost

Spec == Init /\ [][Next]_vars

\* Callers return, and PostgreSQL executes, refuses or aborts a statement that
\* waits for nobody or for itself.
FairSpec == Spec /\ \A s \in Sessions : WF_vars(Step(s))

(***************************************************************************)
(* Properties                                                              *)
(***************************************************************************)
\* What a session was told is a duplicate, or has upserted, is stored when it
\* has committed, and until then is stored or its own: marking a URL before
\* a commit that fails, a false positive of the filter or an outage of Redis
\* never makes a posting disappear as the duplicate of nothing.
KnownIsStored == \A s \in Sessions : pc[s] # "failed" => relied[s] \subseteq Visible(s)

\* A posting whose URL was marked and whose text was stored before the question
\* is reported as new only if Redis did not have its mark: BF.ADD had failed
\* unnoticed, or the filter was lost since.  The answer is then given without
\* the table, which the docstring calls authoritative.  While Redis has the
\* mark the table decides, whether BF.EXISTS answers or fails.
MissNeedsLostMark == "kept" \notin missed

\* Follow whatever a live session waits for: there is a live session that waits
\* for nobody or that PostgreSQL aborts.
SomeoneMoves ==
  \A s \in Sessions, S \in SUBSET Sessions :
    pc[s] \in Live /\ s \in S /\ WaitsWithin(S)
      => \E o \in S : pc[o] \in Live /\ (WaitsFor(o) = {} \/ Deadlocked(o))

\* No session hangs: whatever sessions wait for each other's rows or hashes,
\* in any order, each commits or fails.
EverySessionEnds == \A s \in Sessions : pc[s] \in Live ~> pc[s] \in {"ended", "failed"}

================================================================================
