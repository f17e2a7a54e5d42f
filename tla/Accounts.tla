-------------------------------- MODULE Accounts --------------------------------
(***************************************************************************)
(* Accounts of user-service: registration, login, the current user of a     *)
(* token, preferences and the request for erasure (app/api/v1/routes/auth.py *)
(* and users.py, services/user_service.py, core/deps.py, core/security.py,   *)
(* models/base.py, db/session.py).                                          *)
(*                                                                         *)
(* Handlers interleave at their queries and commits.  An account is named   *)
(* by the registration that inserted it.  Who proved which password is     *)
(* known to the model only ("by"); the code knows the token's subject.      *)
(***************************************************************************)
EXTENDS Naturals, FiniteSets, Sequences

CONSTANTS Registrations,  \* POST /register requests
          Email,          \* the address each gives
          Password,       \* its password
          Updates,        \* PATCH /me/preferences requests
          Erasures,       \* DELETE /me requests
          Keys,           \* keys of preferences
          Values,         \* their values
          Payload         \* the preferences each update gives

ASSUME AccountsAssumption ==
  /\ \A q \in Updates : \E S \in SUBSET Keys : Payload[q] \in [S -> Values]
  /\ Updates \cap Erasures = {}
  /\ "nobody" \notin Registrations

Requests == Updates \cup Erasures

VARIABLES
  pc,        \* where each registration is
  pending,   \* accounts inserted by open transactions
  accounts,  \* committed accounts
  prefs,     \* the preferences of each
  tokens,    \* tokens clients hold, not yet expired
  at,        \* where each authenticated request is
  who,       \* whom it acts for, and on which account
  base,      \* preferences of the object its session loaded
  read,      \* history: length of the log when they were loaded
  log,       \* history: updates in the order of their commits
  deletions  \* events in user.deletion_requested

registering == <<pc, pending>>
handling == <<at, who, base, read>>
vars == <<registering, accounts, prefs, tokens, handling, log, deletions>>

SameCredentials(r, a) == Email[r] = Email[a] /\ Password[r] = Password[a]

\* Given for the credentials of registration "by", with the account as subject
Token == [by : Registrations, sub : Registrations]
Nobody == [by |-> "nobody", sub |-> "nobody"]
Preferences == [Keys -> Values \cup {"unset"}]
NoPreferences == [k \in Keys |-> "unset"]

TypeOK ==
  /\ pc \in [Registrations -> {"idle", "insert", "commit", "created", "refused", "failed"}]
  /\ pending = {r \in Registrations : pc[r] = "commit"}
  /\ accounts \subseteq Registrations
  /\ prefs \in [Registrations -> Preferences]
  /\ tokens \subseteq Token
  /\ at \in [Requests -> {"idle", "reload", "publish", "commit", "done", "failed"}]
  /\ who \in [Requests -> Token \cup {Nobody}]
  /\ \A q \in Requests : at[q] \in {"reload", "publish", "commit"} => who[q] \in Token
  /\ base \in [Requests -> Preferences]
  /\ read \in [Requests -> Nat]
  /\ log \in Seq(Updates)
  /\ deletions \subseteq Token

Init ==
  /\ pc = [r \in Registrations |-> "idle"]
  /\ pending = {} /\ accounts = {} /\ tokens = {} /\ deletions = {}
  /\ prefs = [r \in Registrations |-> NoPreferences]
  /\ at = [q \in Requests |-> "idle"]
  /\ who = [q \in Requests |-> Nobody]
  /\ base = [q \in Requests |-> NoPreferences]
  /\ read = [q \in Requests |-> 0]
  /\ log = << >>

(***************************************************************************)
(* register and login                                                      *)
(***************************************************************************)
Goes(r, l) == pc' = [pc EXCEPT ![r] = l]

SameEmail(r, S) == \E a \in S : Email[a] = Email[r]

\* get_by_email: 409 when the address has an account.
CheckEmail(r) ==
  /\ pc[r] = "idle"
  /\ Goes(r, IF SameEmail(r, accounts) THEN "refused" ELSE "insert")
  /\ UNCHANGED <<pending, accounts, prefs, tokens, handling, log, deletions>>

\* The INSERT waits for an open one of the same address.
Insert(r) ==
  /\ pc[r] = "insert" /\ ~SameEmail(r, pending \cup accounts)
  /\ pending' = pending \cup {r}
  /\ Goes(r, "commit")
  /\ UNCHANGED <<accounts, prefs, tokens, handling, log, deletions>>

\* get_db commits; then the token, made before, is sent.
Create(r) ==
  /\ pc[r] = "commit"
  /\ pending' = pending \ {r}
  /\ accounts' = accounts \cup {r}
  /\ tokens' = tokens \cup {[by |-> r, sub |-> r]}
  /\ Goes(r, "created")
  /\ UNCHANGED <<prefs, handling, log, deletions>>

\* Mutant: the exception leaves the transaction open.
RegisterFailsOpen(r) ==
  /\ pc[r] \in {"insert", "commit"}
  /\ Goes(r, "failed")
  /\ UNCHANGED <<pending, accounts, prefs, tokens, handling, log, deletions>>

\* 500: the unique index refuses a second account of the address, or a
\* query or the commit raises; the commit may have taken effect.
RegisterFails(r) ==
  /\ pc[r] \in {"insert", "commit"}
  /\ pending' = pending \ {r}
  /\ accounts' \in {accounts, accounts \cup (pending \cap {r})}
  /\ Goes(r, "failed")
  /\ UNCHANGED <<prefs, tokens, handling, log, deletions>>

\* Anyone may give the address and the password of r.
Login(r) ==
  /\ \E a \in accounts :
       /\ SameCredentials(r, a)
       /\ tokens' = tokens \cup {[by |-> r, sub |-> a]}
  /\ UNCHANGED <<registering, accounts, prefs, handling, log, deletions>>

TokenExpires(k) ==
  /\ tokens' = tokens \ {k}
  /\ UNCHANGED <<registering, accounts, prefs, handling, log, deletions>>

(***************************************************************************)
(* Requests of a current user                                              *)
(***************************************************************************)
\* Mutant: the subject of a token is the address.
AuthenticateByEmail(q, k) ==
  /\ at[q] = "idle"
  /\ \E a \in accounts :
       /\ Email[a] = Email[k.sub]
       /\ at' = [at EXCEPT ![q] = IF q \in Updates THEN "reload" ELSE "publish"]
       /\ who' = [who EXCEPT ![q] = [k EXCEPT !.sub = a]]
       /\ base' = [base EXCEPT ![q] = prefs[a]]
  /\ read' = [read EXCEPT ![q] = Len(log)]
  /\ UNCHANGED <<registering, accounts, prefs, tokens, log, deletions>>

\* get_current_user: a valid token whose account is there.
Authenticate(q, k) ==
  /\ at[q] = "idle" /\ k.sub \in accounts
  /\ at' = [at EXCEPT ![q] = IF q \in Updates THEN "reload" ELSE "publish"]
  /\ who' = [who EXCEPT ![q] = k]
  /\ base' = [base EXCEPT ![q] = prefs[k.sub]]
  /\ read' = [read EXCEPT ![q] = Len(log)]
  /\ UNCHANGED <<registering, accounts, prefs, tokens, log, deletions>>

\* 401, 404, or any query or publication raises.
Fails(q) ==
  /\ at[q] \in {"idle", "reload", "publish", "commit"}
  /\ at' = [at EXCEPT ![q] = "failed"]
  /\ UNCHANGED <<registering, accounts, prefs, tokens, who, base, read, log, deletions>>

\* update_preferences selects the user again.  The session keeps only weak
\* references: it may still have the object get_current_user loaded, with the
\* preferences of then, or load a new one.
Reload(q) ==
  /\ at[q] = "reload" /\ who[q].sub \in accounts
  /\ at' = [at EXCEPT ![q] = "commit"]
  /\ \/ UNCHANGED <<base, read>>
     \/ /\ base' = [base EXCEPT ![q] = prefs[who[q].sub]]
        /\ read' = [read EXCEPT ![q] = Len(log)]
  /\ UNCHANGED <<registering, accounts, prefs, tokens, who, log, deletions>>

\* The keys of its payload
KeysOf(q) == DOMAIN Payload[q]

\* Mutant: the payload replaces the preferences.
Replaced(q) == [k \in Keys |-> IF k \in KeysOf(q) THEN Payload[q][k] ELSE "unset"]

\* {**user.preferences, **payload.preferences}
Merged(q) == [k \in Keys |-> IF k \in KeysOf(q) THEN Payload[q][k] ELSE base[q][k]]

\* The session compares what it is given with what it loaded: of equal
\* preferences it sends no UPDATE.
Changes(q) == Merged(q) # base[q]

\* The UPDATE and the commit; of an erased row it raises.  The client may get
\* no answer although it took effect.
Update(q) ==
  /\ at[q] = "commit"
  /\ IF Changes(q)
     THEN /\ who[q].sub \in accounts
          /\ prefs' = [prefs EXCEPT ![who[q].sub] = Merged(q)]
     ELSE UNCHANGED prefs
  /\ log' = Append(log, q)
  /\ at' \in {[at EXCEPT ![q] = l] : l \in {"done", "failed"}}
  /\ UNCHANGED <<registering, accounts, tokens, who, base, read, deletions>>

\* delete_account only publishes; the event may be stored and the call raise.
RequestDeletion(q) ==
  /\ at[q] = "publish"
  /\ deletions' = deletions \cup {who[q]}
  /\ at' \in {[at EXCEPT ![q] = l] : l \in {"done", "failed"}}
  /\ UNCHANGED <<registering, accounts, prefs, tokens, who, base, read, log>>

\* Whatever consumes the event removes the row.
Erase(d) ==
  /\ accounts' = accounts \ {d.sub}
  /\ UNCHANGED <<registering, prefs, tokens, handling, log, deletions>>

Next ==
  \/ \E r \in Registrations :
       CheckEmail(r) \/ Insert(r) \/ Create(r) \/ RegisterFails(r) \/ Login(r)
  \/ \E k \in tokens : TokenExpires(k) \/ \E q \in Requests : Authenticate(q, k)
  \/ \E q \in Updates : Reload(q) \/ Update(q)
  \/ \E q \in Erasures : RequestDeletion(q)
  \/ \E q \in Requests : Fails(q)
  \/ \E d \in deletions : Erase(d)

Spec == Init /\ [][Next]_vars

(***************************************************************************)
(* Properties                                                              *)
(***************************************************************************)
\* Only who proved an account's address and password acts on it, although
\* tokens outlive accounts and an address can be registered again by another
\* person; and an account answered with 201 is there, whatever other
\* registrations of its address do, until its owner has asked for erasure.
OnlyItsOwner ==
  /\ \A d \in deletions : SameCredentials(d.by, d.sub)
  /\ \A q \in Requests : who[q] # Nobody => SameCredentials(who[q].by, who[q].sub)
  /\ \A r \in Registrations :
       pc[r] = "created" => r \in accounts \/ \E d \in deletions : d.sub = r

SameAccount(p, q) == who[p].sub = who[q].sub

\* A preference an update was answered for is the one in the table, unless a
\* later UPDATE gave that key or was made from preferences read before this
\* update committed; or unless the session sent nothing, because it had loaded
\* just these preferences, and another update had changed them since.
LostOnlyToOverlap ==
  \A i \in 1..Len(log) : \A k \in KeysOf(log[i]) :
    \/ prefs[who[log[i]].sub][k] = Payload[log[i]][k]
    \/ \E j \in (i + 1)..Len(log) :
         /\ SameAccount(log[j], log[i]) /\ Changes(log[j])
         /\ k \in KeysOf(log[j]) \/ read[log[j]] < i
    \/ /\ ~Changes(log[i])
       /\ \E j \in (read[log[i]] + 1)..(i - 1) :
            SameAccount(log[j], log[i]) /\ Changes(log[j])

================================================================================
