----------------------------- MODULE AccountsProofs -----------------------------
(***************************************************************************)
(* Proofs about Accounts, for any registrations, updates and erasures.      *)
(*                                                                         *)
(* OnlyItsOwner is inductive with the tokens clients hold added to it.       *)
(* LostOnlyToOverlap needs what a running update carries: the preferences   *)
(* its session loaded keep, of every update committed before they were      *)
(* loaded, what the table kept of it then, and are those of the table still *)
(* unless an UPDATE has been sent since.                                    *)
(***************************************************************************)
EXTENDS Accounts, TLAPS

\* The updates whose session sent an UPDATE, or will
Sent == {q \in Updates : Changes(q)}

\* Of the first n updates in log l, f keeps what those of account a gave; w and
\* r give whom an update acted for and when it read, c those that changed a row.
KeepsIn(f, n, a, l, w, r, c) ==
  \A i \in 1..n : w[l[i]].sub = a => \A k \in KeysOf(l[i]) :
    \/ f[k] = Payload[l[i]][k]
    \/ \E j \in (i + 1)..n :
         w[l[j]].sub = a /\ l[j] \in c /\ (k \in KeysOf(l[j]) \/ r[l[j]] < i)
    \/ l[i] \notin c /\ \E j \in (r[l[i]] + 1)..(i - 1) : w[l[j]].sub = a /\ l[j] \in c

Keeps(f, n, a) == KeepsIn(f, n, a, log, who, read, Sent)

TokensOwned == \A k \in tokens : SameCredentials(k.by, k.sub)

\* A committed update is over.
LoggedOver ==
  \A i \in 1..Len(log) : at[log[i]] \in {"done", "failed"} /\ who[log[i]] \in Token

BaseKeeps ==
  \A q \in Updates : at[q] \in {"reload", "commit"} =>
    read[q] <= Len(log) /\ Keeps(base[q], read[q], who[q].sub)

\* What an update has loaded is in the table, or an UPDATE was sent since.
BaseCurrent ==
  \A q \in Updates : at[q] \in {"reload", "commit"} =>
    \/ base[q] = prefs[who[q].sub]
    \/ \E j \in (read[q] + 1)..Len(log) :
         who[log[j]].sub = who[q].sub /\ log[j] \in Sent

TableKeeps == \A a \in Registrations : Keeps(prefs[a], Len(log), a)

LogInv == LoggedOver /\ BaseKeeps /\ BaseCurrent /\ TableKeeps

\* Mapped keys stay preferences.
LEMMA MergedType ==
  ASSUME TypeOK, NEW q \in Updates
  PROVE  Merged(q) \in Preferences
<1>1. base[q] \in Preferences
  BY DEF TypeOK, Requests
<1>2. \A k \in KeysOf(q) : Payload[q][k] \in Values
  BY AccountsAssumption DEF KeysOf
<1> QED
  BY <1>1, <1>2 DEF Merged, Preferences

LEMMA TypeStep == TypeOK /\ [Next]_vars => TypeOK'
<1> SUFFICES ASSUME TypeOK, [Next]_vars PROVE TypeOK'
  OBVIOUS
<1> USE DEF TypeOK, registering, handling
<1>1. ASSUME NEW r \in Registrations, CheckEmail(r) PROVE TypeOK'
  BY <1>1 DEF CheckEmail, Goes
<1>2. ASSUME NEW r \in Registrations, Insert(r) PROVE TypeOK'
  BY <1>2 DEF Insert, Goes
<1>3. ASSUME NEW r \in Registrations, Create(r) PROVE TypeOK'
  BY <1>3 DEF Create, Goes, Token
<1>4. ASSUME NEW r \in Registrations, RegisterFails(r) PROVE TypeOK'
  BY <1>4 DEF RegisterFails, Goes
<1>5. ASSUME NEW r \in Registrations, Login(r) PROVE TypeOK'
  BY <1>5 DEF Login, Token
<1>6. ASSUME NEW k \in tokens, TokenExpires(k) PROVE TypeOK'
  BY <1>6 DEF TokenExpires
<1>7. ASSUME NEW k \in tokens, NEW q \in Requests, Authenticate(q, k) PROVE TypeOK'
  <2>1. k \in Token /\ k.sub \in Registrations /\ prefs[k.sub] \in Preferences
    BY DEF Token
  <2>2. Len(log) \in Nat
    OBVIOUS
  <2> QED
    BY <1>7, <2>1, <2>2 DEF Authenticate
<1>8. ASSUME NEW q \in Updates, Reload(q) PROVE TypeOK'
  <2>1. q \in Requests /\ who[q].sub \in Registrations
    BY <1>8 DEF Reload, Requests
  <2>2. prefs[who[q].sub] \in Preferences /\ Len(log) \in Nat
    BY <2>1
  <2>3. /\ base' \in [Requests -> Preferences] /\ read' \in [Requests -> Nat]
    BY <1>8, <2>1, <2>2 DEF Reload
  <2> QED
    BY <1>8, <2>1, <2>3 DEF Reload
<1>9. ASSUME NEW q \in Updates, Update(q) PROVE TypeOK'
  <2>1. q \in Requests /\ Merged(q) \in Preferences
    BY MergedType DEF Requests
  <2>2. prefs' \in [Registrations -> Preferences] /\ log' \in Seq(Updates)
    <3>1. CASE Changes(q)
      BY <1>9, <2>1, <3>1 DEF Update
    <3>2. CASE ~Changes(q)
      BY <1>9, <2>1, <3>2 DEF Update
    <3> QED
      BY <3>1, <3>2
  <2>3. at' = [at EXCEPT ![q] = "done"] \/ at' = [at EXCEPT ![q] = "failed"]
    BY <1>9 DEF Update
  <2> QED
    BY <1>9, <2>1, <2>2, <2>3 DEF Update
<1>10. ASSUME NEW q \in Erasures, RequestDeletion(q) PROVE TypeOK'
  <2>1. q \in Requests /\ who[q] \in Token
    BY <1>10 DEF RequestDeletion, Requests
  <2>2. at' = [at EXCEPT ![q] = "done"] \/ at' = [at EXCEPT ![q] = "failed"]
    BY <1>10 DEF RequestDeletion
  <2> QED
    BY <1>10, <2>1, <2>2 DEF RequestDeletion
<1>11. ASSUME NEW q \in Requests, Fails(q) PROVE TypeOK'
  BY <1>11 DEF Fails
<1>12. ASSUME NEW d \in deletions, Erase(d) PROVE TypeOK'
  BY <1>12 DEF Erase
<1>13. CASE UNCHANGED vars
  BY <1>13 DEF vars
<1> QED
  BY <1>1, <1>2, <1>3, <1>4, <1>5, <1>6, <1>7, <1>8, <1>9, <1>10, <1>11, <1>12, <1>13 DEF Next

LEMMA OwnerStep ==
  ASSUME TypeOK, TokensOwned, OnlyItsOwner, [Next]_vars
  PROVE  (TokensOwned /\ OnlyItsOwner)'
<1> USE DEF TypeOK, TokensOwned, OnlyItsOwner, registering, handling
<1> DEFINE Goal == (TokensOwned /\ OnlyItsOwner)'
<1>1. ASSUME NEW r \in Registrations, CheckEmail(r) \/ Insert(r) \/ RegisterFails(r) PROVE Goal
  BY <1>1 DEF CheckEmail, Insert, RegisterFails, Goes, SameCredentials
<1>2. ASSUME NEW r \in Registrations, Create(r) PROVE Goal
  BY <1>2 DEF Create, Goes, SameCredentials
<1>3. ASSUME NEW r \in Registrations, Login(r) PROVE Goal
  BY <1>3 DEF Login, SameCredentials
<1>4. ASSUME NEW k \in tokens, TokenExpires(k) PROVE Goal
  BY <1>4 DEF TokenExpires, SameCredentials
<1>5. ASSUME NEW k \in tokens, NEW q \in Requests, Authenticate(q, k) PROVE Goal
  BY <1>5 DEF Authenticate, SameCredentials
<1>6. ASSUME NEW q \in Updates, Reload(q) \/ Update(q) PROVE Goal
  BY <1>6 DEF Reload, Update, SameCredentials
<1>7. ASSUME NEW q \in Erasures, RequestDeletion(q) PROVE Goal
  <2>1. q \in Requests /\ who[q] \in Token
    BY <1>7 DEF RequestDeletion, Requests
  <2>2. who[q] # Nobody
    BY <2>1, AccountsAssumption DEF Token, Nobody
  <2> QED
    BY <1>7, <2>1, <2>2 DEF RequestDeletion, SameCredentials
<1>8. ASSUME NEW q \in Requests, Fails(q) PROVE Goal
  BY <1>8 DEF Fails, SameCredentials
<1>9. ASSUME NEW d \in deletions, Erase(d) PROVE Goal
  BY <1>9 DEF Erase, SameCredentials
<1>10. CASE UNCHANGED vars
  BY <1>10 DEF vars, SameCredentials
<1> QED
  BY <1>1, <1>2, <1>3, <1>4, <1>5, <1>6, <1>7, <1>8, <1>9, <1>10 DEF Next

(***************************************************************************)
(* The log                                                                 *)
(***************************************************************************)
\* Whether the first n updates are kept depends on no later one, nor on what
\* requests outside the log do.
LEMMA KeepsFrame ==
  ASSUME NEW f, NEW n \in Nat, NEW a, NEW l, NEW w, NEW r, NEW c,
         NEW ll, NEW ww, NEW rr, NEW cc,
         KeepsIn(f, n, a, l, w, r, c),
         \A i \in 1..n : /\ ll[i] = l[i] /\ ww[l[i]] = w[l[i]] /\ rr[l[i]] = r[l[i]]
                         /\ r[l[i]] \in Nat
                         /\ l[i] \in cc <=> l[i] \in c
  PROVE  KeepsIn(f, n, a, ll, ww, rr, cc)
<1> SUFFICES ASSUME NEW i \in 1..n, ww[ll[i]].sub = a, NEW k \in KeysOf(ll[i])
             PROVE  \/ f[k] = Payload[ll[i]][k]
                    \/ \E j \in (i + 1)..n :
                         /\ ww[ll[j]].sub = a /\ ll[j] \in cc
                         /\ k \in KeysOf(ll[j]) \/ rr[ll[j]] < i
                    \/ /\ ll[i] \notin cc
                       /\ \E j \in (rr[ll[i]] + 1)..(i - 1) : ww[ll[j]].sub = a /\ ll[j] \in cc
  BY Zenon DEF KeepsIn
<1>1. ll[i] = l[i] /\ w[l[i]].sub = a /\ k \in KeysOf(l[i]) /\ rr[ll[i]] = r[l[i]]
  OBVIOUS
<1>2. CASE f[k] = Payload[l[i]][k]
  BY <1>1, <1>2
<1>3. ASSUME NEW j \in (i + 1)..n, w[l[j]].sub = a, l[j] \in c,
             k \in KeysOf(l[j]) \/ r[l[j]] < i
      PROVE  /\ ww[ll[j]].sub = a /\ ll[j] \in cc
             /\ k \in KeysOf(ll[j]) \/ rr[ll[j]] < i
  <2>1. j \in 1..n
    OBVIOUS
  <2> QED
    BY <1>3, <2>1
<1>4. ASSUME NEW j \in (r[l[i]] + 1)..(i - 1), w[l[j]].sub = a, l[j] \in c
      PROVE  ww[ll[j]].sub = a /\ ll[j] \in cc
  <2>1. j \in 1..n
    OBVIOUS
  <2> QED
    BY <1>4, <2>1
<1>5. \/ f[k] = Payload[l[i]][k]
      \/ \E j \in (i + 1)..n :
           w[l[j]].sub = a /\ l[j] \in c /\ (k \in KeysOf(l[j]) \/ r[l[j]] < i)
      \/ l[i] \notin c /\ \E j \in (r[l[i]] + 1)..(i - 1) : w[l[j]].sub = a /\ l[j] \in c
  BY <1>1 DEF KeepsIn
<1>6. ll[i] \in cc <=> l[i] \in c
  BY <1>1
<1> QED
  BY <1>1, <1>2, <1>3, <1>4, <1>5, <1>6

\* A log that goes on as before keeps what it kept.
LEMMA KeepsLonger ==
  ASSUME NEW f, NEW n \in Nat, NEW a, NEW l, NEW w, NEW r, NEW c, NEW ll,
         KeepsIn(f, n, a, l, w, r, c),
         \A i \in 1..n : ll[i] = l[i] /\ r[l[i]] \in Nat
  PROVE  KeepsIn(f, n, a, ll, w, r, c)
  BY KeepsFrame

\* A step that changes neither the log nor a request in it, nor the table,
\* and leaves running updates what they loaded.
LEMMA LogFrame ==
  ASSUME TypeOK, LogInv, log' = log, prefs' = prefs,
         \A i \in 1..Len(log) : /\ at[log[i]] = at'[log[i]] /\ base'[log[i]] = base[log[i]]
                                /\ who'[log[i]] = who[log[i]] /\ read'[log[i]] = read[log[i]],
         \A q \in Updates : at'[q] \in {"reload", "commit"} =>
           \/ /\ at[q] \in {"reload", "commit"}
              /\ base'[q] = base[q] /\ read'[q] = read[q] /\ who'[q] = who[q]
           \/ /\ base'[q] = prefs[who'[q].sub] /\ read'[q] = Len(log)
              /\ who'[q].sub \in Registrations
  PROVE  LogInv'
<1> USE DEF LogInv
<1>1. /\ Len(log) \in Nat
      /\ \A i \in 1..Len(log) : log[i] \in Updates /\ read[log[i]] \in Nat
  BY DEF TypeOK, Requests
<1>2. \A i \in 1..Len(log) : log[i] \in Sent' <=> log[i] \in Sent
  BY <1>1 DEF Sent, Changes, Merged
<1>3. LoggedOver'
  BY DEF LoggedOver
<1>4. TableKeeps'
  <2> SUFFICES ASSUME NEW a \in Registrations PROVE Keeps(prefs[a], Len(log), a)'
    BY DEF TableKeeps
  <2>1. Keeps(prefs[a], Len(log), a)
    BY DEF TableKeeps
  <2> QED
    BY <1>1, <1>2, <2>1, KeepsFrame DEF Keeps
<1>5. ASSUME NEW q \in Updates, at'[q] \in {"reload", "commit"}
      PROVE  /\ read'[q] <= Len(log') /\ Keeps(base[q], read[q], who[q].sub)'
             /\ \/ base'[q] = prefs'[who'[q].sub]
                \/ \E j \in (read'[q] + 1)..Len(log) :
                     who'[log[j]].sub = who'[q].sub /\ log[j] \in Sent'
  <2>1. CASE /\ at[q] \in {"reload", "commit"}
             /\ base'[q] = base[q] /\ read'[q] = read[q] /\ who'[q] = who[q]
    <3>1. read[q] \in Nat /\ read[q] <= Len(log) /\ Keeps(base[q], read[q], who[q].sub)
      BY <2>1 DEF BaseKeeps, TypeOK, Requests
    <3>2. \A i \in 1..read[q] : i \in 1..Len(log)
      BY <1>1, <3>1
    <3>3. Keeps(base[q], read[q], who[q].sub)'
      BY <1>1, <1>2, <2>1, <3>1, <3>2, KeepsFrame DEF Keeps
    <3>4. \A j \in (read[q] + 1)..Len(log) : j \in 1..Len(log)
      BY <1>1, <3>1
    <3>5. \/ base[q] = prefs[who[q].sub]
          \/ \E j \in (read[q] + 1)..Len(log) :
               who[log[j]].sub = who[q].sub /\ log[j] \in Sent
      BY <2>1 DEF BaseCurrent
    <3> QED
      BY <1>2, <2>1, <3>1, <3>3, <3>4, <3>5
  <2>2. CASE /\ base'[q] = prefs[who'[q].sub] /\ read'[q] = Len(log)
             /\ who'[q].sub \in Registrations
    <3>1. Keeps(prefs[who'[q].sub], Len(log), who'[q].sub)
      BY <2>2 DEF TableKeeps
    <3>2. Keeps(base[q], read[q], who[q].sub)'
      BY <1>1, <1>2, <2>2, <3>1, KeepsFrame DEF Keeps
    <3> QED
      BY <1>1, <2>2, <3>2
  <2> QED
    BY <1>5, <2>1, <2>2
<1>6. BaseKeeps' /\ BaseCurrent'
  BY <1>5 DEF BaseKeeps, BaseCurrent
<1> QED
  BY <1>3, <1>4, <1>6

\* The commit of an update: what its base lacks was committed after it was
\* read, and what it does not send was loaded or has been overwritten since.
LEMMA UpdateStep ==
  ASSUME TypeOK, LogInv, NEW q \in Updates, Update(q)
  PROVE  LogInv'
<1> DEFINE n == Len(log)
           b == who[q].sub
<1>1. /\ n \in Nat /\ log' = Append(log, q) /\ Len(log') = n + 1
      /\ \A i \in 1..n : log'[i] = log[i] /\ log[i] \in Updates
      /\ log'[n + 1] = q
  BY DEF TypeOK, Update
<1>2. who' = who /\ read' = read /\ base' = base /\ Sent' = Sent
  BY DEF Update, Sent, Changes, Merged
<1>3. /\ q \in Requests /\ at[q] = "commit" /\ b \in Registrations
      /\ at'[q] \in {"done", "failed"}
      /\ \A p \in Requests : p # q => at'[p] = at[p]
  BY DEF Update, TypeOK, Requests, Token
<1>4. read[q] \in Nat /\ read[q] <= n /\ Keeps(base[q], read[q], b)
  BY <1>3 DEF LogInv, BaseKeeps, TypeOK
<1>5. LoggedOver'
  <2> SUFFICES ASSUME NEW i \in 1..(n + 1)
               PROVE  at'[log'[i]] \in {"done", "failed"} /\ who[log'[i]] \in Token
    BY <1>1, <1>2 DEF LoggedOver
  <2>1. CASE i = n + 1
    BY <1>1, <1>3, <2>1 DEF TypeOK
  <2>2. CASE i \in 1..n
    <3>1. log'[i] = log[i] /\ log[i] \in Requests
      BY <1>1, <2>2 DEF Requests
    <3>2. at[log[i]] \in {"done", "failed"} /\ who[log[i]] \in Token
      BY <2>2 DEF LogInv, LoggedOver
    <3> QED
      BY <1>3, <3>1, <3>2
  <2> QED
    BY <1>1, <2>1, <2>2
<1>6. \A i \in 1..n : read[log[i]] \in Nat
  BY <1>1 DEF TypeOK, Requests
<1>7. \A p \in Updates : at'[p] \in {"reload", "commit"} =>
        p # q /\ at[p] \in {"reload", "commit"}
  BY <1>3 DEF Requests
<1>8. BaseKeeps'
  <2> SUFFICES ASSUME NEW p \in Updates, at'[p] \in {"reload", "commit"}
               PROVE  read[p] <= n + 1 /\ Keeps(base[p], read[p], who[p].sub)'
    BY <1>1, <1>2 DEF BaseKeeps
  <2>1. read[p] \in Nat /\ read[p] <= n /\ Keeps(base[p], read[p], who[p].sub)
    BY <1>7 DEF LogInv, BaseKeeps, TypeOK, Requests
  <2>2. \A i \in 1..read[p] : i \in 1..n
    BY <1>1, <2>1
  <2>3. KeepsIn(base[p], read[p], who[p].sub, log', who, read, Sent)
    BY <1>1, <1>6, <2>1, <2>2, KeepsLonger DEF Keeps
  <2> QED
    BY <1>1, <1>2, <2>1, <2>3 DEF Keeps
<1>9. BaseCurrent'
  <2> SUFFICES ASSUME NEW p \in Updates, at'[p] \in {"reload", "commit"}
               PROVE  \/ base[p] = prefs'[who[p].sub]
                      \/ \E j \in (read[p] + 1)..(n + 1) :
                           who[log'[j]].sub = who[p].sub /\ log'[j] \in Sent
    BY <1>1, <1>2 DEF BaseCurrent
  <2>1. read[p] \in Nat /\ read[p] <= n /\ who[p].sub \in Registrations
    BY <1>7 DEF LogInv, BaseKeeps, TypeOK, Requests, Token
  <2>2. CASE who[p].sub = b /\ Changes(q)
    <3>1. n + 1 \in (read[p] + 1)..(n + 1) /\ log'[n + 1] \in Sent
      BY <1>1, <2>1, <2>2 DEF Sent
    <3> QED
      BY <1>1, <2>2, <3>1
  <2>3. CASE ~(who[p].sub = b /\ Changes(q))
    <3>1. prefs'[who[p].sub] = prefs[who[p].sub]
      <4>1. CASE Changes(q)
        BY <2>1, <2>3, <4>1 DEF Update, TypeOK
      <4>2. CASE ~Changes(q)
        BY <4>2 DEF Update
      <4> QED
        BY <4>1, <4>2
    <3>2. \/ base[p] = prefs[who[p].sub]
          \/ \E j \in (read[p] + 1)..n :
               who[log[j]].sub = who[p].sub /\ log[j] \in Sent
      BY <1>7 DEF LogInv, BaseCurrent
    <3>3. \A j \in (read[p] + 1)..n : j \in (read[p] + 1)..(n + 1) /\ log'[j] = log[j]
      BY <1>1, <2>1
    <3> QED
      BY <3>1, <3>2, <3>3
  <2> QED
    BY <2>2, <2>3
<1>10. TableKeeps'
  <2> SUFFICES ASSUME NEW a \in Registrations PROVE Keeps(prefs[a], Len(log), a)'
    BY DEF TableKeeps
  <2> DEFINE Kept(i, k) ==
        \/ prefs'[a][k] = Payload[log'[i]][k]
        \/ \E j \in (i + 1)..(n + 1) :
             /\ who[log'[j]].sub = a /\ log'[j] \in Sent
             /\ k \in KeysOf(log'[j]) \/ read[log'[j]] < i
        \/ /\ log'[i] \notin Sent
           /\ \E j \in (read[log'[i]] + 1)..(i - 1) : who[log'[j]].sub = a /\ log'[j] \in Sent
  <2> SUFFICES ASSUME NEW i \in 1..(n + 1), who[log'[i]].sub = a, NEW k \in KeysOf(log'[i])
               PROVE  Kept(i, k)
    BY <1>1, <1>2 DEF Keeps, KeepsIn
  <2>1. Keeps(prefs[a], n, a)
    BY DEF LogInv, TableKeeps
  <2>2. KeepsIn(prefs[a], n, a, log', who, read, Sent)
    BY <1>1, <1>6, <2>1, KeepsLonger DEF Keeps
  <2>3. CASE i \in 1..n /\ prefs'[a] = prefs[a]
    <3>1. \A j \in (i + 1)..n : j \in (i + 1)..(n + 1)
      BY <1>1
    <3>2. \/ prefs[a][k] = Payload[log'[i]][k]
          \/ \E j \in (i + 1)..n :
               /\ who[log'[j]].sub = a /\ log'[j] \in Sent
               /\ k \in KeysOf(log'[j]) \/ read[log'[j]] < i
          \/ /\ log'[i] \notin Sent
             /\ \E j \in (read[log'[i]] + 1)..(i - 1) :
                  who[log'[j]].sub = a /\ log'[j] \in Sent
      BY <2>2, <2>3 DEF KeepsIn
    <3> QED
      BY <2>3, <3>1, <3>2
  <2>4. CASE i \in 1..n /\ prefs'[a] # prefs[a]
    <3>1. a = b /\ Changes(q) /\ prefs'[a] = Merged(q) /\ q \in Sent
      <4>1. Changes(q)
        BY <2>4 DEF Update
      <4> QED
        BY <1>3, <2>4, <4>1 DEF Update, TypeOK, Sent
    <3>2. CASE k \in KeysOf(q) \/ read[q] < i
      <4>1. n + 1 \in (i + 1)..(n + 1) /\ who[log'[n + 1]].sub = a /\ log'[n + 1] \in Sent
        BY <1>1, <2>4, <3>1
      <4> QED
        BY <1>1, <3>2, <4>1
    <3>3. CASE k \notin KeysOf(q) /\ ~(read[q] < i)
      <4>1. i \in 1..read[q] /\ log'[i] \in Updates
        BY <1>1, <1>4, <2>4, <3>3
      <4>2. \A j \in 1..read[q] : j \in 1..n
        BY <1>1, <1>4
      <4>3. KeepsIn(base[q], read[q], b, log', who, read, Sent)
        BY <1>1, <1>4, <1>6, <4>2, KeepsLonger DEF Keeps
      <4>4. prefs'[a][k] = base[q][k]
        <5>1. k \in Keys
          BY <4>1, AccountsAssumption DEF KeysOf
        <5> QED
          BY <3>1, <3>3, <5>1 DEF Merged
      <4>5. \/ base[q][k] = Payload[log'[i]][k]
            \/ \E j \in (i + 1)..read[q] :
                 /\ who[log'[j]].sub = a /\ log'[j] \in Sent
                 /\ k \in KeysOf(log'[j]) \/ read[log'[j]] < i
            \/ /\ log'[i] \notin Sent
               /\ \E j \in (read[log'[i]] + 1)..(i - 1) :
                    who[log'[j]].sub = a /\ log'[j] \in Sent
        BY <3>1, <4>1, <4>3 DEF KeepsIn
      <4>6. \A j \in (i + 1)..read[q] : j \in (i + 1)..(n + 1)
        BY <1>1, <1>4, <4>1
      <4> QED
        BY <4>4, <4>5, <4>6
    <3> QED
      BY <3>2, <3>3
  <2>5. CASE i = n + 1
    <3>1. log'[i] = q /\ a = b /\ k \in KeysOf(q) /\ k \in Keys
      BY <1>1, <2>5, AccountsAssumption DEF KeysOf
    <3>2. Merged(q)[k] = Payload[q][k]
      BY <3>1 DEF Merged
    <3>3. CASE Changes(q)
      <4>1. prefs'[a] = Merged(q)
        BY <1>3, <3>1, <3>3 DEF Update, TypeOK
      <4> QED
        BY <3>1, <3>2, <4>1
    <3>4. CASE ~Changes(q)
      <4>1. q \notin Sent /\ prefs' = prefs /\ base[q][k] = Payload[q][k]
        BY <3>2, <3>4 DEF Update, Sent, Changes
      <4>2. \/ base[q] = prefs[b]
            \/ \E j \in (read[q] + 1)..n : who[log[j]].sub = b /\ log[j] \in Sent
        BY <1>3 DEF LogInv, BaseCurrent
      <4>3. \A j \in (read[q] + 1)..n : j \in (read[q] + 1)..(i - 1) /\ log'[j] = log[j]
        BY <1>1, <1>4, <2>5
      <4> QED
        BY <3>1, <4>1, <4>2, <4>3
    <3> QED
      BY <3>3, <3>4
  <2>6. i \in 1..n \/ i = n + 1
    BY <1>1
  <2> HIDE DEF Kept
  <2> QED
    BY <2>3, <2>4, <2>5, <2>6
<1> QED
  BY <1>5, <1>8, <1>9, <1>10 DEF LogInv

LEMMA LogStep ==
  ASSUME TypeOK, LogInv, [Next]_vars
  PROVE  LogInv'
<1> USE DEF registering, handling
<1> DEFINE Idle(q) == at[q] \notin {"done", "failed"}
<1>1. \A i \in 1..Len(log) : log[i] \in Updates /\ log[i] \in Requests
  BY DEF TypeOK, Requests
<1>2. \A q \in Requests : Idle(q) => \A i \in 1..Len(log) : log[i] # q
  BY DEF LogInv, LoggedOver
<1>3. CASE \E r \in Registrations :
             CheckEmail(r) \/ Insert(r) \/ Create(r) \/ RegisterFails(r) \/ Login(r)
  BY <1>3, LogFrame DEF CheckEmail, Insert, Create, RegisterFails, Login
<1>4. CASE \/ \E k \in tokens : TokenExpires(k)
           \/ \E d \in deletions : Erase(d)
           \/ UNCHANGED vars
  BY <1>4, LogFrame DEF TokenExpires, Erase, vars
<1>5. ASSUME NEW k \in tokens, NEW q \in Requests, Authenticate(q, k) PROVE LogInv'
  <2>1. \A p \in Requests : p # q => /\ at'[p] = at[p] /\ who'[p] = who[p]
                                     /\ base'[p] = base[p] /\ read'[p] = read[p]
    BY <1>5 DEF Authenticate, TypeOK
  <2>2. /\ base'[q] = prefs[who'[q].sub] /\ read'[q] = Len(log)
        /\ who'[q].sub \in Registrations /\ log' = log /\ prefs' = prefs /\ Idle(q)
    BY <1>5 DEF Authenticate, TypeOK, Token
  <2>3. \A i \in 1..Len(log) : log[i] # q
    BY <1>2, <2>2
  <2>4. \A p \in Updates : p \in Requests
    BY DEF Requests
  <2> QED
    BY <1>1, <2>1, <2>2, <2>3, <2>4, LogFrame
<1>6. ASSUME NEW q \in Updates, Reload(q) PROVE LogInv'
  <2>1. q \in Requests /\ at[q] = "reload" /\ who' = who /\ log' = log /\ prefs' = prefs
        /\ \A p \in Updates : p \in Requests
    BY <1>6 DEF Reload, Requests
  <2>2. \A p \in Requests : p # q => /\ at'[p] = at[p]
                                     /\ base'[p] = base[p] /\ read'[p] = read[p]
    BY <1>6, <2>1 DEF Reload, TypeOK
  <2>3. \/ base'[q] = base[q] /\ read'[q] = read[q]
        \/ base'[q] = prefs[who'[q].sub] /\ read'[q] = Len(log) /\ who'[q].sub \in Registrations
    BY <1>6, <2>1 DEF Reload, TypeOK
  <2>4. \A i \in 1..Len(log) : log[i] # q
    BY <1>2, <2>1
  <2> QED
    BY <1>1, <2>1, <2>2, <2>3, <2>4, LogFrame
<1>7. ASSUME NEW q \in Updates, Update(q) PROVE LogInv'
  BY <1>7, UpdateStep
<1>8. ASSUME NEW q \in Requests, Idle(q), at'[q] \in {"done", "failed"},
             \A p \in Requests : p # q => at'[p] = at[p],
             UNCHANGED <<who, base, read, log, prefs>>
      PROVE  LogInv'
  <2>1. \A i \in 1..Len(log) : log[i] # q
    BY <1>2, <1>8
  <2>2. \A p \in Updates : p \in Requests
    BY DEF Requests
  <2> QED
    BY <1>1, <1>8, <2>1, <2>2, LogFrame
<1>9. ASSUME NEW q \in Erasures, RequestDeletion(q) PROVE LogInv'
  BY <1>8, <1>9 DEF RequestDeletion, TypeOK, Requests
<1>10. ASSUME NEW q \in Requests, Fails(q) PROVE LogInv'
  BY <1>8, <1>10 DEF Fails, TypeOK
<1> QED
  BY <1>3, <1>4, <1>5, <1>6, <1>7, <1>9, <1>10 DEF Next

LEMMA TableKeepsAll ==
  ASSUME TypeOK, LogInv
  PROVE  LostOnlyToOverlap
<1> SUFFICES ASSUME NEW i \in 1..Len(log), NEW k \in KeysOf(log[i])
             PROVE  \/ prefs[who[log[i]].sub][k] = Payload[log[i]][k]
                    \/ \E j \in (i + 1)..Len(log) :
                         /\ SameAccount(log[j], log[i]) /\ Changes(log[j])
                         /\ k \in KeysOf(log[j]) \/ read[log[j]] < i
                    \/ /\ ~Changes(log[i])
                       /\ \E j \in (read[log[i]] + 1)..(i - 1) :
                            SameAccount(log[j], log[i]) /\ Changes(log[j])
  BY DEF LostOnlyToOverlap
<1>1. log[i] \in Updates
  BY DEF TypeOK
<1>2. who[log[i]].sub \in Registrations
  BY <1>1 DEF LogInv, LoggedOver, Token
<1>3. \/ prefs[who[log[i]].sub][k] = Payload[log[i]][k]
      \/ \E j \in (i + 1)..Len(log) :
           /\ who[log[j]].sub = who[log[i]].sub /\ log[j] \in Sent
           /\ k \in KeysOf(log[j]) \/ read[log[j]] < i
      \/ /\ log[i] \notin Sent
         /\ \E j \in (read[log[i]] + 1)..(i - 1) :
              who[log[j]].sub = who[log[i]].sub /\ log[j] \in Sent
  BY <1>2 DEF LogInv, TableKeeps, Keeps, KeepsIn
<1> QED
  BY <1>1, <1>3 DEF SameAccount, Sent

LEMMA InitAll == Init => TypeOK /\ TokensOwned /\ OnlyItsOwner /\ LogInv
<1> SUFFICES ASSUME Init PROVE TypeOK /\ TokensOwned /\ OnlyItsOwner /\ LogInv
  OBVIOUS
<1>1. TypeOK
  BY DEF Init, TypeOK, NoPreferences, Preferences
<1>2. TokensOwned /\ OnlyItsOwner
  BY DEF Init, TokensOwned, OnlyItsOwner
<1>3. LogInv
  BY DEF Init, LogInv, LoggedOver, BaseKeeps, BaseCurrent, TableKeeps, Keeps, KeepsIn, Requests
<1> QED
  BY <1>1, <1>2, <1>3

LEMMA Invariance == Spec => [](TypeOK /\ TokensOwned /\ OnlyItsOwner /\ LogInv)
<1>1. TypeOK /\ TokensOwned /\ OnlyItsOwner /\ LogInv /\ [Next]_vars
        => (TypeOK /\ TokensOwned /\ OnlyItsOwner /\ LogInv)'
  BY TypeStep, OwnerStep, LogStep
<1> QED
  BY InitAll, <1>1, PTL DEF Spec

\* Type correctness of registrations, accounts, requests and the log.
THEOREM TypeCorrect == Spec => []TypeOK
  BY Invariance, PTL

\* Tokens, erasures and registrations of an address used before: whoever acts on
\* an account has proved its password, and it ends only by its owner's request.
THEOREM ActsAreOwners == Spec => []OnlyItsOwner
  BY Invariance, PTL

\* An answered preference is lost only to a later UPDATE that gave its key or
\* overlapped, or when it was not sent over one committed since it was loaded.
THEOREM NoLossWithoutOverlap == Spec => []LostOnlyToOverlap
<1>1. TypeOK /\ LogInv => LostOnlyToOverlap
  BY TableKeepsAll
<1> QED
  BY Invariance, <1>1, PTL

(***************************************************************************)
(* One account per address                                                 *)
(***************************************************************************)
\* Accounts that are there or about to be have different addresses, although
\* get_by_email and the INSERT are two steps and other registrations run
\* between them: login, which takes the only row of an address, finds one.
OneAccountPerAddress ==
  \A a, b \in accounts \cup pending : Email[a] = Email[b] => a = b

\* Accounts and open transactions gain an account only by an INSERT the unique
\* index let pass; a commit moves it from one to the other.
LEMMA AddressStep ==
  ASSUME TypeOK, OneAccountPerAddress, [Next]_vars
  PROVE  OneAccountPerAddress'
<1> USE DEF OneAccountPerAddress
<1>1. ASSUME NEW r \in Registrations, Insert(r) PROVE OneAccountPerAddress'
  BY <1>1 DEF Insert, SameEmail
<1>2. ASSUME NEW r \in Registrations, Create(r) PROVE OneAccountPerAddress'
  <2>1. r \in pending
    BY <1>2 DEF Create, TypeOK
  <2> QED
    BY <1>2, <2>1 DEF Create
<1>3. ASSUME NEW r \in Registrations, RegisterFails(r) PROVE OneAccountPerAddress'
  BY <1>3 DEF RegisterFails
<1>4. ASSUME NEW d \in deletions, Erase(d) PROVE OneAccountPerAddress'
  BY <1>4 DEF Erase, registering
<1>5. CASE UNCHANGED <<pending, accounts>>
  BY <1>5
<1> QED
  BY <1>1, <1>2, <1>3, <1>4, <1>5
  DEF Next, CheckEmail, Login, TokenExpires, Authenticate, Reload, Update, RequestDeletion, Fails,
      vars, registering

\* No two accounts of one address, for any registrations in any interleaving.
THEOREM AddressesUnique == Spec => []OneAccountPerAddress
<1>1. Init => OneAccountPerAddress
  BY DEF Init, OneAccountPerAddress
<1> QED
  BY <1>1, AddressStep, TypeCorrect, PTL DEF Spec

================================================================================
