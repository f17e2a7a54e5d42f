---------------------------- MODULE LLMRouterProofs ----------------------------
(***************************************************************************)
(* The breaker invariants of LLMRouter, for every number of coroutines,     *)
(* providers and prompts, every set of chains and every choice of timeouts  *)
(* that RouterAssumption allows.                                            *)
(*                                                                         *)
(* TypeOK is inductive by itself, and so is BreakerInv given TypeOK.        *)
(* ProbesAreFresh is not: the step that makes a breaker half open needs to  *)
(* know that no call of the outage is still running, which OpenDrains       *)
(* (such a call is at least as old as the last failure) and TimersServed    *)
(* (no call is older than its timeout plus the lag) give together, the last *)
(* failure being more than reset_timeout ago.                               *)
(*                                                                         *)
(* With OpenDrains and TimersServed, each breaker of the router implements  *)
(* CircuitBreaker.                                                         *)
(***************************************************************************)
EXTENDS LLMRouter, TLAPS

\* What the loop of route() leaves behind, whichever way it went: a fresh call
\* that is waiting on an available provider of the chain, or none.
LEMMA TryFromCases ==
  ASSUME NEW c, NEW ch, NEW m, NEW i, NEW states, TryFrom(c, ch, m, i, states)
  PROVE  \/ \E j \in i..Len(ch) :
              /\ Available(ch[j])
              /\ state' = Admitted(states, ch[j])
              /\ call' = [call EXCEPT ![c] =
                            [status |-> "waiting", chain |-> ch, at |-> j, prompt |-> m,
                             elapsed |-> 0, probe |-> states[ch[j]] # "closed"]]
         \/ /\ state' = states
            /\ call' = [call EXCEPT ![c] = Outside("exhausted", m)]
  BY DEF TryFrom, FirstAvailable

\* A waiting call is on a provider.
LEMMA ProviderOfWaiting ==
  ASSUME TypeOK, NEW c \in Calls, Waiting(c)
  PROVE  ProviderOf(c) \in Providers
  BY DEF TypeOK, ProviderOf, Waiting, CallRecord

\* The loop of route(), started with a legal breaker table, leaves legal types.
LEMMA TryFromType ==
  ASSUME TypeOK, NEW c \in Calls, NEW ch \in Chains, NEW m \in Prompts, NEW i \in Nat \ {0},
         NEW states \in [Providers -> States], TryFrom(c, ch, m, i, states)
  PROVE  /\ state' \in [Providers -> States]
         /\ call' \in [Calls -> CallRecord]
         /\ \A d \in Calls : call'[d].status = "waiting" =>
              call'[d].chain \in Chains /\ call'[d].at \in 1..Len(call'[d].chain)
<1>0. ch \in Seq(Providers)
  BY RouterAssumption
<1>1. ASSUME NEW j \in i..Len(ch), state' = Admitted(states, ch[j]),
             call' = [call EXCEPT ![c] =
                        [status |-> "waiting", chain |-> ch, at |-> j, prompt |-> m,
                         elapsed |-> 0, probe |-> states[ch[j]] # "closed"]]
      PROVE  /\ state' \in [Providers -> States]
             /\ call' \in [Calls -> CallRecord]
             /\ \A d \in Calls : call'[d].status = "waiting" =>
                  call'[d].chain \in Chains /\ call'[d].at \in 1..Len(call'[d].chain)
  <2>1. j \in 1..Len(ch)
    BY <1>0, <1>1
  <2>2. state' \in [Providers -> States]
    BY <1>1 DEF Admitted, States
  <2>3. [status |-> "waiting", chain |-> ch, at |-> j, prompt |-> m,
         elapsed |-> 0, probe |-> states[ch[j]] # "closed"] \in CallRecord
    BY <1>0, <2>1 DEF CallRecord, Statuses
  <2> QED
    BY <1>1, <2>1, <2>2, <2>3 DEF TypeOK
<1>2. ASSUME state' = states, call' = [call EXCEPT ![c] = Outside("exhausted", m)]
      PROVE  /\ state' \in [Providers -> States]
             /\ call' \in [Calls -> CallRecord]
             /\ \A d \in Calls : call'[d].status = "waiting" =>
                  call'[d].chain \in Chains /\ call'[d].at \in 1..Len(call'[d].chain)
  BY <1>2 DEF Outside, CallRecord, Statuses, TypeOK
<1> QED
  BY <1>1, <1>2, TryFromCases

\* A call that leaves route() leaves legal types.
LEMMA LeaveType ==
  ASSUME TypeOK, NEW c \in Calls, NEW m \in Prompts,
         NEW s \in Statuses, s # "waiting", call' = [call EXCEPT ![c] = Outside(s, m)]
  PROVE  /\ call' \in [Calls -> CallRecord]
         /\ \A d \in Calls : call'[d].status = "waiting" =>
              call'[d].chain \in Chains /\ call'[d].at \in 1..Len(call'[d].chain)
<1>1. Outside(s, m) \in CallRecord
  BY DEF Outside, CallRecord
<1>2. Outside(s, m).status # "waiting"
  BY DEF Outside
<1> QED
  BY <1>1, <1>2 DEF TypeOK

\* A caught failure moves on from a waiting call's provider with legal types.
LEMMA CaughtFailureType ==
  ASSUME TypeOK, NEW c \in Calls, Waiting(c), CaughtFailure(c)
  PROVE  TypeOK'
<1> DEFINE p == ProviderOf(c)
<1>1. p \in Providers
  BY ProviderOfWaiting
<1>2. /\ call[c].chain \in Chains
      /\ call[c].at + 1 \in Nat \ {0}
      /\ call[c].prompt \in Prompts
  BY DEF TypeOK, Waiting, CallRecord
<1>3. StateAfterFailure(p) \in [Providers -> States]
  BY DEF TypeOK, StateAfterFailure, States
<1>4. /\ failures' \in [Providers -> 0..Threshold]
      /\ sinceFailure' \in [Providers -> 0..(ResetTimeout + 1)]
      /\ cache' \subseteq Prompts
  BY <1>1, RouterAssumption DEF CaughtFailure, RecordFailure, AtMost, TypeOK
<1>5. TryFrom(c, call[c].chain, call[c].prompt, call[c].at + 1, StateAfterFailure(p))
  BY DEF CaughtFailure
<1> QED
  BY <1>2, <1>3, <1>4, <1>5, TryFromType DEF TypeOK

\* Time passing only ages the waiting calls.
LEMMA TickType ==
  ASSUME TypeOK, Tick
  PROVE  TypeOK'
<1>1. sinceFailure' \in [Providers -> 0..(ResetTimeout + 1)]
  BY RouterAssumption DEF TypeOK, Tick, AtMost
<1>2. ASSUME NEW c \in Calls
      PROVE  /\ call'[c] \in CallRecord
             /\ call'[c].status = call[c].status
             /\ call'[c].chain = call[c].chain
             /\ call'[c].at = call[c].at
  <2>1. call[c] \in CallRecord
    BY DEF TypeOK
  <2>2. call'[c] = IF Waiting(c) THEN [call[c] EXCEPT !.elapsed = @ + 1] ELSE call[c]
    BY DEF Tick
  <2> QED
    BY <2>1, <2>2 DEF CallRecord
<1>3. call' \in [Calls -> CallRecord]
  BY <1>2 DEF Tick
<1> QED
  BY <1>1, <1>2, <1>3 DEF TypeOK, Tick

LEMMA TypeStep == TypeOK /\ [Next]_vars => TypeOK'
<1> SUFFICES ASSUME TypeOK, [Next]_vars PROVE TypeOK'
  OBVIOUS
<1>1. ASSUME NEW c \in Calls, NEW m \in Prompts, CacheHit(c, m) PROVE TypeOK'
  BY <1>1, LeaveType DEF CacheHit, TypeOK, Statuses
<1>2. ASSUME NEW c \in Calls, NEW m \in Prompts, Enter(c, m) PROVE TypeOK'
  <2>1. PICK ch \in Chains : TryFrom(c, ch, m, 1, state)
    BY <1>2 DEF Enter
  <2>2. state \in [Providers -> States]
    BY DEF TypeOK
  <2> QED
    BY <1>2, <2>1, <2>2, TryFromType DEF Enter, TypeOK
<1>3. ASSUME NEW c \in Calls, Answer(c) PROVE TypeOK'
  <2>1. ProviderOf(c) \in Providers /\ call[c].prompt \in Prompts
    BY <1>3, ProviderOfWaiting DEF Answer, TypeOK, CallRecord
  <2>2. /\ failures' \in [Providers -> 0..Threshold]
        /\ state' \in [Providers -> States]
        /\ sinceFailure' = sinceFailure
        /\ cache' \subseteq Prompts
    BY <1>3, <2>1, RouterAssumption DEF Answer, RecordSuccess, TypeOK, States
  <2> QED
    BY <1>3, <2>1, <2>2, LeaveType DEF Answer, TypeOK, Statuses
<1>4. ASSUME NEW c \in Calls, Expire(c) \/ HttpError(c) PROVE TypeOK'
  BY <1>4, CaughtFailureType DEF Expire, HttpError
<1>5. ASSUME NEW c \in Calls, SdkError(c) \/ Abandon(c) PROVE TypeOK'
  <2>1. call[c].prompt \in Prompts
    BY DEF TypeOK, CallRecord
  <2> QED
    BY <1>5, <2>1, LeaveType DEF SdkError, Abandon, TypeOK, Statuses
<1>6. CASE Tick
  BY <1>6, TickType
<1>7. CASE UNCHANGED vars
  BY <1>7 DEF vars, TypeOK
<1> QED
  BY <1>1, <1>2, <1>3, <1>4, <1>5, <1>6, <1>7 DEF Next

\* Every state of the router and of the coroutines inside it has its type, and
\* a waiting call is at an existing position of one of the chains.
THEOREM TypeCorrect == Spec => []TypeOK
<1>1. Init => TypeOK
  BY RouterAssumption DEF Init, TypeOK, States, Outside, CallRecord, Statuses
<1> QED
  BY <1>1, TypeStep, PTL DEF Spec

(***************************************************************************)
(* The breaker                                                             *)
(***************************************************************************)
\* No timer is overdue by more than the event loop's lag.
TimersServed ==
  \A c \in Calls : Waiting(c) => call[c].elapsed <= CallTimeout[ProviderOf(c)] + Lag

IInv == TypeOK /\ BreakerInv /\ TimersServed /\ OpenDrains /\ ProbesAreFresh

\* The loop of route() in terms of the breakers: c now waits on an available
\* provider q of the rest of its chain, or on none; no other call has moved.
LEMMA Placed ==
  ASSUME TypeOK, NEW c \in Calls, NEW ch \in Chains, NEW m \in Prompts, NEW i \in Nat \ {0},
         NEW states \in [Providers -> States], TryFrom(c, ch, m, i, states)
  PROVE  /\ \A d \in Calls \ {c} : call'[d] = call[d]
         /\ \/ \E j \in i..Len(ch) :
                 /\ ch[j] \in Providers
                 /\ Available(ch[j])
                 /\ state' = Admitted(states, ch[j])
                 /\ Waiting(c)'
                 /\ ProviderOf(c)' = ch[j]
                 /\ call'[c].elapsed = 0
                 /\ call'[c].probe = (states[ch[j]] # "closed")
            \/ /\ state' = states
               /\ ~Waiting(c)'
<1>1. ASSUME NEW j \in i..Len(ch), Available(ch[j]), state' = Admitted(states, ch[j]),
             call' = [call EXCEPT ![c] =
                        [status |-> "waiting", chain |-> ch, at |-> j, prompt |-> m,
                         elapsed |-> 0, probe |-> states[ch[j]] # "closed"]]
      PROVE  /\ \A d \in Calls \ {c} : call'[d] = call[d]
             /\ ch[j] \in Providers
             /\ Waiting(c)'
             /\ ProviderOf(c)' = ch[j]
             /\ call'[c].elapsed = 0
             /\ call'[c].probe = (states[ch[j]] # "closed")
  <2>1. ch[j] \in Providers
    BY RouterAssumption
  <2> QED
    BY <1>1, <2>1 DEF TypeOK, Waiting, ProviderOf
<1>2. ASSUME state' = states, call' = [call EXCEPT ![c] = Outside("exhausted", m)]
      PROVE  (\A d \in Calls \ {c} : call'[d] = call[d]) /\ ~Waiting(c)'
  BY <1>2 DEF TypeOK, Waiting, Outside
<1> QED
  BY <1>1, <1>2, TryFromCases

\* Calls that did not move in a step stay where they were.
LEMMA Unmoved ==
  ASSUME NEW d \in Calls, call'[d] = call[d]
  PROVE  Waiting(d)' = Waiting(d) /\ ProviderOf(d)' = ProviderOf(d)
  BY DEF Waiting, ProviderOf

\* At most a timeout and a lag after its start a call has left its provider, so
\* none is left on an open provider whose reset timeout has passed.
LEMMA Drained ==
  ASSUME IInv, NEW d \in Calls, Waiting(d), state[ProviderOf(d)] = "open"
  PROVE  ~Available(ProviderOf(d))
<1>1. ProviderOf(d) \in Providers
  BY ProviderOfWaiting DEF IInv
<1>2. call[d].elapsed >= sinceFailure[ProviderOf(d)]
  BY DEF IInv, OpenDrains
<1>3. call[d].elapsed <= CallTimeout[ProviderOf(d)] + Lag
  BY DEF IInv, TimersServed
<1>4. call[d].elapsed \in Nat /\ sinceFailure[ProviderOf(d)] \in Nat
  BY <1>1 DEF IInv, TypeOK, CallRecord
<1> QED
  BY <1>1, <1>2, <1>3, <1>4, RouterAssumption DEF Available

\* The loop of route() keeps the invariant when it starts from breakers that
\* differ from the current ones only by having opened on a failure just now,
\* and only for providers it has passed.
LEMMA LoopStep ==
  ASSUME IInv, NEW c \in Calls, NEW ch \in Chains, NEW m \in Prompts, NEW i \in Nat \ {0},
         NEW states \in [Providers -> States], TryFrom(c, ch, m, i, states),
         \A p \in Providers : states[p] = state[p] \/ states[p] = "open",
         \A p \in Providers : states[p] = "open" =>
           \/ state[p] = "open" /\ sinceFailure'[p] = sinceFailure[p]
           \/ sinceFailure'[p] = 0,
         \A p \in Providers : states[p] = "half_open" => sinceFailure'[p] > ResetTimeout,
         \A p \in Providers : states[p] = "closed" <=> failures'[p] < Threshold,
         \A j \in i..Len(ch) :
           states[ch[j]] = state[ch[j]] /\ sinceFailure'[ch[j]] = sinceFailure[ch[j]]
  PROVE  (BreakerInv /\ TimersServed /\ OpenDrains /\ ProbesAreFresh)'
<1>1. TypeOK
  BY DEF IInv
<1>2. ASSUME NEW d \in Calls \ {c}, Waiting(d)'
      PROVE  /\ Waiting(d) /\ call'[d] = call[d]
             /\ ProviderOf(d)' = ProviderOf(d) /\ ProviderOf(d) \in Providers
  BY <1>1, <1>2, Placed, Unmoved, ProviderOfWaiting
<1>3. ASSUME NEW d \in Calls \ {c}, Waiting(d)', states[ProviderOf(d)] = "open"
      PROVE  call'[d].elapsed >= sinceFailure'[ProviderOf(d)]
  <2>1. call[d].elapsed \in Nat
    BY <1>1 DEF TypeOK, CallRecord
  <2>2. call'[d] = call[d] /\ ProviderOf(d) \in Providers /\ Waiting(d)
    BY <1>2, <1>3
  <2>3. CASE sinceFailure'[ProviderOf(d)] = 0
    BY <2>1, <2>2, <2>3
  <2>4. CASE state[ProviderOf(d)] = "open" /\ sinceFailure'[ProviderOf(d)] = sinceFailure[ProviderOf(d)]
    BY <2>2, <2>4 DEF IInv, OpenDrains
  <2> QED
    BY <1>3, <2>2, <2>3, <2>4
<1>4. ASSUME NEW d \in Calls \ {c}, Waiting(d)', states[ProviderOf(d)] = "half_open"
      PROVE  call'[d].probe
  BY <1>2, <1>4 DEF IInv, ProbesAreFresh
<1>5. ASSUME NEW d \in Calls \ {c}, Waiting(d)'
      PROVE  call'[d].elapsed <= CallTimeout[ProviderOf(d)'] + Lag
  BY <1>2, <1>5 DEF IInv, TimersServed
<1>6. CASE state' = states /\ ~Waiting(c)'
  <2>1. BreakerInv'
    BY <1>6 DEF BreakerInv
  <2>2. TimersServed' /\ OpenDrains' /\ ProbesAreFresh'
    BY <1>2, <1>3, <1>4, <1>5, <1>6 DEF TimersServed, OpenDrains, ProbesAreFresh
  <2> QED
    BY <2>1, <2>2
<1>7. ASSUME NEW j \in i..Len(ch), ch[j] \in Providers, Available(ch[j]),
             state' = Admitted(states, ch[j]), Waiting(c)', ProviderOf(c)' = ch[j],
             call'[c].elapsed = 0, call'[c].probe = (states[ch[j]] # "closed")
      PROVE  (BreakerInv /\ TimersServed /\ OpenDrains /\ ProbesAreFresh)'
  <2> DEFINE q == ch[j]
  <2>1. /\ state'[q] = IF states[q] = "open" THEN "half_open" ELSE states[q]
        /\ \A p \in Providers \ {q} : state'[p] = states[p]
    BY <1>7 DEF Admitted
  <2>2. states[q] = "open" => sinceFailure'[q] > ResetTimeout
    BY <1>7 DEF Available
  <2>3. BreakerInv'
    BY <2>1, <2>2 DEF BreakerInv
  <2>4. TimersServed'
    BY <1>5, <1>7, RouterAssumption DEF TimersServed
  <2>5. OpenDrains'
    BY <1>2, <1>3, <1>7, <2>1 DEF OpenDrains
  <2>6. ASSUME NEW d \in Calls \ {c}, Waiting(d)', state'[ProviderOf(d)'] = "half_open"
        PROVE  call'[d].probe
    <3>1. ProviderOf(d) = q => state[q] # "open"
      BY <1>2, <1>7, <2>6, Drained
    <3>2. states[ProviderOf(d)] = "half_open"
      BY <1>2, <1>7, <2>1, <2>6, <3>1
    <3> QED
      BY <1>4, <2>6, <3>2
  <2>7. ProbesAreFresh'
    BY <1>7, <2>1, <2>6 DEF ProbesAreFresh
  <2> QED
    BY <2>3, <2>4, <2>5, <2>7
<1> QED
  BY <1>1, <1>6, <1>7, Placed

\* The rest of a waiting call's chain holds other providers than its own.
LEMMA RestOfChain ==
  ASSUME TypeOK, NEW c \in Calls, Waiting(c)
  PROVE  /\ call[c].chain \in Chains
         /\ call[c].at + 1 \in Nat \ {0}
         /\ call[c].prompt \in Prompts
         /\ \A j \in (call[c].at + 1)..Len(call[c].chain) :
              call[c].chain[j] \in Providers \ {ProviderOf(c)}
<1> DEFINE ch == call[c].chain
<1>1. call[c] \in CallRecord
  BY DEF TypeOK
<1>2. ch \in Chains /\ call[c].at \in 1..Len(ch)
  BY DEF TypeOK, Waiting
<1>3. ch \in Seq(Providers) /\ call[c].at \in Nat /\ call[c].prompt \in Prompts
  BY <1>1 DEF CallRecord
<1>4. ASSUME NEW j \in (call[c].at + 1)..Len(ch)
      PROVE  ch[j] \in Providers \ {ProviderOf(c)}
  <2>1. j \in 1..Len(ch) /\ j # call[c].at
    BY <1>2, <1>3
  <2>2. ch[j] # ch[call[c].at]
    BY <1>2, <2>1, RouterAssumption
  <2> QED
    BY <1>3, <2>1, <2>2 DEF ProviderOf
<1> QED
  BY <1>2, <1>3, <1>4

\* A caught failure opens the breaker or leaves it closed, never half open, and
\* the loop goes on from there.
LEMMA CaughtFailureStep ==
  ASSUME IInv, NEW c \in Calls, Waiting(c), CaughtFailure(c)
  PROVE  (BreakerInv /\ TimersServed /\ OpenDrains /\ ProbesAreFresh)'
<1> DEFINE p == ProviderOf(c)
           states == StateAfterFailure(p)
           ch == call[c].chain
           i == call[c].at + 1
<1>1. TypeOK /\ p \in Providers
  BY ProviderOfWaiting DEF IInv
<1>2. ch \in Chains /\ i \in Nat \ {0} /\ call[c].prompt \in Prompts
  BY <1>1, RestOfChain
<1>3. states \in [Providers -> States]
  BY <1>1 DEF StateAfterFailure, TypeOK, States
<1>4. /\ failures'[p] = AtMost(failures[p] + 1, Threshold)
      /\ sinceFailure'[p] = 0
      /\ \A q \in Providers \ {p} :
           failures'[q] = failures[q] /\ sinceFailure'[q] = sinceFailure[q] /\ states[q] = state[q]
  BY <1>1 DEF CaughtFailure, RecordFailure, StateAfterFailure, TypeOK
<1>5. failures[p] \in 0..Threshold /\ Threshold \in Nat
  BY <1>1, RouterAssumption DEF TypeOK
<1>6. states[p] = IF failures[p] + 1 >= Threshold THEN "open" ELSE state[p]
  BY <1>1 DEF StateAfterFailure, TypeOK
<1>7. BreakerInv
  BY DEF IInv
<1>8. failures[p] + 1 < Threshold => state[p] = "closed"
  BY <1>1, <1>5, <1>7 DEF BreakerInv
<1>9. states[p] = "closed" <=> failures'[p] < Threshold
  BY <1>4, <1>5, <1>6, <1>8 DEF AtMost
<1>10. states[p] # "half_open"
  BY <1>5, <1>6, <1>8
<1>11. \A j \in i..Len(ch) : ch[j] \in Providers \ {p}
  BY <1>1, RestOfChain
<1>12. \A q \in Providers : states[q] = state[q] \/ states[q] = "open"
  BY <1>4, <1>6
<1>13. \A q \in Providers : states[q] = "open" =>
         \/ state[q] = "open" /\ sinceFailure'[q] = sinceFailure[q]
         \/ sinceFailure'[q] = 0
  BY <1>4
<1>14. \A q \in Providers : states[q] = "half_open" => sinceFailure'[q] > ResetTimeout
  BY <1>4, <1>7, <1>10 DEF BreakerInv
<1>15. \A q \in Providers : states[q] = "closed" <=> failures'[q] < Threshold
  BY <1>4, <1>7, <1>9 DEF BreakerInv
<1>16. \A j \in i..Len(ch) :
         states[ch[j]] = state[ch[j]] /\ sinceFailure'[ch[j]] = sinceFailure[ch[j]]
  BY <1>4, <1>11
<1>17. TryFrom(c, ch, call[c].prompt, i, states)
  BY DEF CaughtFailure
<1> HIDE DEF p, states, ch, i
<1> QED
  BY <1>2, <1>3, <1>12, <1>13, <1>14, <1>15, <1>16, <1>17, LoopStep

\* A call that leaves route() disturbs no other call.
LEMMA LeaveStep ==
  ASSUME IInv, NEW c \in Calls, NEW m, NEW s \in Statuses, s # "waiting",
         call' = [call EXCEPT ![c] = Outside(s, m)]
  PROVE  \A d \in Calls : Waiting(d)' =>
           /\ d # c /\ Waiting(d) /\ call'[d] = call[d]
           /\ ProviderOf(d)' = ProviderOf(d) /\ ProviderOf(d) \in Providers
<1>1. TypeOK
  BY DEF IInv
<1>2. ~Waiting(c)'
  BY <1>1 DEF TypeOK, Waiting, Outside
<1>3. \A d \in Calls \ {c} : call'[d] = call[d]
  BY <1>1 DEF TypeOK
<1> QED
  BY <1>1, <1>2, <1>3, Unmoved, ProviderOfWaiting

LEMMA InvStep == IInv /\ [Next]_vars => IInv'
<1> SUFFICES ASSUME IInv, [Next]_vars
             PROVE  (BreakerInv /\ TimersServed /\ OpenDrains /\ ProbesAreFresh)'
  BY TypeStep DEF IInv
<1>1. TypeOK
  BY DEF IInv
<1>2. ASSUME NEW c \in Calls, NEW m \in Prompts, CacheHit(c, m)
      PROVE  (BreakerInv /\ TimersServed /\ OpenDrains /\ ProbesAreFresh)'
  <2>1. \A d \in Calls : Waiting(d)' =>
          Waiting(d) /\ call'[d] = call[d] /\ ProviderOf(d)' = ProviderOf(d)
    BY <1>2, LeaveStep DEF CacheHit, Statuses
  <2> QED
    BY <1>2, <2>1 DEF CacheHit, IInv, BreakerInv, TimersServed, OpenDrains, ProbesAreFresh
<1>3. ASSUME NEW c \in Calls, NEW m \in Prompts, Enter(c, m)
      PROVE  (BreakerInv /\ TimersServed /\ OpenDrains /\ ProbesAreFresh)'
  <2>1. PICK ch \in Chains : TryFrom(c, ch, m, 1, state)
    BY <1>3 DEF Enter
  <2>2. failures' = failures /\ sinceFailure' = sinceFailure
    BY <1>3 DEF Enter
  <2>3. state \in [Providers -> States] /\ BreakerInv
    BY <1>1 DEF TypeOK, IInv
  <2> QED
    BY <2>1, <2>2, <2>3, LoopStep DEF BreakerInv
<1>4. ASSUME NEW c \in Calls, Answer(c)
      PROVE  (BreakerInv /\ TimersServed /\ OpenDrains /\ ProbesAreFresh)'
  <2>1. ProviderOf(c) \in Providers
    BY <1>1, <1>4, ProviderOfWaiting DEF Answer
  <2>2. \A d \in Calls : Waiting(d)' =>
          /\ Waiting(d) /\ call'[d] = call[d]
          /\ ProviderOf(d)' = ProviderOf(d) /\ ProviderOf(d) \in Providers
    BY <1>4, LeaveStep DEF Answer, Statuses
  <2>3. /\ state'[ProviderOf(c)] = "closed" /\ failures'[ProviderOf(c)] = 0
        /\ \A q \in Providers \ {ProviderOf(c)} : state'[q] = state[q] /\ failures'[q] = failures[q]
        /\ sinceFailure' = sinceFailure
    BY <1>1, <1>4, <2>1 DEF Answer, RecordSuccess, TypeOK
  <2>4. BreakerInv'
    BY <2>1, <2>3, RouterAssumption DEF IInv, BreakerInv
  <2>5. TimersServed' /\ OpenDrains' /\ ProbesAreFresh'
    BY <2>2, <2>3 DEF IInv, TimersServed, OpenDrains, ProbesAreFresh
  <2> QED
    BY <2>4, <2>5
<1>5. ASSUME NEW c \in Calls, Expire(c) \/ HttpError(c)
      PROVE  (BreakerInv /\ TimersServed /\ OpenDrains /\ ProbesAreFresh)'
  BY <1>5, CaughtFailureStep DEF Expire, HttpError
<1>6. ASSUME NEW c \in Calls, SdkError(c) \/ Abandon(c)
      PROVE  (BreakerInv /\ TimersServed /\ OpenDrains /\ ProbesAreFresh)'
  <2>1. \A d \in Calls : Waiting(d)' =>
          Waiting(d) /\ call'[d] = call[d] /\ ProviderOf(d)' = ProviderOf(d)
    BY <1>6, LeaveStep DEF SdkError, Abandon, Statuses
  <2> QED
    BY <1>6, <2>1 DEF SdkError, Abandon, IInv, BreakerInv, TimersServed, OpenDrains, ProbesAreFresh
<1>7. CASE Tick
  <2>1. ASSUME NEW d \in Calls, Waiting(d)'
        PROVE  /\ Waiting(d) /\ ProviderOf(d)' = ProviderOf(d) /\ ProviderOf(d) \in Providers
               /\ call'[d].elapsed = call[d].elapsed + 1 /\ call[d].elapsed \in Nat
               /\ call'[d].probe = call[d].probe
    <3>1. call'[d] = IF Waiting(d) THEN [call[d] EXCEPT !.elapsed = @ + 1] ELSE call[d]
      BY <1>7 DEF Tick
    <3>2. call[d] \in CallRecord
      BY <1>1 DEF TypeOK
    <3>3. Waiting(d)
      BY <2>1, <3>1 DEF Waiting
    <3> QED
      BY <1>1, <3>1, <3>2, <3>3, ProviderOfWaiting DEF CallRecord, ProviderOf
  <2>2. \A p \in Providers : /\ sinceFailure[p] \in 0..(ResetTimeout + 1)
                             /\ sinceFailure'[p] = AtMost(sinceFailure[p] + 1, ResetTimeout + 1)
    BY <1>1, <1>7 DEF Tick, TypeOK
  <2>3. state' = state /\ failures' = failures
    BY <1>7 DEF Tick
  <2>4. BreakerInv'
    BY <2>2, <2>3, RouterAssumption DEF IInv, BreakerInv, AtMost
  <2>5. TimersServed'
    BY <1>7, <2>1, RouterAssumption DEF TimersServed, Tick
  <2>6. OpenDrains'
    BY <2>1, <2>2, <2>3, RouterAssumption DEF IInv, OpenDrains, AtMost
  <2>7. ProbesAreFresh'
    BY <2>1, <2>3 DEF IInv, ProbesAreFresh
  <2> QED
    BY <2>4, <2>5, <2>6, <2>7
<1>8. CASE UNCHANGED vars
  BY <1>8 DEF vars, IInv, BreakerInv, TimersServed, OpenDrains, ProbesAreFresh, Waiting, ProviderOf
<1> QED
  BY <1>2, <1>3, <1>4, <1>5, <1>6, <1>7, <1>8 DEF Next

LEMMA InvCorrect == Spec => []IInv
<1>1. Init => IInv
  <2> SUFFICES ASSUME Init PROVE IInv
    OBVIOUS
  <2>1. TypeOK
    BY RouterAssumption DEF Init, TypeOK, States, Outside, CallRecord, Statuses
  <2>2. ASSUME NEW c \in Calls PROVE ~Waiting(c)
    <3>1. PICK m \in Prompts : call = [d \in Calls |-> Outside("new", m)]
      BY DEF Init
    <3>2. call[c].status = "new"
      BY <3>1 DEF Outside
    <3> QED
      BY <3>2 DEF Waiting
  <2>3. BreakerInv
    BY RouterAssumption DEF Init, BreakerInv
  <2> QED
    BY <2>1, <2>2, <2>3 DEF IInv, TimersServed, OpenDrains, ProbesAreFresh
<1> QED
  BY <1>1, InvStep, PTL DEF Spec

\* The fields of every breaker always agree.
THEOREM BreakerConsistent == Spec => []BreakerInv
  BY InvCorrect, PTL DEF IInv

\* An open breaker only drains: no call on its provider is younger than the
\* last failure.
THEOREM OpenBreakerDrains == Spec => []OpenDrains
  BY InvCorrect, PTL DEF IInv

\* A half open breaker is tested by the calls it admitted and by no other.
THEOREM HalfOpenTestsAlone == Spec => []ProbesAreFresh
  BY InvCorrect, PTL DEF IInv

(***************************************************************************)
(* What a step may do to a breaker                                         *)
(***************************************************************************)
\* The loop of route() closes no breaker and changes only the one it lets the
\* call through, which is one of the providers still to be tried.
LEMMA LoopCloses ==
  ASSUME TypeOK, NEW c \in Calls, NEW ch \in Chains, NEW m \in Prompts, NEW i \in Nat \ {0},
         NEW states \in [Providers -> States], TryFrom(c, ch, m, i, states), NEW p \in Providers
  PROVE  /\ state'[p] = "closed" => states[p] = "closed"
         /\ (\A j \in i..Len(ch) : ch[j] # p) => state'[p] = states[p]
  BY Placed DEF Admitted

LEMMA CaughtFailureOn ==
  ASSUME TypeOK, NEW c \in Calls, Waiting(c), CaughtFailure(c), NEW p \in Providers
  PROVE  /\ state'[p] = "closed" => state[p] = "closed"
         /\ p = ProviderOf(c) /\ failures[p] >= Threshold => state'[p] = "open"
         /\ p # ProviderOf(c) => sinceFailure'[p] = sinceFailure[p]
<1> DEFINE states == StateAfterFailure(ProviderOf(c))
<1>1. states \in [Providers -> States]
  BY DEF StateAfterFailure, TypeOK, States
<1>2. TryFrom(c, call[c].chain, call[c].prompt, call[c].at + 1, states)
  BY DEF CaughtFailure
<1>3. /\ state'[p] = "closed" => states[p] = "closed"
      /\ p = ProviderOf(c) => state'[p] = states[p]
  <2> HIDE DEF states
  <2> QED
    BY <1>1, <1>2, LoopCloses, RestOfChain
<1>4. states[p] = "closed" => state[p] = "closed"
  BY DEF StateAfterFailure, TypeOK
<1>5. p = ProviderOf(c) /\ failures[p] >= Threshold => states[p] = "open"
  BY RouterAssumption DEF StateAfterFailure, TypeOK
<1>6. p # ProviderOf(c) => sinceFailure'[p] = sinceFailure[p]
  BY DEF CaughtFailure, RecordFailure, TypeOK
<1> QED
  BY <1>3, <1>4, <1>5, <1>6

\* A breaker that closes later than a timeout and a lag after its last failure
\* closes on the answer of a call it admitted half open.
THEOREM ClosingNeedsProbe == Spec => RecoveryNeedsProbe
<1> DEFINE Closes(p) == state[p] # "closed" /\ state'[p] = "closed"
                        /\ sinceFailure[p] > CallTimeout[p] + Lag
           Probed(p) == \E c \in CallsTo(p) : call[c].probe /\ call'[c].status = "answered"
<1>1. ASSUME IInv, [Next]_vars, NEW p \in Providers, Closes(p)
      PROVE  Probed(p)
  <2>1. TypeOK /\ state \in [Providers -> States]
    BY <1>1 DEF IInv, TypeOK
  <2>2. ASSUME NEW c \in Calls, NEW m \in Prompts, Enter(c, m) PROVE FALSE
    BY <1>1, <2>1, <2>2, LoopCloses DEF Enter
  <2>3. ASSUME NEW c \in Calls, Expire(c) \/ HttpError(c) PROVE FALSE
    BY <1>1, <2>1, <2>3, CaughtFailureOn DEF Expire, HttpError
  <2>4. ASSUME NEW c \in Calls, Answer(c) PROVE Probed(p)
    <3>1. Waiting(c) /\ call'[c].status = "answered"
      BY <2>1, <2>4 DEF Answer, Outside, TypeOK
    <3>2. ProviderOf(c) = p
      BY <1>1, <2>1, <2>4 DEF Answer, RecordSuccess
    <3>3. state[p] # "open"
      <4>1. call[c].elapsed <= CallTimeout[p] + Lag
        BY <1>1, <3>1, <3>2 DEF IInv, TimersServed
      <4>2. call[c].elapsed \in Nat /\ sinceFailure[p] \in Nat /\ CallTimeout[p] + Lag \in Nat
        BY <2>1, RouterAssumption DEF TypeOK, CallRecord
      <4> QED
        BY <1>1, <3>1, <3>2, <4>1, <4>2 DEF IInv, OpenDrains
    <3>4. call[c].probe
      BY <1>1, <2>1, <3>1, <3>2, <3>3 DEF IInv, ProbesAreFresh, States
    <3> QED
      BY <3>1, <3>2, <3>4 DEF CallsTo
  <2> QED
    BY <1>1, <2>2, <2>3, <2>4
    DEF Next, CacheHit, SdkError, Abandon, Tick, vars
<1>2. IInv /\ [Next]_vars =>
        [\A p \in Providers :
           /\ state[p] # "closed" /\ state'[p] = "closed"
           /\ sinceFailure[p] > CallTimeout[p] + Lag
           => \E c \in CallsTo(p) : call[c].probe /\ call'[c].status = "answered"]_vars
  BY <1>1
<1> QED
  BY <1>2, InvCorrect, PTL DEF Spec, RecoveryNeedsProbe

\* A failure recorded while a breaker is half open opens it again.
THEOREM HalfOpenFailureReopens == Spec => FailedProbeReopens
<1> DEFINE Fails(p) == state[p] = "half_open" /\ sinceFailure'[p] = 0
<1>1. ASSUME IInv, [Next]_vars, NEW p \in Providers, Fails(p)
      PROVE  state'[p] = "open"
  <2>1. TypeOK
    BY <1>1 DEF IInv
  <2>2. /\ failures[p] >= Threshold
        /\ sinceFailure[p] \in Nat /\ sinceFailure[p] # 0
    BY <1>1, <2>1, RouterAssumption DEF IInv, BreakerInv, TypeOK
  <2>3. ASSUME NEW c \in Calls, Expire(c) \/ HttpError(c) PROVE state'[p] = "open"
    BY <1>1, <2>1, <2>2, <2>3, CaughtFailureOn DEF Expire, HttpError
  <2>4. CASE Tick
    BY <1>1, <2>2, <2>4, RouterAssumption DEF Tick, AtMost
  <2> QED
    BY <1>1, <2>2, <2>3, <2>4
    DEF Next, CacheHit, Enter, Answer, SdkError, Abandon, vars
<1>2. IInv /\ [Next]_vars => [\A p \in Providers : Fails(p) => state'[p] = "open"]_vars
  BY <1>1
<1> QED
  BY <1>2, InvCorrect, PTL DEF Spec, FailedProbeReopens

(***************************************************************************)
(* One breaker of its own per provider                                     *)
(***************************************************************************)
\* The loop of route() leaves the breaker of p as it found it or lets the call
\* through it, open and past the reset timeout, as one of those still to try.
LEMMA LoopOn ==
  ASSUME TypeOK, NEW c \in Calls, NEW ch \in Chains, NEW m \in Prompts, NEW i \in Nat \ {0},
         NEW states \in [Providers -> States], TryFrom(c, ch, m, i, states), NEW p \in Providers
  PROVE  \/ state'[p] = states[p]
         \/ /\ states[p] = "open" /\ state'[p] = "half_open"
            /\ \E j \in i..Len(ch) : ch[j] = p /\ Available(p)
<1>1. CASE state' = states
  BY <1>1
<1>2. ASSUME NEW j \in i..Len(ch), Available(ch[j]), state' = Admitted(states, ch[j])
      PROVE  \/ state'[p] = states[p]
             \/ /\ states[p] = "open" /\ state'[p] = "half_open"
                /\ \E k \in i..Len(ch) : ch[k] = p /\ Available(p)
  BY <1>2 DEF Admitted
<1> QED
  BY <1>1, <1>2, Placed

\* A call can end on an open breaker only within its timeout of the last
\* failure.
LEMMA EndsInTime ==
  ASSUME IInv, NEW c \in Calls, Waiting(c), state[ProviderOf(c)] = "open"
  PROVE  sinceFailure[ProviderOf(c)] <= CallTimeout[ProviderOf(c)] + Lag
<1> DEFINE p == ProviderOf(c)
<1>1. p \in Providers
  BY ProviderOfWaiting DEF IInv
<1>2. call[c].elapsed >= sinceFailure[p] /\ call[c].elapsed <= CallTimeout[p] + Lag
  BY DEF IInv, OpenDrains, TimersServed
<1>3. call[c].elapsed \in Nat /\ sinceFailure[p] \in Nat /\ CallTimeout[p] + Lag \in Nat
  BY <1>1, RouterAssumption DEF IInv, TypeOK, CallRecord
<1> QED
  BY <1>2, <1>3

\* What a step of the router is for the breaker of p
LEMMA BreakerStep ==
  ASSUME IInv, [Next]_vars, NEW p \in Providers
  PROVE  Breaker(p)!Next \/ UNCHANGED <<failures[p], state[p], sinceFailure[p]>>
<1> DEFINE Same == UNCHANGED <<failures[p], state[p], sinceFailure[p]>>
<1>1. TypeOK /\ BreakerInv
  BY DEF IInv
<1>2. /\ failures[p] \in 0..Threshold /\ sinceFailure[p] \in 0..(ResetTimeout + 1)
      /\ state[p] \in States
      /\ Threshold \in Nat \ {0} /\ ResetTimeout \in Nat
  BY <1>1, RouterAssumption DEF TypeOK
<1>3. ASSUME NEW c \in Calls, NEW m \in Prompts, Enter(c, m) PROVE Breaker(p)!Next \/ Same
  <2>1. PICK ch \in Chains : TryFrom(c, ch, m, 1, state)
    BY <1>3 DEF Enter
  <2>2. \/ state'[p] = state[p]
        \/ state[p] = "open" /\ state'[p] = "half_open" /\ Available(p)
    BY <1>1, <2>1, LoopOn DEF TypeOK
  <2>3. failures' = failures /\ sinceFailure' = sinceFailure
    BY <1>3 DEF Enter
  <2> QED
    BY <2>2, <2>3 DEF Available, Breaker!Next, Breaker!LetThrough
<1>4. ASSUME NEW c \in Calls, Answer(c) PROVE Breaker(p)!Next \/ Same
  <2>1. CASE p = ProviderOf(c)
    <3>1. state[p] = "open" => sinceFailure[p] <= CallTimeout[p] + Lag
      BY <1>4, <2>1, EndsInTime DEF Answer
    <3>2. failures'[p] = 0 /\ state'[p] = "closed" /\ sinceFailure'[p] = sinceFailure[p]
      BY <1>1, <1>4, <2>1 DEF Answer, RecordSuccess, TypeOK
    <3> QED
      BY <3>1, <3>2 DEF Breaker!Next, Breaker!Success, Breaker!CallEnds
  <2>2. CASE p # ProviderOf(c)
    BY <1>1, <1>4, <2>2 DEF Answer, RecordSuccess, TypeOK
  <2> QED
    BY <2>1, <2>2
<1>5. ASSUME NEW c \in Calls, Expire(c) \/ HttpError(c) PROVE Breaker(p)!Next \/ Same
  <2> DEFINE q == ProviderOf(c)
             states == StateAfterFailure(q)
  <2>1. Waiting(c) /\ CaughtFailure(c)
    BY <1>5 DEF Expire, HttpError
  <2>2. q \in Providers
    BY <1>1, <2>1, ProviderOfWaiting
  <2>3. states \in [Providers -> States]
    BY <1>1 DEF StateAfterFailure, TypeOK, States
  <2>4. TryFrom(c, call[c].chain, call[c].prompt, call[c].at + 1, states)
    BY <2>1 DEF CaughtFailure
  <2>5. \/ state'[p] = states[p]
        \/ states[p] = "open" /\ state'[p] = "half_open" /\ Available(p) /\ p # q
    <3> HIDE DEF states
    <3> QED
      BY <1>1, <2>1, <2>3, <2>4, LoopOn, RestOfChain
  <2>6. CASE p = q
    <3>1. state[p] = "open" => sinceFailure[p] <= CallTimeout[p] + Lag
      BY <2>1, <2>6, EndsInTime
    <3>2. /\ failures'[p] = IF failures[p] < Threshold THEN failures[p] + 1 ELSE failures[p]
          /\ sinceFailure'[p] = 0
      BY <1>1, <1>2, <2>1, <2>6 DEF CaughtFailure, RecordFailure, AtMost, TypeOK
    <3>3. states[p] = IF failures[p] + 1 >= Threshold THEN "open" ELSE state[p]
      BY <1>1, <2>6 DEF StateAfterFailure, TypeOK
    <3>4. state[p] = "closed" <=> failures[p] < Threshold
      BY <1>1 DEF BreakerInv
    <3>5. state'[p] = IF state[p] = "closed" /\ failures[p] + 1 < Threshold THEN "closed" ELSE "open"
      BY <1>2, <2>5, <2>6, <3>3, <3>4
    <3> QED
      BY <3>1, <3>2, <3>5 DEF Breaker!Next, Breaker!Failure, Breaker!CallEnds
  <2>7. CASE p # q
    <3>1. failures'[p] = failures[p] /\ sinceFailure'[p] = sinceFailure[p] /\ states[p] = state[p]
      BY <1>1, <2>1, <2>2, <2>7 DEF CaughtFailure, RecordFailure, StateAfterFailure, TypeOK
    <3> QED
      BY <2>5, <3>1 DEF Available, Breaker!Next, Breaker!LetThrough
  <2> QED
    BY <2>6, <2>7
<1>6. CASE Tick
  <2>1. /\ sinceFailure'[p] = AtMost(sinceFailure[p] + 1, ResetTimeout + 1)
        /\ failures' = failures /\ state' = state
    BY <1>6 DEF Tick
  <2> QED
    BY <1>2, <2>1 DEF AtMost, Breaker!Next, Breaker!Age
<1> QED
  BY <1>3, <1>4, <1>5, <1>6 DEF Next, CacheHit, SdkError, Abandon, vars

\* Each provider's breaker implements CircuitBreaker, whatever coroutines write
\* its fields: no interleaving of route() calls, and no step of a loop over
\* several providers, is more than one legal step of it.
THEOREM BreakersAreBreakers == Spec => BreakerSpec
<1>1. Init => \A p \in Providers : Breaker(p)!Init
  BY DEF Init, Breaker!Init
<1>2. IInv /\ [Next]_vars =>
        [\A p \in Providers : [Breaker(p)!Next]_(Breaker(p)!breaker)]_vars
  BY BreakerStep DEF Breaker!breaker
<1> QED
  BY <1>1, <1>2, InvCorrect, PTL DEF Spec, BreakerSpec

\* No provider call outlives its timeout by more than the event loop's lag.
THEOREM TimersAreServed == Spec => []TimersServed
  BY InvCorrect, PTL DEF IInv

================================================================================
