------------------------------- MODULE LLMRouter -------------------------------
(***************************************************************************)
(* One LLMRouter object of the ai-orchestration service                    *)
(* (services/ai-orchestration/app/llm/router/llm_router.py) and the         *)
(* coroutines that are inside its route() method.                           *)
(*                                                                         *)
(* route() runs on one asyncio event loop and has a single await, the       *)
(* provider call under wait_for.  Everything from entry to that await, and  *)
(* everything from its outcome to the next await or the return, is one      *)
(* atomic step, so each action below is a whole such stretch of code.       *)
(* Time is a tick; the model keeps ages instead of time stamps and lets     *)
(* them saturate where the code can no longer tell two ages apart.          *)
(***************************************************************************)
EXTENDS Naturals, Sequences

CONSTANTS Calls,          \* coroutines; each enters route() again and again
          Prompts,        \* distinct keys of the in-process cache
          Providers,      \* PROVIDER_MODELS
          HttpProviders,  \* those called through httpx: their errors are caught
          Chains,         \* the provider lists TASK_PROVIDER_MAP can select
          Threshold,      \* CircuitBreaker.failure_threshold
          ResetTimeout,   \* CircuitBreaker.reset_timeout
          CallTimeout,    \* PROVIDER_TIMEOUTS
          Lag             \* ticks a busy event loop may delay a wait_for timer

ASSUME RouterAssumption ==
  /\ HttpProviders \subseteq Providers
  /\ Chains \subseteq Seq(Providers)
  /\ \A ch \in Chains : \A i, j \in 1..Len(ch) : ch[i] = ch[j] => i = j
  /\ Threshold \in Nat \ {0}
  /\ ResetTimeout \in Nat
  /\ Lag \in Nat
  /\ CallTimeout \in [Providers -> Nat]
  \* 14 s is the longest provider timeout, 60 s the breaker's reset timeout
  /\ \A p \in Providers : CallTimeout[p] + Lag <= ResetTimeout

VARIABLES
  failures,      \* CircuitBreaker._failures, counted up to Threshold
  state,         \* CircuitBreaker._state
  sinceFailure,  \* now - CircuitBreaker._last_failure, up to ResetTimeout + 1
  cache,         \* prompts with a non-empty entry in LLMRouter._cache
  call           \* the coroutines: where each is in route()

vars == <<failures, state, sinceFailure, cache, call>>

States == {"closed", "open", "half_open"}
Statuses == {"new", "waiting", "answered", "cached", "exhausted", "error", "abandoned"}

CallRecord ==
  [status : Statuses, chain : Seq(Providers), at : Nat, prompt : Prompts,
   elapsed : Nat, probe : BOOLEAN]

TypeOK ==
  /\ failures \in [Providers -> 0..Threshold]
  /\ state \in [Providers -> States]
  /\ sinceFailure \in [Providers -> 0..(ResetTimeout + 1)]
  /\ cache \subseteq Prompts
  /\ call \in [Calls -> CallRecord]
  /\ \A c \in Calls : call[c].status = "waiting" =>
       call[c].chain \in Chains /\ call[c].at \in 1..Len(call[c].chain)

Waiting(c) == call[c].status = "waiting"
ProviderOf(c) == call[c].chain[call[c].at]
CallsTo(p) == {c \in Calls : Waiting(c) /\ ProviderOf(c) = p}

\* Outside route() a coroutine keeps nothing but how its last call ended.
Outside(s, m) ==
  [status |-> s, chain |-> <<>>, at |-> 0, prompt |-> m, elapsed |-> 0, probe |-> FALSE]

AtMost(n, max) == IF n > max THEN max ELSE n

Init ==
  /\ failures = [p \in Providers |-> 0]
  /\ state = [p \in Providers |-> "closed"]
  /\ sinceFailure = [p \in Providers |-> ResetTimeout + 1]
  /\ cache = {}
  /\ \E m \in Prompts : call = [c \in Calls |-> Outside("new", m)]

(***************************************************************************)
(* CircuitBreaker                                                          *)
(***************************************************************************)
\* Mutants of is_available: the reset timeout is over a tick early, or never.
AvailableEarly(p) == state[p] # "open" \/ sinceFailure[p] >= ResetTimeout
AvailableNever(p) == state[p] # "open"

\* is_available, without its side effect
Available(p) == state[p] # "open" \/ sinceFailure[p] > ResetTimeout

\* Mutant: the probe is let through with the breaker still open.
AdmittedOpen(states, p) == states

\* The side effect of is_available on the breaker that let the call through
Admitted(states, p) ==
  IF states[p] = "open" THEN [states EXCEPT ![p] = "half_open"] ELSE states

\* Mutants of record_success: it takes one failure back, or forgets the count.
RecordSuccessDecrements(p) ==
  /\ failures' = [failures EXCEPT ![p] = @ - 1]
  /\ state' = [state EXCEPT ![p] = "closed"]
RecordSuccessKeepsCount(p) ==
  /\ state' = [state EXCEPT ![p] = "closed"]
  /\ UNCHANGED failures

RecordSuccess(p) ==
  /\ failures' = [failures EXCEPT ![p] = 0]
  /\ state' = [state EXCEPT ![p] = "closed"]

\* Mutant of record_failure: _last_failure is not updated.
RecordFailureKeepsTime(p) ==
  /\ failures' = [failures EXCEPT ![p] = AtMost(@ + 1, Threshold)]
  /\ UNCHANGED sinceFailure

\* _failures is only ever compared with the threshold, so counting stops there.
RecordFailure(p) ==
  /\ failures' = [failures EXCEPT ![p] = AtMost(@ + 1, Threshold)]
  /\ sinceFailure' = [sinceFailure EXCEPT ![p] = 0]

\* Mutant: the breaker opens on the failure that reaches the threshold only.
StateAfterExactFailure(p) ==
  IF failures[p] + 1 = Threshold THEN [state EXCEPT ![p] = "open"] ELSE state

StateAfterFailure(p) ==
  IF failures[p] + 1 >= Threshold THEN [state EXCEPT ![p] = "open"] ELSE state

(***************************************************************************)
(* route()                                                                 *)
(***************************************************************************)
\* The loop's next stop: the first available provider of ch from index i on.
FirstAvailable(ch, i, j) ==
  /\ j \in i..Len(ch)
  /\ Available(ch[j])
  /\ \A k \in i..(j - 1) : ~Available(ch[k])

\* The for loop from index i on, up to the await or the final raise.  The
\* breakers are as "states" says; only breakers before index i may differ
\* from the current ones, so availability is read from the current state.
TryFrom(c, ch, m, i, states) ==
  \/ \E j \in i..Len(ch) :
       /\ FirstAvailable(ch, i, j)
       /\ state' = Admitted(states, ch[j])
       /\ call' = [call EXCEPT ![c] =
                     [status |-> "waiting", chain |-> ch, at |-> j, prompt |-> m,
                      elapsed |-> 0, probe |-> states[ch[j]] # "closed"]]
  \/ /\ \A j \in i..Len(ch) : ~Available(ch[j])
     /\ state' = states
     /\ call' = [call EXCEPT ![c] = Outside("exhausted", m)]

CacheHit(c, m) ==
  /\ ~Waiting(c)
  /\ m \in cache
  /\ call' = [call EXCEPT ![c] = Outside("cached", m)]
  /\ UNCHANGED <<failures, state, sinceFailure, cache>>

Enter(c, m) ==
  /\ ~Waiting(c)
  /\ m \notin cache
  /\ \E ch \in Chains : TryFrom(c, ch, m, 1, state)
  /\ UNCHANGED <<failures, sinceFailure, cache>>

\* An empty content is stored too, but the next lookup takes it for a miss.
Answer(c) ==
  /\ Waiting(c)
  /\ RecordSuccess(ProviderOf(c))
  /\ \E empty \in BOOLEAN :
       cache' = IF empty THEN cache \ {call[c].prompt} ELSE cache \cup {call[c].prompt}
  /\ call' = [call EXCEPT ![c] = Outside("answered", call[c].prompt)]
  /\ UNCHANGED sinceFailure

\* The except clause and the iterations of the loop that follow it
CaughtFailure(c) ==
  LET p == ProviderOf(c)
  IN /\ RecordFailure(p)
     /\ TryFrom(c, call[c].chain, call[c].prompt, call[c].at + 1, StateAfterFailure(p))
     /\ UNCHANGED cache

\* Mutant: only the httpx call is under wait_for.
ExpireHttpOnly(c) ==
  /\ Waiting(c)
  /\ ProviderOf(c) \in HttpProviders
  /\ call[c].elapsed >= CallTimeout[ProviderOf(c)]
  /\ CaughtFailure(c)

\* wait_for gives up on the call.
Expire(c) ==
  /\ Waiting(c)
  /\ call[c].elapsed >= CallTimeout[ProviderOf(c)]
  /\ CaughtFailure(c)

\* httpx.HTTPError, which only a provider called through httpx raises
HttpError(c) ==
  /\ Waiting(c)
  /\ ProviderOf(c) \in HttpProviders
  /\ CaughtFailure(c)

\* An SDK's own error (openai, anthropic, groq) is none of the exceptions the
\* except clause names: it leaves route() with the breaker untouched.
SdkError(c) ==
  /\ Waiting(c)
  /\ ProviderOf(c) \notin HttpProviders
  /\ call' = [call EXCEPT ![c] = Outside("error", call[c].prompt)]
  /\ UNCHANGED <<failures, state, sinceFailure, cache>>

\* So do a response without the expected fields and the caller's cancellation.
Abandon(c) ==
  /\ Waiting(c)
  /\ call' = [call EXCEPT ![c] = Outside("abandoned", call[c].prompt)]
  /\ UNCHANGED <<failures, state, sinceFailure, cache>>

\* Time passes, but a due timer is served within Lag ticks.
Tick ==
  /\ \A c \in Calls : Waiting(c) => call[c].elapsed < CallTimeout[ProviderOf(c)] + Lag
  /\ sinceFailure' = [p \in Providers |-> AtMost(sinceFailure[p] + 1, ResetTimeout + 1)]
  /\ call' = [c \in Calls |-> IF Waiting(c) THEN [call[c] EXCEPT !.elapsed = @ + 1]
                                            ELSE call[c]]
  /\ UNCHANGED <<failures, state, cache>>

Next ==
  \/ \E c \in Calls :
       \/ \E m \in Prompts : CacheHit(c, m) \/ Enter(c, m)
       \/ Answer(c) \/ Expire(c) \/ HttpError(c) \/ SdkError(c) \/ Abandon(c)
  \/ Tick

Spec == Init /\ [][Next]_vars

\* Time goes on and wait_for's timers fire; nothing is assumed of the
\* providers or of the callers.
Fairness == WF_vars(Tick) /\ \A c \in Calls : WF_vars(Expire(c))
FairSpec == Spec /\ Fairness

(***************************************************************************)
(* Properties                                                              *)
(***************************************************************************)
\* The breaker's fields agree, whatever interleaving of concurrent calls wrote
\* them: it is closed exactly while the failures since the last success are
\* fewer than the threshold, and half open only once the last failure is older
\* than the reset timeout.
BreakerInv ==
  \A p \in Providers :
    /\ state[p] = "closed" <=> failures[p] < Threshold
    /\ state[p] = "half_open" => sinceFailure[p] > ResetTimeout

\* While a breaker is open, every call still running on its provider started
\* before the last failure: the open state sheds load and only drains.
OpenDrains ==
  \A c \in Calls :
    Waiting(c) /\ state[ProviderOf(c)] = "open"
      => call[c].elapsed >= sinceFailure[ProviderOf(c)]

\* While a breaker is half open, every call running on its provider is one
\* admitted to test the recovery: no call of the outage is mixed with them.
\* Nothing in CircuitBreaker enforces it; it rests on the provider timeouts
\* being shorter than reset_timeout.
ProbesAreFresh ==
  \A c \in Calls : Waiting(c) /\ state[ProviderOf(c)] = "half_open" => call[c].probe

\* A call of the outage that succeeds late closes the breaker at once, but
\* only within a provider timeout of the last failure; after that a breaker
\* closes only on the answer of a call admitted half open.
RecoveryNeedsProbe ==
  [][\A p \in Providers :
       /\ state[p] # "closed" /\ state'[p] = "closed"
       /\ sinceFailure[p] > CallTimeout[p] + Lag
       => \E c \in CallsTo(p) : call[c].probe /\ call'[c].status = "answered"]_vars

\* A recorded failure never leaves a breaker half open: record_failure has no
\* case for that state and relies on the count of the outage still standing.
FailedProbeReopens ==
  [][\A p \in Providers :
       state[p] = "half_open" /\ sinceFailure'[p] = 0 => state'[p] = "open"]_vars

\* Each provider's CircuitBreaker object does what a breaker of its own would,
\* although the calls of all coroutines and the loops of route() over several
\* providers are what writes its fields.
Breaker(p) == INSTANCE CircuitBreaker
                WITH Straggle <- CallTimeout[p] + Lag, failures <- failures[p],
                     state <- state[p], sinceFailure <- sinceFailure[p]
BreakerSpec ==
  /\ \A p \in Providers : Breaker(p)!Init
  /\ [][\A p \in Providers : [Breaker(p)!Next]_(Breaker(p)!breaker)]_vars

\* Every call of route() returns or raises, whatever the providers do.
EveryCallReturns == \A c \in Calls : Waiting(c) ~> ~Waiting(c)

\* An open breaker cannot shut its provider out for ever: even though each
\* late failure of a straggler restarts the reset timeout, a call is let
\* through again some time later.
ProviderReadmitted == \A p \in Providers : state[p] = "open" ~> Available(p)

\* llm_router.py:54, of the half-open state: "allow one probe".
OneProbe ==
  \A p \in Providers : state[p] = "half_open" =>
    \A c, d \in CallsTo(p) : c = d

================================================================================
