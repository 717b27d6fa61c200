------------------------------ MODULE Failover ------------------------------
(***************************************************************************)
(* FailoverCascade: a request tries the providers of its tier in order,    *)
(* each at most twice and each call against a timeout, and skips those     *)
(* whose circuit is open.  Concurrent requests share the breakers.  What a *)
(* provider answers after its timeout is lost in Promise.race and has no   *)
(* action here.                                                            *)
(***************************************************************************)
EXTENDS CircuitBreaker, FiniteSets

CONSTANTS
  Requests,           \* the calls of execute
  Count,              \* how many providers are configured, in order 1..Count
  providerCount,      \* [Requests -> Nat]: providerCount of the request's tier
  timeoutMs,          \* [Requests -> Nat]: timeoutMs of the request's tier
  retryDelay,         \* the backoff before the only retry
  MaxTime             \* time does not pass MaxTime unless a timer is pending

ASSUME FailoverAssumption ==
  /\ {Count, retryDelay, MaxTime} \subseteq Nat
  /\ providerCount \in [Requests -> Nat]
  /\ timeoutMs \in [Requests -> Nat]

VARIABLES
  now,
  breakers,           \* [Providers -> Breaker]
  phase,              \* "new", "calling", "backoff", "served" or "exhausted"
  at,                 \* the provider the request is at
  attempt,            \* retryWithBackoff's loop variable
  deadline,           \* of the timeout or of the backoff
  startedAt,          \* when the breaker let the request through (for properties)
  failedProviders

vars == <<now, breakers, phase, at, attempt, deadline, startedAt, failedProviders>>

Providers == 1..Count
Phases == {"new", "calling", "backoff", "served", "exhausted"}
Pending == {"calling", "backoff"}

maxProviders(r) == IF providerCount[r] <= Count THEN providerCount[r] ELSE Count

-----------------------------------------------------------------------------
Init ==
  /\ now = 0
  /\ breakers = [p \in Providers |-> NewBreaker(0)]
  /\ phase = [r \in Requests |-> "new"]
  /\ at = [r \in Requests |-> 0]
  /\ attempt = [r \in Requests |-> 0]
  /\ deadline = [r \in Requests |-> 0]
  /\ startedAt = [r \in Requests |-> 0]
  /\ failedProviders = [r \in Requests |-> {}]

\* canRequest asks the breakers of these providers, and may turn them half-open.
asked(bs, ps) == [p \in Providers |-> IF p \in ps THEN afterCanRequest(bs[p], now) ELSE bs[p]]

\* The locals of a call that is over.
finished(r) ==
  /\ attempt' = [attempt EXCEPT ![r] = 0]
  /\ deadline' = [deadline EXCEPT ![r] = 0]
  /\ startedAt' = [startedAt EXCEPT ![r] = 0]

\* Faulty: a provider that is skipped is not pushed to failedProviders.
cascadeSilently(r, bs, from, failed) ==
  LET last == maxProviders(r)
      willing == {p \in from..last : canRequest(bs[p], now)}
  IN  \/ /\ willing = {}
         /\ breakers' = asked(bs, from..last)
         /\ phase' = [phase EXCEPT ![r] = "exhausted"]
         /\ failedProviders' = [failedProviders EXCEPT ![r] = failed]
         /\ finished(r)
         /\ at' = [at EXCEPT ![r] = 0]
      \/ \E p \in willing :
         /\ \A q \in willing : p <= q
         /\ breakers' = asked(bs, from..p)
         /\ phase' = [phase EXCEPT ![r] = "calling"]
         /\ failedProviders' = [failedProviders EXCEPT ![r] = failed]
         /\ at' = [at EXCEPT ![r] = p]
         /\ attempt' = [attempt EXCEPT ![r] = 0]
         /\ deadline' = [deadline EXCEPT ![r] = now + timeoutMs[r]]
         /\ startedAt' = [startedAt EXCEPT ![r] = now]

\* The loop of execute from provider `from' on, up to its next await: the
\* first provider whose breaker lets the request through is called, the
\* others before it are failed; when there is none, execute throws.
cascade(r, bs, from, failed) ==
  LET last == maxProviders(r)
      willing == {p \in from..last : canRequest(bs[p], now)}
  IN  \/ /\ willing = {}
         /\ breakers' = asked(bs, from..last)
         /\ phase' = [phase EXCEPT ![r] = "exhausted"]
         /\ failedProviders' = [failedProviders EXCEPT ![r] = failed \cup from..last]
         /\ finished(r)
         /\ at' = [at EXCEPT ![r] = 0]
      \/ \E p \in willing :
         /\ \A q \in willing : p <= q
         /\ breakers' = asked(bs, from..p)
         /\ phase' = [phase EXCEPT ![r] = "calling"]
         /\ failedProviders' = [failedProviders EXCEPT ![r] = failed \cup from..(p - 1)]
         /\ at' = [at EXCEPT ![r] = p]
         /\ attempt' = [attempt EXCEPT ![r] = 0]
         /\ deadline' = [deadline EXCEPT ![r] = now + timeoutMs[r]]
         /\ startedAt' = [startedAt EXCEPT ![r] = now]

execute(r) ==
  /\ phase[r] = "new"
  /\ cascade(r, breakers, 1, {})
  /\ UNCHANGED now

\* createMessage resolves before the timeout has rejected the race.
Answered(r) ==
  /\ phase[r] = "calling"
  /\ breakers' = [breakers EXCEPT ![at[r]] = recordSuccess(@, now)]
  /\ phase' = [phase EXCEPT ![r] = "served"]
  /\ finished(r)
  /\ UNCHANGED <<now, at, failedProviders>>

\* retryWithBackoff with maxRetries 1: wait and try again, or give the
\* provider up, record the failure and go on with the next.
AttemptFailed(r) ==
  \/ /\ attempt[r] = 0
     /\ phase' = [phase EXCEPT ![r] = "backoff"]
     /\ deadline' = [deadline EXCEPT ![r] = now + retryDelay]
     /\ UNCHANGED <<breakers, at, attempt, startedAt, failedProviders>>
  \/ /\ attempt[r] = 1
     /\ cascade(r, [breakers EXCEPT ![at[r]] = recordFailure(@, now)],
                at[r] + 1, failedProviders[r] \cup {at[r]})

\* createMessage rejects.
Rejected(r) ==
  /\ phase[r] = "calling"
  /\ AttemptFailed(r)
  /\ UNCHANGED now

\* Faulty: no timeout is raced against the call.
TimedOutNever(r) == FALSE /\ phase[r] = "calling" /\ UNCHANGED vars

\* rejectAfter rejects first.
TimedOut(r) ==
  /\ phase[r] = "calling"
  /\ now >= deadline[r]
  /\ AttemptFailed(r)
  /\ UNCHANGED now

\* The retry is made whatever the breaker says by now.
Retry(r) ==
  /\ phase[r] = "backoff"
  /\ now >= deadline[r]
  /\ phase' = [phase EXCEPT ![r] = "calling"]
  /\ attempt' = [attempt EXCEPT ![r] = @ + 1]
  /\ deadline' = [deadline EXCEPT ![r] = now + timeoutMs[r]]
  /\ UNCHANGED <<now, breakers, at, startedAt, failedProviders>>

\* A health check turns due circuits half-open and prunes every window.
getProviderHealth ==
  /\ breakers' = asked(breakers, Providers)
  /\ UNCHANGED <<now, phase, at, attempt, deadline, startedAt, failedProviders>>

resetAll ==
  /\ breakers' = [p \in Providers |-> reset(breakers[p], now)]
  /\ UNCHANGED <<now, phase, at, attempt, deadline, startedAt, failedProviders>>

Tick ==
  /\ now < MaxTime \/ \E r \in Requests : phase[r] \in Pending /\ now < deadline[r]
  /\ now' = now + 1
  /\ UNCHANGED <<breakers, phase, at, attempt, deadline, startedAt, failedProviders>>

Timer(r) == TimedOut(r) \/ Retry(r)

Next ==
  \/ \E r \in Requests : execute(r) \/ Answered(r) \/ Rejected(r) \/ Timer(r)
  \/ getProviderHealth
  \/ resetAll
  \/ Tick

Spec == Init /\ [][Next]_vars

\* Timers fire.  Nothing is assumed of the providers, which may never answer.
Fairness == WF_vars(Tick) /\ \A r \in Requests : WF_vars(Timer(r))

FairSpec == Spec /\ Fairness

-----------------------------------------------------------------------------
\* A request is at, or answered by, the first provider of its tier that all
\* providers before it have failed or been skipped for, and gives up only when
\* the whole tier has (the report failedProviders has no gap).
CascadeInOrder ==
  \A r \in Requests :
    /\ phase[r] \in Pending \cup {"served"} => failedProviders[r] = 1..(at[r] - 1)
    /\ phase[r] = "exhausted" => failedProviders[r] = 1..maxProviders(r)

\* While a circuit is open only requests let through before it opened are at
\* the provider: their retries still call it, but no new request does, health
\* checks and late outcomes of other requests notwithstanding.
OpenMeansQuiet ==
  \A r \in Requests :
    phase[r] \in Pending /\ breakers[at[r]].state = "open" =>
      startedAt[r] <= breakers[at[r]].lastStateChange

\* A provider is passed over only while its circuit is open or after two
\* failed attempts: in particular not while the circuit is half-open.
SkippedOnlyWhenOpen ==
  [][\A r \in Requests, p \in Providers :
       p \in failedProviders'[r] \ failedProviders[r] =>
         \/ breakers[p].state = "open"
         \/ phase[r] = "calling" /\ at[r] = p /\ attempt[r] = 1]_vars

\* Every request is answered or told that the providers are exhausted, also
\* when no provider ever answers (the timeouts of rejectAfter).  Each request
\* is made once, so the cascade comes to rest again and again.
ExecuteSettles == []<>(\A r \in Requests : phase[r] \notin Pending)

=============================================================================
