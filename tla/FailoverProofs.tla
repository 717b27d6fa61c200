--------------------------- MODULE FailoverProofs ---------------------------
(***************************************************************************)
(* The order of the cascade, the silence of open circuits and the way of a *)
(* request to its end, for any number of requests and providers and any    *)
(* thresholds and delays.                                                  *)
(***************************************************************************)
EXTENDS Failover, CircuitBreakerProofs

-----------------------------------------------------------------------------
(* The cascade keeps its order.                                            *)

OrderInv ==
  /\ phase \in [Requests -> Phases]
  /\ at \in [Requests -> {0} \cup Providers]
  /\ failedProviders \in [Requests -> SUBSET Providers]
  /\ \A r \in Requests : phase[r] \in Pending \cup {"served"} => at[r] \in 1..maxProviders(r)
  /\ CascadeInOrder

LEMMA MaxProvidersType ==
  ASSUME NEW r \in Requests
  PROVE  maxProviders(r) \in Nat /\ maxProviders(r) <= Count /\ Count \in Nat
BY FailoverAssumption DEF maxProviders

\* The loop of execute, entered with all providers before `from' failed, ends
\* at a provider with the same said of it, or with the whole tier failed.
LEMMA CascadeOrder ==
  ASSUME OrderInv, NEW r \in Requests, NEW bs, NEW from \in Nat, from > 0,
         from <= maxProviders(r) + 1, NEW failed, failed = 1..(from - 1),
         cascade(r, bs, from, failed)
  PROVE  OrderInv'
<1> DEFINE last == maxProviders(r)
<1>1. last \in Nat /\ last <= Count /\ Count \in Nat
  BY MaxProvidersType
<1>2. \A n \in Nat : n > 0 /\ n <= last => n \in Providers /\ n \in 1..last
  BY <1>1 DEF Providers
<1>3. \A q \in Requests : maxProviders(q)' = maxProviders(q)
  BY DEF maxProviders
<1>4. CASE /\ phase' = [phase EXCEPT ![r] = "exhausted"]
           /\ failedProviders' = [failedProviders EXCEPT ![r] = failed \cup from..last]
           /\ at' = [at EXCEPT ![r] = 0]
  <2>1. failed \cup from..last = 1..last
    BY <1>1
  <2>2. 1..last \subseteq Providers
    BY <1>1 DEF Providers
  <2> HIDE DEF last
  <2>3. failedProviders' \in [Requests -> SUBSET Providers]
    BY <1>4, <2>1, <2>2 DEF OrderInv
  <2> QED
    BY <1>3, <1>4, <2>1, <2>3 DEF last, OrderInv, CascadeInOrder, Phases, Pending
<1>5. ASSUME NEW p \in from..last,
             phase' = [phase EXCEPT ![r] = "calling"],
             failedProviders' = [failedProviders EXCEPT ![r] = failed \cup from..(p - 1)],
             at' = [at EXCEPT ![r] = p]
      PROVE  OrderInv'
  <2>1. p \in Nat /\ p \in 1..last /\ p \in Providers
    BY <1>1, <1>2
  <2>2. failed \cup from..(p - 1) = 1..(p - 1)
    BY <1>1
  <2>3. 1..(p - 1) \subseteq Providers
    BY <1>1, <2>1 DEF Providers
  <2> HIDE DEF last
  <2>4. failedProviders' \in [Requests -> SUBSET Providers]
    BY <1>5, <2>2, <2>3 DEF OrderInv
  <2> QED
    BY <1>3, <1>5, <2>1, <2>2, <2>4 DEF last, OrderInv, CascadeInOrder, Phases, Pending
<1> QED
  BY <1>4, <1>5 DEF cascade

LEMMA OrderInvInit == Init => OrderInv
BY DEF Init, OrderInv, CascadeInOrder, Phases, Pending

LEMMA AttemptFailedOrder ==
  ASSUME OrderInv, NEW r \in Requests, phase[r] = "calling", AttemptFailed(r)
  PROVE  OrderInv'
<1>1. /\ at[r] \in 1..maxProviders(r) /\ maxProviders(r) \in Nat
      /\ failedProviders[r] = 1..(at[r] - 1)
  BY MaxProvidersType DEF OrderInv, CascadeInOrder, Pending
<1>2. CASE phase' = [phase EXCEPT ![r] = "backoff"] /\ UNCHANGED <<at, failedProviders>>
  BY <1>2 DEF OrderInv, CascadeInOrder, Phases, Pending, maxProviders
<1>3. CASE cascade(r, [breakers EXCEPT ![at[r]] = recordFailure(@, now)],
                   at[r] + 1, failedProviders[r] \cup {at[r]})
  <2>1. failedProviders[r] \cup {at[r]} = 1..((at[r] + 1) - 1)
    BY <1>1
  <2>2. at[r] + 1 \in Nat /\ at[r] + 1 > 0 /\ at[r] + 1 <= maxProviders(r) + 1
    BY <1>1
  <2> QED
    BY <1>3, <2>1, <2>2, CascadeOrder
<1> QED
  BY <1>2, <1>3 DEF AttemptFailed

LEMMA OrderInvNext == OrderInv /\ [Next]_vars => OrderInv'
<1> SUFFICES ASSUME OrderInv, [Next]_vars PROVE OrderInv'
  OBVIOUS
<1>1. ASSUME NEW r \in Requests, execute(r) PROVE OrderInv'
  <2>1. cascade(r, breakers, 1, {})
    BY <1>1 DEF execute
  <2>2. {} = 1..(1 - 1) /\ 1 <= maxProviders(r) + 1
    BY MaxProvidersType
  <2> QED
    BY <2>1, <2>2, CascadeOrder
<1>2. ASSUME NEW r \in Requests, Answered(r) PROVE OrderInv'
  BY <1>2 DEF Answered, OrderInv, CascadeInOrder, Phases, Pending, maxProviders
<1>3. ASSUME NEW r \in Requests, Rejected(r) PROVE OrderInv'
  BY <1>3, AttemptFailedOrder DEF Rejected
<1>4. ASSUME NEW r \in Requests, TimedOut(r) PROVE OrderInv'
  BY <1>4, AttemptFailedOrder DEF TimedOut
<1>5. ASSUME NEW r \in Requests, Retry(r) PROVE OrderInv'
  BY <1>5 DEF Retry, OrderInv, CascadeInOrder, Phases, Pending, maxProviders
<1>6. CASE getProviderHealth \/ resetAll \/ Tick \/ UNCHANGED vars
  BY <1>6 DEF getProviderHealth, resetAll, Tick, vars, OrderInv, CascadeInOrder, maxProviders
<1> QED
  BY <1>1, <1>2, <1>3, <1>4, <1>5, <1>6 DEF Next, Timer

\* A request is never at a provider before all earlier ones of its tier have
\* failed or been skipped, and gives up only after the whole tier.
THEOREM CascadeKeepsOrder == Spec => []CascadeInOrder
<1>1. OrderInv => CascadeInOrder
  BY DEF OrderInv
<1> QED
  BY <1>1, OrderInvInit, OrderInvNext, PTL DEF Spec

-----------------------------------------------------------------------------
(* Open circuits are quiet.                                                *)

BreakersInv(bs) ==
  /\ bs = [p \in Providers |-> bs[p]]
  /\ \A p \in Providers : Shape(bs[p])

QuietInv ==
  /\ now \in Nat
  /\ startedAt \in [Requests -> Nat]
  /\ \A r \in Requests : startedAt[r] <= now
  /\ BreakersInv(breakers)
  /\ OpenMeansQuiet

\* A request that goes on where it was is not disturbed by what happens to
\* the breakers: if its circuit opens, it opens now, after the request began.
LEMMA QuietKept ==
  ASSUME QuietInv, now' = now,
         \A p \in Providers : OpensNow(breakers[p], breakers'[p], now),
         NEW q \in Requests, at[q] \in Providers, phase[q] \in Pending,
         at'[q] = at[q], startedAt'[q] = startedAt[q]
  PROVE  breakers'[at'[q]].state = "open" =>
           startedAt'[q] <= breakers'[at'[q]].lastStateChange
BY DEF QuietInv, OpenMeansQuiet, OpensNow

LEMMA AskedKeeps ==
  ASSUME now \in Nat, NEW bs, BreakersInv(bs), NEW ps
  PROVE  /\ BreakersInv(asked(bs, ps))
         /\ \A p \in Providers : OpensNow(bs[p], asked(bs, ps)[p], now)
         /\ \A p \in Providers \cap ps :
              canRequest(bs[p], now) => asked(bs, ps)[p].state # "open"
<1>1. \A p \in Providers : /\ Shape(afterCanRequest(bs[p], now))
                           /\ OpensNow(bs[p], afterCanRequest(bs[p], now), now)
                           /\ canRequest(bs[p], now) =>
                                afterCanRequest(bs[p], now).state # "open"
  BY AskedShape DEF BreakersInv
<1>2. \A p \in Providers : asked(bs, ps)[p] = IF p \in ps THEN afterCanRequest(bs[p], now)
                                                          ELSE bs[p]
  BY DEF asked
<1>3. \A p \in Providers : OpensNow(bs[p], bs[p], now)
  BY DEF OpensNow
<1>4. asked(bs, ps) = [p \in Providers |-> asked(bs, ps)[p]]
  BY DEF asked
<1> QED
  BY <1>1, <1>2, <1>3, <1>4 DEF BreakersInv

LEMMA CascadeQuiet ==
  ASSUME OrderInv, OrderInv', QuietInv, now' = now, NEW r \in Requests, NEW bs, BreakersInv(bs),
         \A p \in Providers : OpensNow(breakers[p], bs[p], now),
         NEW from \in Nat, from > 0, NEW failed,
         cascade(r, bs, from, failed)
  PROVE  QuietInv'
<1> DEFINE last == maxProviders(r)
<1>0. now \in Nat /\ BreakersInv(breakers) /\ startedAt \in [Requests -> Nat]
  BY DEF QuietInv
<1>1. last \in Nat /\ last <= Count /\ Count \in Nat
  BY MaxProvidersType
<1>2. ASSUME NEW ps, breakers' = asked(bs, ps)
      PROVE  BreakersInv(breakers)' /\ \A p \in Providers : OpensNow(breakers[p], breakers'[p], now)
  <2>1. /\ BreakersInv(breakers')
        /\ \A p \in Providers : OpensNow(bs[p], breakers'[p], now)
    BY <1>0, <1>2, AskedKeeps
  <2>2. \A p \in Providers : OpensNow(breakers[p], breakers'[p], now)
    BY <2>1, OpensNowTwice
  <2> QED
    BY <2>1, <2>2 DEF BreakersInv, Shape
<1>3. ASSUME \A p \in Providers : OpensNow(breakers[p], breakers'[p], now),
             NEW q \in Requests \ {r}, phase'[q] \in Pending,
             phase'[q] = phase[q], at'[q] = at[q], startedAt'[q] = startedAt[q]
      PROVE  breakers'[at'[q]].state = "open" =>
               startedAt'[q] <= breakers'[at'[q]].lastStateChange
  <2>1. at[q] \in 1..maxProviders(q) /\ phase[q] \in Pending
    BY <1>3 DEF OrderInv
  <2>2. at[q] \in Providers
    BY <2>1, MaxProvidersType DEF Providers
  <2> QED
    BY <1>3, <2>1, <2>2, QuietKept
<1>4. CASE /\ breakers' = asked(bs, from..last)
           /\ phase' = [phase EXCEPT ![r] = "exhausted"]
           /\ startedAt' = [startedAt EXCEPT ![r] = 0]
           /\ at' = [at EXCEPT ![r] = 0]
  <2>1. BreakersInv(breakers)' /\ \A p \in Providers : OpensNow(breakers[p], breakers'[p], now)
    BY <1>2, <1>4
  <2>2. startedAt' \in [Requests -> Nat] /\ \A q \in Requests : startedAt'[q] <= now
    BY <1>0, <1>4 DEF QuietInv
  <2>3. \A q \in Requests \ {r} :
          phase'[q] = phase[q] /\ at'[q] = at[q] /\ startedAt'[q] = startedAt[q]
    BY <1>0, <1>4 DEF OrderInv
  <2>4. phase'[r] \notin Pending
    BY <1>4 DEF OrderInv, Pending
  <2>5. OpenMeansQuiet'
    BY <1>3, <2>1, <2>3, <2>4 DEF OpenMeansQuiet
  <2> QED
    BY <1>0, <2>1, <2>2, <2>5 DEF QuietInv
<1>5. ASSUME NEW p \in from..last, canRequest(bs[p], now),
             breakers' = asked(bs, from..p),
             phase' = [phase EXCEPT ![r] = "calling"],
             startedAt' = [startedAt EXCEPT ![r] = now],
             at' = [at EXCEPT ![r] = p]
      PROVE  QuietInv'
  <2>0. p \in Providers /\ p \in from..p
    BY <1>1 DEF Providers
  <2>1. BreakersInv(breakers)' /\ \A i \in Providers : OpensNow(breakers[i], breakers'[i], now)
    BY <1>2, <1>5
  <2>2. startedAt' \in [Requests -> Nat] /\ \A q \in Requests : startedAt'[q] <= now
    BY <1>0, <1>5 DEF QuietInv
  <2>3. \A q \in Requests \ {r} :
          phase'[q] = phase[q] /\ at'[q] = at[q] /\ startedAt'[q] = startedAt[q]
    BY <1>0, <1>5 DEF OrderInv
  <2>4. at'[r] = p /\ breakers'[p].state # "open"
    BY <1>0, <1>5, <2>0, AskedKeeps DEF OrderInv
  <2>5. OpenMeansQuiet'
    BY <1>3, <2>1, <2>3, <2>4 DEF OpenMeansQuiet
  <2> QED
    BY <1>0, <2>1, <2>2, <2>5 DEF QuietInv
<1> QED
  BY <1>4, <1>5 DEF cascade, finished

LEMMA QuietInvInit == Init => QuietInv
<1> SUFFICES ASSUME Init PROVE QuietInv
  OBVIOUS
<1>1. \A p \in Providers : breakers[p] = [state |-> "closed", records |-> <<>>, lastStateChange |-> 0]
  BY DEF Init, NewBreaker
<1>2. \A p \in Providers : Shape(breakers[p])
  BY <1>1 DEF Shape, CircuitStates
<1>3. BreakersInv(breakers)
  BY <1>2 DEF Init, BreakersInv
<1> QED
  BY <1>3 DEF Init, QuietInv, OpenMeansQuiet, Pending

\* One breaker is replaced by what a method leaves of it.
LEMMA OneBreaker ==
  ASSUME BreakersInv(breakers), NEW p \in Providers, NEW b, Shape(b), OpensNow(breakers[p], b, now)
  PROVE  /\ BreakersInv([breakers EXCEPT ![p] = b])
         /\ \A i \in Providers : OpensNow(breakers[i], [breakers EXCEPT ![p] = b][i], now)
<1>1. [breakers EXCEPT ![p] = b] = [i \in Providers |-> IF i = p THEN b ELSE breakers[i]]
  BY DEF BreakersInv
<1>2. \A i \in Providers : OpensNow(breakers[i], breakers[i], now)
  BY DEF OpensNow
<1> QED
  BY <1>1, <1>2 DEF BreakersInv

LEMMA AttemptFailedQuiet ==
  ASSUME OrderInv, OrderInv', QuietInv, now' = now, NEW r \in Requests, phase[r] = "calling",
         AttemptFailed(r)
  PROVE  QuietInv'
<1>1. now \in Nat /\ BreakersInv(breakers)
  BY DEF QuietInv
<1>2. at[r] \in 1..maxProviders(r) /\ at[r] \in Providers
  BY MaxProvidersType DEF OrderInv, Pending, Providers
<1>3. CASE phase' = [phase EXCEPT ![r] = "backoff"] /\ UNCHANGED <<breakers, at, startedAt>>
  BY <1>3 DEF QuietInv, OpenMeansQuiet, OrderInv, Pending, BreakersInv, Shape
<1>4. CASE cascade(r, [breakers EXCEPT ![at[r]] = recordFailure(@, now)],
                   at[r] + 1, failedProviders[r] \cup {at[r]})
  <2> DEFINE bs == [breakers EXCEPT ![at[r]] = recordFailure(breakers[at[r]], now)]
  <2>1. /\ Shape(recordFailure(breakers[at[r]], now))
        /\ OpensNow(breakers[at[r]], recordFailure(breakers[at[r]], now), now)
    BY <1>1, <1>2, FailureShape DEF BreakersInv
  <2>2. BreakersInv(bs) /\ \A i \in Providers : OpensNow(breakers[i], bs[i], now)
    BY <1>1, <1>2, <2>1, OneBreaker
  <2>3. at[r] + 1 \in Nat /\ at[r] + 1 > 0
    BY <1>2, MaxProvidersType
  <2>4. cascade(r, bs, at[r] + 1, failedProviders[r] \cup {at[r]})
    BY <1>4
  <2> HIDE DEF bs
  <2> QED
    BY <2>2, <2>3, <2>4, CascadeQuiet
<1> QED
  BY <1>3, <1>4 DEF AttemptFailed

\* A step that changes the breakers by their methods and starts no request.
LEMMA MethodsQuiet ==
  ASSUME OrderInv, QuietInv, now' = now, BreakersInv(breakers'),
         \A p \in Providers : OpensNow(breakers[p], breakers'[p], now),
         at' = at, startedAt' \in [Requests -> Nat],
         \A q \in Requests : startedAt'[q] <= now,
         \A q \in Requests : phase'[q] \in Pending =>
           phase[q] \in Pending /\ startedAt'[q] = startedAt[q]
  PROVE  QuietInv'
<1>1. \A q \in Requests : phase[q] \in Pending => at[q] \in Providers
  BY MaxProvidersType DEF OrderInv, Providers
<1>2. OpenMeansQuiet'
  BY <1>1, QuietKept DEF OpenMeansQuiet
<1>3. BreakersInv(breakers)'
  BY DEF BreakersInv, Shape
<1> QED
  BY <1>2, <1>3 DEF QuietInv

LEMMA QuietInvNext == OrderInv /\ OrderInv' /\ QuietInv /\ [Next]_vars => QuietInv'
<1> SUFFICES ASSUME OrderInv, OrderInv', QuietInv, [Next]_vars PROVE QuietInv'
  OBVIOUS
<1>0. /\ now \in Nat /\ BreakersInv(breakers) /\ startedAt \in [Requests -> Nat]
      /\ \A q \in Requests : startedAt[q] <= now
      /\ \A p \in Providers : Shape(breakers[p])
  BY DEF QuietInv, BreakersInv
<1>1. ASSUME NEW r \in Requests, execute(r) PROVE QuietInv'
  <2>1. cascade(r, breakers, 1, {}) /\ now' = now
    BY <1>1 DEF execute
  <2>2. \A p \in Providers : OpensNow(breakers[p], breakers[p], now)
    BY DEF OpensNow
  <2> QED
    BY <1>0, <2>1, <2>2, CascadeQuiet
<1>2. ASSUME NEW r \in Requests, Answered(r) PROVE QuietInv'
  <2>1. at[r] \in Providers
    BY <1>2, MaxProvidersType DEF Answered, OrderInv, Pending, Providers
  <2>2. /\ Shape(recordSuccess(breakers[at[r]], now))
        /\ OpensNow(breakers[at[r]], recordSuccess(breakers[at[r]], now), now)
    BY <1>0, <2>1, SuccessShape
  <2>3. breakers' = [breakers EXCEPT ![at[r]] = recordSuccess(breakers[at[r]], now)]
    BY <1>2 DEF Answered
  <2>4. BreakersInv(breakers') /\ \A p \in Providers : OpensNow(breakers[p], breakers'[p], now)
    BY <1>0, <2>1, <2>2, <2>3, OneBreaker
  <2>5. /\ now' = now /\ at' = at
        /\ startedAt' = [startedAt EXCEPT ![r] = 0]
        /\ phase' = [phase EXCEPT ![r] = "served"]
    BY <1>2 DEF Answered, finished
  <2>6. /\ startedAt' \in [Requests -> Nat]
        /\ \A q \in Requests : startedAt'[q] <= now
        /\ \A q \in Requests : phase'[q] \in Pending =>
             phase[q] \in Pending /\ startedAt'[q] = startedAt[q]
    BY <1>0, <2>5 DEF OrderInv, Pending
  <2> QED
    BY <2>4, <2>5, <2>6, MethodsQuiet
<1>3. ASSUME NEW r \in Requests, Rejected(r) PROVE QuietInv'
  BY <1>3, AttemptFailedQuiet DEF Rejected
<1>4. ASSUME NEW r \in Requests, TimedOut(r) PROVE QuietInv'
  BY <1>4, AttemptFailedQuiet DEF TimedOut
<1>5. ASSUME NEW r \in Requests, Retry(r) PROVE QuietInv'
  BY <1>5 DEF Retry, QuietInv, OpenMeansQuiet, OrderInv, Pending, BreakersInv, Shape
<1>6. CASE getProviderHealth
  <2>1. BreakersInv(breakers') /\ \A p \in Providers : OpensNow(breakers[p], breakers'[p], now)
    BY <1>0, <1>6, AskedKeeps DEF getProviderHealth
  <2> QED
    BY <1>0, <1>6, <2>1, MethodsQuiet DEF getProviderHealth
<1>7. CASE resetAll
  <2>1. \A p \in Providers : breakers'[p] = reset(breakers[p], now)
    BY <1>7 DEF resetAll
  <2>2. \A p \in Providers : Shape(breakers'[p]) /\ OpensNow(breakers[p], breakers'[p], now)
    BY <1>0, <2>1, ResetShape
  <2>3. BreakersInv(breakers')
    BY <1>7, <2>2 DEF resetAll, BreakersInv
  <2> QED
    BY <1>0, <1>7, <2>2, <2>3, MethodsQuiet DEF resetAll
<1>8. CASE Tick
  BY <1>0, <1>8 DEF Tick, QuietInv, OpenMeansQuiet, BreakersInv, Shape
<1>9. CASE UNCHANGED vars
  BY <1>9 DEF vars, QuietInv, OpenMeansQuiet, BreakersInv, Shape
<1> QED
  BY <1>1, <1>2, <1>3, <1>4, <1>5, <1>6, <1>7, <1>8, <1>9 DEF Next, Timer

\* While a circuit is open, only requests that were let through before it
\* opened are at its provider.
THEOREM OpenCircuitsAreQuiet == Spec => []OpenMeansQuiet
<1>1. Init => OrderInv /\ QuietInv
  BY OrderInvInit, QuietInvInit
<1>2. OrderInv /\ QuietInv /\ [Next]_vars => (OrderInv /\ QuietInv)'
  BY OrderInvNext, QuietInvNext
<1>3. QuietInv => OpenMeansQuiet
  BY DEF QuietInv
<1> QED
  BY <1>1, <1>2, <1>3, PTL DEF Spec

-----------------------------------------------------------------------------
(* Providers are skipped for a reason.                                     *)

\* A circuit that does not let a request through is open.
LEMMA UnwillingIsOpen ==
  ASSUME NEW b, Shape(b), ~canRequest(b, now)
  PROVE  b.state = "open"
BY DEF Shape, CircuitStates, canRequest

\* The loop of execute adds to the failed providers only those whose circuit,
\* as it finds it, is open.
LEMMA CascadeSkips ==
  ASSUME OrderInv, NEW r \in Requests, NEW bs, BreakersInv(bs),
         NEW from \in Nat, NEW failed, cascade(r, bs, from, failed),
         NEW q \in Requests, NEW p \in Providers,
         p \in failedProviders'[q], p \notin failedProviders[q]
  PROVE  q = r /\ (p \in failed \/ (p >= from /\ bs[p].state = "open"))
<1> DEFINE last == maxProviders(r)
           willing == {i \in from..last : canRequest(bs[i], now)}
<1>1. last \in Nat /\ p \in Nat
  BY MaxProvidersType DEF Providers
<1>2. PICK passed : /\ failedProviders' = [failedProviders EXCEPT ![r] = failed \cup passed]
                    /\ passed \subseteq from..last
                    /\ passed \cap willing = {}
  <2>1. CASE /\ willing = {}
             /\ failedProviders' = [failedProviders EXCEPT ![r] = failed \cup from..last]
    BY <2>1
  <2>2. ASSUME NEW first \in willing, \A i \in willing : first <= i,
               failedProviders' = [failedProviders EXCEPT ![r] = failed \cup from..(first - 1)]
        PROVE  /\ failedProviders' = [failedProviders EXCEPT ![r] = failed \cup from..(first - 1)]
               /\ from..(first - 1) \subseteq from..last
               /\ from..(first - 1) \cap willing = {}
    BY <1>1, <2>2
  <2> QED
    BY <2>1, <2>2 DEF cascade
<1>3. q = r /\ p \in failed \cup passed
  BY <1>2 DEF OrderInv
<1>4. ASSUME p \in passed PROVE p >= from /\ bs[p].state = "open"
  <2>1. p \in from..last /\ ~canRequest(bs[p], now)
    BY <1>2, <1>4
  <2> QED
    BY <1>1, <2>1, UnwillingIsOpen DEF BreakersInv
<1> QED
  BY <1>3, <1>4

SkipsForReason ==
  \A r \in Requests, p \in Providers :
    p \in failedProviders'[r] \ failedProviders[r] =>
      \/ breakers[p].state = "open"
      \/ phase[r] = "calling" /\ at[r] = p /\ attempt[r] = 1

LEMMA AttemptFailedSkips ==
  ASSUME OrderInv, QuietInv, NEW r \in Requests, phase[r] = "calling", AttemptFailed(r)
  PROVE  SkipsForReason
<1> SUFFICES ASSUME NEW q \in Requests, NEW p \in Providers,
                    p \in failedProviders'[q], p \notin failedProviders[q]
             PROVE  \/ breakers[p].state = "open"
                    \/ phase[q] = "calling" /\ at[q] = p /\ attempt[q] = 1
  BY DEF SkipsForReason
<1> DEFINE bs == [breakers EXCEPT ![at[r]] = recordFailure(breakers[at[r]], now)]
<1>1. /\ now \in Nat /\ BreakersInv(breakers)
      /\ at[r] \in Providers /\ at[r] \in Nat /\ p \in Nat
  BY MaxProvidersType DEF QuietInv, OrderInv, Pending, Providers
<1>2. attempt[r] = 1 /\ cascade(r, bs, at[r] + 1, failedProviders[r] \cup {at[r]})
  BY DEF AttemptFailed
<1>3. BreakersInv(bs)
  <2>1. /\ Shape(recordFailure(breakers[at[r]], now))
        /\ OpensNow(breakers[at[r]], recordFailure(breakers[at[r]], now), now)
    BY <1>1, FailureShape DEF BreakersInv
  <2> QED
    BY <1>1, <2>1, OneBreaker
<1>4. q = r /\ (p \in failedProviders[r] \cup {at[r]} \/ (p >= at[r] + 1 /\ bs[p].state = "open"))
  <2> HIDE DEF bs
  <2> QED
    BY <1>1, <1>2, <1>3, CascadeSkips
<1>5. p # at[r] => bs[p] = breakers[p]
  BY <1>1 DEF BreakersInv
<1> QED
  BY <1>1, <1>2, <1>4, <1>5

LEMMA StepSkips == OrderInv /\ QuietInv /\ [Next]_vars => SkipsForReason
<1> SUFFICES ASSUME OrderInv, QuietInv, [Next]_vars PROVE SkipsForReason
  OBVIOUS
<1>1. ASSUME NEW r \in Requests, execute(r) PROVE SkipsForReason
  <2>1. cascade(r, breakers, 1, {}) /\ BreakersInv(breakers)
    BY <1>1 DEF execute, QuietInv
  <2> QED
    BY <2>1, CascadeSkips DEF SkipsForReason
<1>2. ASSUME NEW r \in Requests, Rejected(r) \/ TimedOut(r) PROVE SkipsForReason
  BY <1>2, AttemptFailedSkips DEF Rejected, TimedOut
<1>3. ASSUME failedProviders' = failedProviders PROVE SkipsForReason
  BY <1>3 DEF SkipsForReason
<1> QED
  BY <1>1, <1>2, <1>3
     DEF Next, Timer, Answered, Retry, getProviderHealth, resetAll, Tick, vars

\* No request passes over a provider whose circuit is closed or half-open, other
\* than by failing there twice.
THEOREM SkipsAreJustified == Spec => SkippedOnlyWhenOpen
<1>1. Init => OrderInv /\ QuietInv
  BY OrderInvInit, QuietInvInit
<1>2. OrderInv /\ QuietInv /\ [Next]_vars => (OrderInv /\ QuietInv)'
  BY OrderInvNext, QuietInvNext
<1>3. OrderInv /\ QuietInv /\ [Next]_vars =>
        [\A r \in Requests, p \in Providers :
           p \in failedProviders'[r] \ failedProviders[r] =>
             \/ breakers[p].state = "open"
             \/ phase[r] = "calling" /\ at[r] = p /\ attempt[r] = 1]_vars
  BY StepSkips DEF SkipsForReason
<1> QED
  BY <1>1, <1>2, <1>3, PTL DEF Spec, SkippedOnlyWhenOpen
-----------------------------------------------------------------------------
(* Requests come to an end.  A request only goes forward: from a first     *)
(* attempt to its backoff, to the retry, to a later provider, to its end;  *)
(* and while it waits, the timer that takes it on is near.                 *)

LocalsInv ==
  /\ now \in Nat
  /\ attempt \in [Requests -> {0, 1}]
  /\ deadline \in [Requests -> Nat]
  /\ \A r \in Requests : phase[r] = "backoff" => attempt[r] = 0

Longer(r) == IF timeoutMs[r] >= retryDelay THEN timeoutMs[r] ELSE retryDelay

(* A request that waits for a provider or for its backoff has a deadline   *)
(* no further off than the longer of the tier's timeout and the delay of   *)
(* the retry, so that no provider can hold it up (rejectAfter and          *)
(* retryWithBackoff).                                                      *)
DeadlineNear ==
  \A r \in Requests : phase[r] \in Pending => deadline[r] <= now + Longer(r)

\* How far a request is.
Stage(r) ==
  CASE phase[r] = "new" -> 0
    [] phase[r] = "calling" -> 3 * at[r] + 2 * attempt[r]
    [] phase[r] = "backoff" -> 3 * at[r] + 1
    [] phase[r] \in {"served", "exhausted"} -> 3 * Count + 3

(* Whatever moves a request moves it forward: no provider is called a      *)
(* third time or after a later one, and who has an outcome keeps it, so    *)
(* that a request takes at most 3 * Count + 3 steps of its own.            *)
RequestsForward ==
  \A r \in Requests :
    \/ phase'[r] = phase[r] /\ at'[r] = at[r] /\ attempt'[r] = attempt[r]
    \/ Stage(r) < Stage(r)'

\* What a step of request r that enters the loop of execute makes of it.
LEMMA CascadeLocals ==
  ASSUME OrderInv, LocalsInv, DeadlineNear, now' = now, NEW r \in Requests, NEW bs,
         NEW from \in Nat, from > 0, NEW failed, cascade(r, bs, from, failed),
         Stage(r) < 3 * from, Stage(r) < 3 * Count + 3
  PROVE  LocalsInv' /\ DeadlineNear' /\ RequestsForward
<1>0. /\ phase \in [Requests -> Phases] /\ at \in [Requests -> {0} \cup Providers]
      /\ attempt \in [Requests -> {0, 1}] /\ deadline \in [Requests -> Nat] /\ now \in Nat
      /\ timeoutMs[r] \in Nat /\ retryDelay \in Nat
  BY FailoverAssumption DEF OrderInv, LocalsInv
<1>1. CASE phase' = [phase EXCEPT ![r] = "exhausted"] /\ finished(r) /\ at' = [at EXCEPT ![r] = 0]
  <2>1. /\ attempt' = [attempt EXCEPT ![r] = 0] /\ deadline' = [deadline EXCEPT ![r] = 0]
    BY <1>1 DEF finished
  <2>2. LocalsInv'
    BY <1>0, <1>1, <2>1 DEF LocalsInv
  <2>3. DeadlineNear'
    BY <1>0, <1>1, <2>1 DEF DeadlineNear, Longer, Pending
  <2>4. Stage(r)' = 3 * Count + 3
    BY <1>0, <1>1 DEF Stage
  <2>5. RequestsForward
    BY <1>0, <1>1, <2>1, <2>4 DEF RequestsForward
  <2> QED BY <2>2, <2>3, <2>5
<1>2. ASSUME NEW p \in from..maxProviders(r),
             phase' = [phase EXCEPT ![r] = "calling"],
             at' = [at EXCEPT ![r] = p], attempt' = [attempt EXCEPT ![r] = 0],
             deadline' = [deadline EXCEPT ![r] = now + timeoutMs[r]]
      PROVE  LocalsInv' /\ DeadlineNear' /\ RequestsForward
  <2>1. LocalsInv'
    BY <1>0, <1>2 DEF LocalsInv
  <2>2. DeadlineNear'
    BY <1>0, <1>2 DEF DeadlineNear, Longer, Pending
  <2>3. p \in Nat /\ p >= from
    BY MaxProvidersType
  <2>4. phase'[r] = "calling" /\ at'[r] = p /\ attempt'[r] = 0
    BY <1>0, <1>2
  <2>5. Stage(r)' = 3 * p
    BY <2>3, <2>4 DEF Stage
  <2>6. Stage(r) < Stage(r)'
    <3>1. Stage(r) \in Int
      BY <1>0, FailoverAssumption DEF Stage, Phases, Providers
    <3> QED BY <2>3, <2>5, <3>1
  <2>7. RequestsForward
    BY <1>0, <1>2, <2>6 DEF RequestsForward
  <2> QED BY <2>1, <2>2, <2>7
<1> QED BY <1>1, <1>2 DEF cascade

LEMMA AttemptFailedLocals ==
  ASSUME OrderInv, LocalsInv, DeadlineNear, now' = now, NEW r \in Requests, phase[r] = "calling",
         AttemptFailed(r)
  PROVE  LocalsInv' /\ DeadlineNear' /\ RequestsForward
<1>0. /\ phase \in [Requests -> Phases] /\ at \in [Requests -> {0} \cup Providers]
      /\ attempt \in [Requests -> {0, 1}] /\ deadline \in [Requests -> Nat] /\ now \in Nat
      /\ timeoutMs[r] \in Nat /\ retryDelay \in Nat
  BY FailoverAssumption DEF OrderInv, LocalsInv
<1>1. at[r] \in Nat /\ at[r] <= Count /\ Count \in Nat
  BY MaxProvidersType DEF OrderInv, Pending
<1>2. CASE /\ attempt[r] = 0 /\ phase' = [phase EXCEPT ![r] = "backoff"]
           /\ deadline' = [deadline EXCEPT ![r] = now + retryDelay] /\ UNCHANGED <<at, attempt>>
  <2>1. LocalsInv'
    BY <1>0, <1>2 DEF LocalsInv
  <2>2. DeadlineNear'
    BY <1>0, <1>2 DEF DeadlineNear, Longer, Pending
  <2>3. Stage(r) = 3 * at[r] /\ Stage(r)' = 3 * at[r] + 1
    BY <1>0, <1>1, <1>2 DEF Stage
  <2>4. RequestsForward
    BY <1>0, <1>1, <1>2, <2>3 DEF RequestsForward
  <2> QED BY <2>1, <2>2, <2>4
<1>3. CASE /\ attempt[r] = 1
           /\ cascade(r, [breakers EXCEPT ![at[r]] = recordFailure(@, now)],
                      at[r] + 1, failedProviders[r] \cup {at[r]})
  <2>1. Stage(r) = 3 * at[r] + 2
    BY <1>3, <1>1 DEF Stage
  <2>2. /\ at[r] + 1 \in Nat /\ at[r] + 1 > 0
        /\ Stage(r) < 3 * (at[r] + 1) /\ Stage(r) < 3 * Count + 3
    BY <1>1, <2>1
  <2> QED BY <1>3, <2>2, CascadeLocals
<1> QED BY <1>2, <1>3 DEF AttemptFailed

LEMMA ForwardStep ==
  OrderInv /\ LocalsInv /\ DeadlineNear /\ [Next]_vars => LocalsInv' /\ DeadlineNear' /\ RequestsForward
<1> SUFFICES ASSUME OrderInv, LocalsInv, DeadlineNear, [Next]_vars
             PROVE  LocalsInv' /\ DeadlineNear' /\ RequestsForward
  OBVIOUS
<1>0. /\ phase \in [Requests -> Phases] /\ at \in [Requests -> {0} \cup Providers]
      /\ attempt \in [Requests -> {0, 1}] /\ deadline \in [Requests -> Nat] /\ now \in Nat
      /\ retryDelay \in Nat /\ Count \in Nat /\ \A r \in Requests : timeoutMs[r] \in Nat
  BY FailoverAssumption DEF OrderInv, LocalsInv
<1>1. ASSUME NEW r \in Requests, execute(r) PROVE LocalsInv' /\ DeadlineNear' /\ RequestsForward
  <2>1. cascade(r, breakers, 1, {}) /\ now' = now /\ Stage(r) = 0
    BY <1>1 DEF execute, Stage
  <2>2. Stage(r) < 3 * 1 /\ Stage(r) < 3 * Count + 3
    BY <1>0, <2>1
  <2> QED BY <2>1, <2>2, CascadeLocals
<1>2. ASSUME NEW r \in Requests, Answered(r) PROVE LocalsInv' /\ DeadlineNear' /\ RequestsForward
  <2>1. /\ phase[r] = "calling" /\ phase' = [phase EXCEPT ![r] = "served"] /\ now' = now /\ at' = at
        /\ attempt' = [attempt EXCEPT ![r] = 0] /\ deadline' = [deadline EXCEPT ![r] = 0]
    BY <1>2 DEF Answered, finished
  <2>2. at[r] \in Nat /\ at[r] <= Count
    BY <2>1, MaxProvidersType DEF OrderInv, Pending
  <2>3. LocalsInv'
    BY <1>0, <2>1 DEF LocalsInv
  <2>4. DeadlineNear'
    BY <1>0, <2>1 DEF DeadlineNear, Longer, Pending
  <2>5. Stage(r) = 3 * at[r] + 2 * attempt[r] /\ Stage(r)' = 3 * Count + 3
    BY <1>0, <2>1 DEF Stage
  <2>6. Stage(r) < Stage(r)'
    <3>1. attempt[r] = 0 \/ attempt[r] = 1
      BY <1>0
    <3> QED BY <1>0, <2>2, <2>5, <3>1
  <2>7. RequestsForward
    BY <1>0, <2>1, <2>6 DEF RequestsForward
  <2> QED BY <2>3, <2>4, <2>7
<1>3. ASSUME NEW r \in Requests, Rejected(r) \/ TimedOut(r)
      PROVE  LocalsInv' /\ DeadlineNear' /\ RequestsForward
  BY <1>3, AttemptFailedLocals DEF Rejected, TimedOut
<1>4. ASSUME NEW r \in Requests, Retry(r) PROVE LocalsInv' /\ DeadlineNear' /\ RequestsForward
  <2>1. /\ phase[r] = "backoff" /\ phase' = [phase EXCEPT ![r] = "calling"] /\ now' = now /\ at' = at
        /\ attempt' = [attempt EXCEPT ![r] = attempt[r] + 1]
        /\ deadline' = [deadline EXCEPT ![r] = now + timeoutMs[r]]
    BY <1>4 DEF Retry
  <2>2. attempt[r] = 0 /\ attempt' = [attempt EXCEPT ![r] = 1]
    <3>1. attempt[r] = 0
      BY <2>1 DEF LocalsInv
    <3>2. attempt[r] + 1 = 1
      BY <3>1
    <3> QED BY <2>1, <3>1, <3>2
  <2>3. at[r] \in Nat
    BY <2>1, MaxProvidersType DEF OrderInv, Pending
  <2>4. LocalsInv'
    BY <1>0, <2>1, <2>2 DEF LocalsInv
  <2>5. DeadlineNear'
    BY <1>0, <2>1 DEF DeadlineNear, Longer, Pending
  <2>6. Stage(r) = 3 * at[r] + 1 /\ Stage(r)' = 3 * at[r] + 2 * 1
    BY <1>0, <2>1, <2>2 DEF Stage
  <2>7. RequestsForward
    BY <1>0, <2>1, <2>2, <2>3, <2>6 DEF RequestsForward
  <2> QED BY <2>4, <2>5, <2>7
<1>5. CASE Tick
  <2>1. now' = now + 1 /\ UNCHANGED <<phase, at, attempt, deadline>>
    BY <1>5 DEF Tick
  <2>2. \A r \in Requests : Longer(r) \in Nat
    BY <1>0 DEF Longer
  <2>3. DeadlineNear'
    <3> SUFFICES ASSUME NEW r \in Requests, phase[r] \in Pending
                 PROVE  deadline[r] <= now + 1 + Longer(r)
      BY <2>1 DEF DeadlineNear, Longer
    <3>1. deadline[r] <= now + Longer(r) /\ deadline[r] \in Nat
      BY <1>0 DEF DeadlineNear
    <3> QED BY <1>0, <2>2, <3>1
  <2> QED BY <1>0, <2>1, <2>3 DEF LocalsInv, RequestsForward
<1>6. CASE getProviderHealth \/ resetAll \/ UNCHANGED vars
  <2>1. UNCHANGED <<now, phase, at, attempt, deadline>>
    BY <1>6 DEF getProviderHealth, resetAll, vars
  <2> QED BY <1>0, <2>1 DEF LocalsInv, DeadlineNear, Longer, RequestsForward
<1> QED BY <1>1, <1>2, <1>3, <1>4, <1>5, <1>6 DEF Next, Timer

LEMMA ForwardInit == Init => LocalsInv /\ DeadlineNear
BY DEF Init, LocalsInv, DeadlineNear, Pending

LEMMA ForwardInv == Spec => [](OrderInv /\ LocalsInv /\ DeadlineNear)
<1>1. OrderInv /\ LocalsInv /\ DeadlineNear /\ [Next]_vars => (OrderInv /\ LocalsInv /\ DeadlineNear)'
  BY OrderInvNext, ForwardStep
<1> QED BY <1>1, OrderInvInit, ForwardInit, PTL DEF Spec

\* For any providers, tiers and delays, whatever a request waits for ends within
\* the longer of its timeout and the delay of the retry.
THEOREM NobodyHeldUp == Spec => []DeadlineNear
BY ForwardInv, PTL

\* No step takes a request back to an attempt or a provider it has been at.
THEOREM RequestsAdvance == Spec => [][RequestsForward]_vars
BY ForwardInv, ForwardStep, PTL DEF Spec
=============================================================================
