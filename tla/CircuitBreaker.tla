--------------------------- MODULE CircuitBreaker ---------------------------
(***************************************************************************)
(* CircuitBreaker of reliability.ts.  A breaker is a record                *)
(*   [state, records, lastStateChange]                                     *)
(* and each method is an operator that returns the breaker it leaves, for  *)
(* a call at time now.                                                     *)
(***************************************************************************)
EXTENDS Integers, Sequences

CONSTANTS
  windowMs,           \* sliding window of the records, in ticks
  failureThreshold,   \* in percent
  minimumRequests,
  halfOpenAfterMs

ASSUME BreakerAssumption ==
  {windowMs, failureThreshold, minimumRequests, halfOpenAfterMs} \subseteq Nat

CircuitStates == {"closed", "open", "half-open"}

NewBreaker(now) == [state |-> "closed", records |-> <<>>, lastStateChange |-> now]

transition(b, newState, now) ==
  [state |-> newState, records |-> b.records, lastStateChange |-> now]

\* The timestamps ascend, so dropping the old records off the front is a filter.
pruneRecords(b, now) ==
  [b EXCEPT !.records = SelectSeq(@, LAMBDA r : r.timestamp + windowMs >= now)]

Elapsed(b, now) == now - b.lastStateChange >= halfOpenAfterMs

\* Faulty: one request at a time by refusing all others.
canRequestStrict(b, now) == b.state = "closed" \/ (b.state = "open" /\ Elapsed(b, now))

canRequest(b, now) ==
  \/ b.state = "closed"
  \/ b.state = "open" /\ Elapsed(b, now)
  \/ b.state = "half-open"

\* An open circuit turns half-open when it is old enough (canRequest, getState).
halfOpened(b, now) ==
  IF b.state = "open" /\ Elapsed(b, now) THEN transition(b, "half-open", now) ELSE b

\* Faulty: the test request is let through an open circuit.
afterCanRequestOpen(b, now) == pruneRecords(b, now)

afterCanRequest(b, now) == halfOpened(pruneRecords(b, now), now)

recorded(b, ok, now) ==
  [b EXCEPT !.records = Append(@, [timestamp |-> now, success |-> ok])]

recordSuccess(b, now) ==
  IF b.state = "half-open"
  THEN transition(recorded(b, TRUE, now), "closed", now)
  ELSE recorded(b, TRUE, now)

Failures(b) == Len(SelectSeq(b.records, LAMBDA r : ~r.success))

Trips(b) ==
  /\ Len(b.records) >= minimumRequests
  /\ Failures(b) * 100 >= failureThreshold * Len(b.records)

recordFailure(b, now) ==
  LET kept == pruneRecords(recorded(b, FALSE, now), now)
  IN  CASE b.state = "half-open" -> transition(recorded(b, FALSE, now), "open", now)
        [] b.state = "open"      -> recorded(b, FALSE, now)
        [] b.state = "closed"    -> IF Trips(kept) THEN transition(kept, "open", now)
                                                   ELSE kept

reset(b, now) == transition([b EXCEPT !.records = <<>>], "closed", now)
=============================================================================
