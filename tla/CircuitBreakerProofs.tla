------------------------- MODULE CircuitBreakerProofs -------------------------
(***************************************************************************)
(* What each method of the circuit breaker leaves of it, for a call at any *)
(* time t.  The facts speak of the state and the time of the last change   *)
(* only; what the records hold decides when a circuit trips.               *)
(***************************************************************************)
EXTENDS CircuitBreaker, TLAPS

Shape(b) ==
  /\ b = [state |-> b.state, records |-> b.records, lastStateChange |-> b.lastStateChange]
  /\ b.state \in CircuitStates
  /\ b.lastStateChange \in Nat

\* c is what a method leaves of b: it opened at t, or was open before.
OpensNow(b, c, t) ==
  c.state = "open" =>
    c.lastStateChange = t \/ (b.state = "open" /\ c.lastStateChange = b.lastStateChange)

LEMMA PruneShape ==
  ASSUME NEW b, Shape(b), NEW t
  PROVE  /\ Shape(pruneRecords(b, t))
         /\ pruneRecords(b, t).state = b.state
         /\ pruneRecords(b, t).lastStateChange = b.lastStateChange
<1> DEFINE kept == SelectSeq(b.records, LAMBDA r : r.timestamp + windowMs >= t)
<1>1. pruneRecords(b, t) = [b EXCEPT !.records = kept]
  BY DEF pruneRecords
<1> HIDE DEF kept
<1>2. pruneRecords(b, t)
        = [state |-> b.state, records |-> kept, lastStateChange |-> b.lastStateChange]
  BY <1>1 DEF Shape
<1> QED
  BY <1>2 DEF Shape

LEMMA TransitionShape ==
  ASSUME NEW b, Shape(b), NEW t \in Nat, NEW s \in CircuitStates
  PROVE  /\ Shape(transition(b, s, t))
         /\ transition(b, s, t).state = s
         /\ transition(b, s, t).lastStateChange = t
<1>1. transition(b, s, t) = [state |-> s, records |-> b.records, lastStateChange |-> t]
  BY DEF transition
<1> QED
  BY <1>1 DEF Shape

LEMMA RecordedShape ==
  ASSUME NEW b, Shape(b), NEW ok, NEW t
  PROVE  /\ Shape(recorded(b, ok, t))
         /\ recorded(b, ok, t).state = b.state
         /\ recorded(b, ok, t).lastStateChange = b.lastStateChange
<1> DEFINE longer == Append(b.records, [timestamp |-> t, success |-> ok])
<1>1. recorded(b, ok, t) = [b EXCEPT !.records = longer]
  BY DEF recorded
<1> HIDE DEF longer
<1>2. recorded(b, ok, t)
        = [state |-> b.state, records |-> longer, lastStateChange |-> b.lastStateChange]
  BY <1>1 DEF Shape
<1> QED
  BY <1>2 DEF Shape

\* A circuit that lets a request through is not open afterwards.
LEMMA AskedShape ==
  ASSUME NEW b, Shape(b), NEW t \in Nat
  PROVE  /\ Shape(afterCanRequest(b, t))
         /\ OpensNow(b, afterCanRequest(b, t), t)
         /\ canRequest(b, t) => afterCanRequest(b, t).state # "open"
<1> DEFINE c == pruneRecords(b, t)
<1>1. Shape(c) /\ c.state = b.state /\ c.lastStateChange = b.lastStateChange
  BY PruneShape
<1>2. afterCanRequest(b, t) = IF c.state = "open" /\ Elapsed(c, t)
                                THEN transition(c, "half-open", t) ELSE c
  BY DEF afterCanRequest, halfOpened
<1>3. Elapsed(c, t) <=> Elapsed(b, t)
  BY <1>1 DEF Elapsed
<1>4. Shape(transition(c, "half-open", t)) /\ transition(c, "half-open", t).state = "half-open"
  <2> HIDE DEF c
  <2> QED  BY <1>1, TransitionShape DEF CircuitStates
<1> HIDE DEF c
<1>5. CASE c.state = "open" /\ Elapsed(c, t)
  BY <1>2, <1>4, <1>5 DEF OpensNow
<1>6. CASE ~(c.state = "open" /\ Elapsed(c, t))
  BY <1>1, <1>2, <1>3, <1>6 DEF OpensNow, canRequest
<1> QED
  BY <1>5, <1>6

LEMMA SuccessShape ==
  ASSUME NEW b, Shape(b), NEW t \in Nat
  PROVE  Shape(recordSuccess(b, t)) /\ OpensNow(b, recordSuccess(b, t), t)
<1> DEFINE c == recorded(b, TRUE, t)
<1>1. Shape(c) /\ c.state = b.state /\ c.lastStateChange = b.lastStateChange
  BY RecordedShape
<1>2. recordSuccess(b, t) = IF b.state = "half-open" THEN transition(c, "closed", t) ELSE c
  BY DEF recordSuccess
<1> HIDE DEF c
<1>3. Shape(transition(c, "closed", t)) /\ transition(c, "closed", t).state = "closed"
  BY <1>1, TransitionShape DEF CircuitStates
<1> QED
  BY <1>1, <1>2, <1>3 DEF OpensNow

LEMMA FailureShape ==
  ASSUME NEW b, Shape(b), NEW t \in Nat
  PROVE  Shape(recordFailure(b, t)) /\ OpensNow(b, recordFailure(b, t), t)
<1> DEFINE c == recorded(b, FALSE, t)
           d == pruneRecords(c, t)
<1>1. Shape(c) /\ c.state = b.state /\ c.lastStateChange = b.lastStateChange
  BY RecordedShape
<1>2. recordFailure(b, t) =
        CASE b.state = "half-open" -> transition(c, "open", t)
          [] b.state = "open"      -> c
          [] b.state = "closed"    -> IF Trips(d) THEN transition(d, "open", t) ELSE d
  BY DEF recordFailure
<1>3. Shape(d) /\ d.state = b.state
  <2> HIDE DEF c
  <2> QED  BY <1>1, PruneShape
<1>4. /\ Shape(transition(c, "open", t)) /\ transition(c, "open", t).lastStateChange = t
      /\ Shape(transition(d, "open", t)) /\ transition(d, "open", t).lastStateChange = t
  <2> HIDE DEF c, d
  <2> QED  BY <1>1, <1>3, TransitionShape DEF CircuitStates
<1> HIDE DEF c, d
<1>5. CASE b.state = "half-open"
  BY <1>2, <1>4, <1>5 DEF OpensNow
<1>6. CASE b.state = "open"
  BY <1>1, <1>2, <1>6 DEF OpensNow
<1>7. CASE b.state = "closed"
  BY <1>2, <1>3, <1>4, <1>7 DEF OpensNow
<1> QED
  BY <1>5, <1>6, <1>7 DEF Shape, CircuitStates

LEMMA ResetShape ==
  ASSUME NEW b, Shape(b), NEW t \in Nat
  PROVE  Shape(reset(b, t)) /\ OpensNow(b, reset(b, t), t)
<1> DEFINE c == [b EXCEPT !.records = <<>>]
<1>1. c = [state |-> b.state, records |-> <<>>, lastStateChange |-> b.lastStateChange]
  BY DEF Shape
<1>2. Shape(c)
  BY <1>1 DEF Shape
<1>3. reset(b, t) = transition(c, "closed", t)
  BY DEF reset
<1> HIDE DEF c
<1> QED
  BY <1>2, <1>3, TransitionShape DEF OpensNow, CircuitStates

\* OpensNow composes: two methods in one step.
LEMMA OpensNowTwice ==
  ASSUME NEW b, NEW c, NEW d, NEW t, OpensNow(b, c, t), OpensNow(c, d, t)
  PROVE  OpensNow(b, d, t)
BY DEF OpensNow
=============================================================================
