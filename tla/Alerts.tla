------------------------------- MODULE Alerts -------------------------------
(***************************************************************************)
(* alerts.ts: the AlertMonitor the gateway tells the outcome and latency   *)
(* of every response.  Two alerts follow the events of a sliding window;   *)
(* the others are fired by whoever calls for them and stay until somebody  *)
(* clears them.                                                            *)
(***************************************************************************)
EXTENDS Integers, Sequences, FiniteSets

CONSTANTS
  WindowMs, MinimumEvents,
  ErrorRateThreshold, \* percent
  Triggers,           \* what alertCircuitOpen and its like are called for
  MaxEvents, AlertMaxTime

ASSUME AlertAssumption == WindowMs \in Nat

VARIABLES
  time,
  events,             \* the events kept: [at, success, slow]
  activeAlerts,
  calls,              \* history: the triggers the handlers were called with
  log                 \* history: every event recorded

alertVars == <<time, events, activeAlerts, calls, log>>

AlertInit ==
  time = 0 /\ events = <<>> /\ activeAlerts = {} /\ calls = {} /\ log = <<>>

\* Events leave at the front, up to the first that is not before the cutoff.
WithoutBefore(s, cutoff) ==
  LET old == {i \in DOMAIN s : \A j \in 1..i : s[j].at < cutoff}
  IN SubSeq(s, Cardinality(old) + 1, Len(s))

\* Faulty: an event exactly as old as the window is dropped.
pruneEventsEarly(s) == WithoutBefore(s, time - WindowMs + 1)

pruneEvents(s) == WithoutBefore(s, time - WindowMs)

-----------------------------------------------------------------------------
\* The metrics of the events of s at the places in I.
Successes(s, I) == {i \in I : s[i].success}
SlowOnes(s, I) == {i \in I : s[i].success /\ s[i].slow}

TooManyErrors(s, I) ==
  (Cardinality(I) - Cardinality(Successes(s, I))) * 100 > ErrorRateThreshold * Cardinality(I)

\* latencies[floor(0.95 n)] of the n sorted successes exceeds the threshold: as
\* many as lie from that index on are slow, for n up to 20 just the slowest.
HighLatency(s, I) ==
  LET n == Cardinality(Successes(s, I))
  IN n > 0 /\ Cardinality(SlowOnes(s, I)) >= n - (95 * n) \div 100

\* fireAlert for the triggers of fired: handlers are called, and may throw.
\* A call is remembered with whether its alert was active already.
Fires(fired) == calls' = {[trigger |-> t, again |-> t \in activeAlerts] : t \in fired}

\* evaluate: below the minimum it returns before anything is fired or cleared.
evaluate(s) ==
  LET bad == {t \in {"high-error-rate", "high-latency"} :
                IF t = "high-error-rate" THEN TooManyErrors(s, DOMAIN s)
                ELSE HighLatency(s, DOMAIN s)}
  IN IF Len(s) < MinimumEvents THEN Fires({}) /\ UNCHANGED activeAlerts
     ELSE /\ Fires(bad \ activeAlerts)
          /\ activeAlerts' = (activeAlerts \ {"high-error-rate", "high-latency"}) \cup bad

recordEvent(success, slow) ==
  LET e == [at |-> time, success |-> success, slow |-> slow]
  IN /\ Len(log) < MaxEvents
     /\ log' = Append(log, e)
     /\ events' = pruneEvents(Append(events, e))
     /\ evaluate(events')
     /\ UNCHANGED time

getMetrics ==
  /\ events' = pruneEvents(events)
  /\ Fires({})
  /\ UNCHANGED <<time, activeAlerts, log>>

\* alertCircuitOpen, alertAdapterDisconnected, alertAllDegraded.
alertNow(t) ==
  /\ Fires({t})
  /\ activeAlerts' = activeAlerts \cup {t}
  /\ UNCHANGED <<time, events, log>>

clearAlert(t) ==
  /\ activeAlerts' = activeAlerts \ {t}
  /\ Fires({})
  /\ UNCHANGED <<time, events, log>>

AlertTick ==
  /\ time < AlertMaxTime
  /\ time' = time + 1
  /\ Fires({})
  /\ UNCHANGED <<events, activeAlerts, log>>

AlertNext ==
  \/ \E success, slow \in BOOLEAN : recordEvent(success, slow)
  \/ getMetrics \/ AlertTick
  \/ \E t \in Triggers : alertNow(t) \/ clearAlert(t)

AlertSpec == AlertInit /\ [][AlertNext]_alertVars

-----------------------------------------------------------------------------
(* After every event, if the window of the last WindowMs really holds      *)
(* enough of them, the two alerts are active exactly when its errors or    *)
(* its latencies are over their threshold; else they are left as they      *)
(* were.  Nobody is told again of one that is still active (recordEvent).  *)
AlertsFollowWindow ==
  [][Len(log') > Len(log) =>
       LET window == {i \in DOMAIN log' : log'[i].at >= time - WindowMs}
           kept(t) == t \in activeAlerts' <=> t \in activeAlerts
       IN /\ IF Cardinality(window) < MinimumEvents
             THEN kept("high-error-rate") /\ kept("high-latency")
             ELSE /\ "high-error-rate" \in activeAlerts' <=> TooManyErrors(log', window)
                  /\ "high-latency" \in activeAlerts' <=> HighLatency(log', window)
          /\ \A call \in calls' : ~call.again]_alertVars
=============================================================================
