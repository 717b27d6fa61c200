---------------------------- MODULE RateLimiter ----------------------------
(***************************************************************************)
(* RateLimiter: the sliding windows that guard the gateway's inbound side. *)
(* A window is the set of the messages whose timestamps the code keeps, a  *)
(* message that was let in being its own record; the code's arrays are in  *)
(* order of time, so shifting the old ones off the front is a filter.      *)
(***************************************************************************)
EXTENDS Naturals, FiniteSets

CONSTANTS
  Msgs,               \* the inbound messages
  Senders,
  SenderOf,           \* [Msgs -> Senders]
  WindowMs,           \* WINDOW_MS, in ticks
  messagesPerMinute,
  globalMessagesPerMinute

ASSUME RateAssumption ==
  /\ IsFiniteSet(Msgs)
  /\ SenderOf \in [Msgs -> Senders]
  /\ WindowMs \in Nat
  /\ messagesPerMinute \in Nat
  /\ globalMessagesPerMinute \in Nat

VARIABLES
  now,            \* Date.now(), in ticks
  globalWindow,
  senderWindows,
  passed,         \* every message ever let in (kept for properties)
  passedAt        \* when it was

limiterVars == <<globalWindow, senderWindows, passed, passedAt>>

LimiterInit ==
  /\ globalWindow = {}
  /\ senderWindows = [s \in Senders |-> {}]
  /\ passed = {}
  /\ passedAt = [m \in Msgs |-> 0]

\* Faulty: a record leaves the window one tick early.
pruneWindowEarly(window) == {m \in window : passedAt[m] + WindowMs > now}

\* A record exactly one window old still counts: the code drops those < cutoff.
pruneWindow(window) == {m \in window : passedAt[m] + WindowMs >= now}

GlobalFull == Cardinality(pruneWindow(globalWindow)) >= globalMessagesPerMinute

SenderFull(s) == Cardinality(pruneWindow(senderWindows[s])) >= messagesPerMinute

\* Refused on the global limit: the sender's window is not looked at.
RefusedGlobally(m) ==
  /\ GlobalFull
  /\ globalWindow' = pruneWindow(globalWindow)
  /\ UNCHANGED <<senderWindows, passed, passedAt>>

RefusedForSender(m) ==
  /\ ~GlobalFull
  /\ SenderFull(SenderOf[m])
  /\ globalWindow' = pruneWindow(globalWindow)
  /\ senderWindows' = [senderWindows EXCEPT ![SenderOf[m]] = pruneWindow(@)]
  /\ UNCHANGED <<passed, passedAt>>

checkRefused(m) == RefusedGlobally(m) \/ RefusedForSender(m)

checkAllowed(m) ==
  /\ ~GlobalFull
  /\ ~SenderFull(SenderOf[m])
  /\ globalWindow' = pruneWindow(globalWindow) \cup {m}
  /\ senderWindows' = [senderWindows EXCEPT ![SenderOf[m]] = pruneWindow(@) \cup {m}]
  /\ passed' = passed \cup {m}
  /\ passedAt' = [passedAt EXCEPT ![m] = now]

-----------------------------------------------------------------------------
LimiterTypeOK ==
  /\ globalWindow \subseteq passed
  /\ senderWindows \in [Senders -> SUBSET passed]
  /\ passed \subseteq Msgs
  /\ passedAt \in [Msgs -> Nat]

\* What was let in during the window that ends when `last' was.
LetInUntil(last) ==
  {m \in passed : passedAt[m] <= passedAt[last] /\ passedAt[m] + WindowMs >= passedAt[last]}

\* In no window of any position, and not only in the windows between two
\* prunes or two resets of a counter, more messages get in than the limits:
\* the reason the code gives for a sliding and not a fixed window.
SlidingWindows ==
  \A last \in passed :
    /\ Cardinality(LetInUntil(last)) <= globalMessagesPerMinute
    /\ \A s \in Senders :
         Cardinality({m \in LetInUntil(last) : SenderOf[m] = s}) <= messagesPerMinute
=============================================================================
