--------------------------- MODULE OutboundLimiter ---------------------------
(***************************************************************************)
(* OutboundLimiter: the queue between the gateway and one platform account *)
(* that makes outbound messages look human.  send() refuses when the       *)
(* hourly or the daily cap is reached, otherwise queues the message; one   *)
(* asynchronous worker (processQueue) takes the messages in order, sleeps  *)
(* until the random per-recipient and global delays have passed, simulates *)
(* typing, calls the platform and records the send.                        *)
(*                                                                         *)
(* Every await of the worker is a stage of the message it works on, so     *)
(* calls of send() and the passing of time interleave with it.             *)
(***************************************************************************)
EXTENDS Naturals, Sequences, FiniteSets

CONSTANTS
  Msgs,               \* one member per call of send
  Recipients,
  RecipientOf,        \* [Msgs -> Recipients]
  Typed,              \* the messages whose caller gives a typingFn (and cps > 0)
  MinRecipientDelay, MaxRecipientDelay,
  MinGlobalDelay, MaxGlobalDelay,
  MinTyping, MaxTyping,
  MaxPerHour, MaxPerDay,   \* 0 is unlimited
  Hour, Day,               \* the two windows, in ticks
  Burst,              \* most calls of send the callers leave unsettled at once
  Start,              \* Date.now() when the limiter is created
  MaxTime             \* time does not pass MaxTime unless a timer is pending

ASSUME LimitsAssumption ==
  /\ RecipientOf \in [Msgs -> Recipients]
  /\ Typed \subseteq Msgs
  /\ \A d \in {MinRecipientDelay, MaxRecipientDelay, MinGlobalDelay,
               MaxGlobalDelay, MinTyping, MaxTyping, MaxPerHour, MaxPerDay} : d \in Nat
  /\ MinRecipientDelay <= MaxRecipientDelay
  /\ MinGlobalDelay <= MaxGlobalDelay
  /\ MinTyping <= MaxTyping

ASSUME WindowAssumption ==
  /\ Hour \in Nat /\ Day \in Nat /\ Hour <= Day
  /\ Burst \in Nat \ {0}

\* The first send never waits: the code's "last send" of 0 is the epoch.
ASSUME StartAssumption ==
  /\ Start \in Nat /\ MaxTime \in Nat
  /\ Start >= MaxRecipientDelay /\ Start >= MaxGlobalDelay

ASSUME MsgsAssumption == IsFiniteSet(Msgs)

VARIABLES
  now,                  \* Date.now(), in ticks
  stage,                \* where each message is
  wake,                 \* deadline of the timer the message sleeps on, 0 for none
  queue,
  processing,
  sendLog,              \* the messages of the records kept in sendLog
  sentAt,               \* their timestamps (kept after pruning, for properties)
  lastSendByRecipient,
  lastGlobalSend

vars == <<now, stage, wake, queue, processing, sendLog, sentAt,
          lastSendByRecipient, lastGlobalSend>>

logVars == <<sendLog, sentAt, lastSendByRecipient, lastGlobalSend>>

FlightStages == {"waiting", "presence", "typing", "sending"}
Stages == {"new", "refused", "queued", "sent", "failed"} \cup FlightStages

InFlight == {m \in Msgs : stage[m] \in FlightStages}
Outstanding == {m \in Msgs : stage[m] \in FlightStages \cup {"queued"}}

\* The records younger than a window: both filters compare strictly.
SentWithin(window, log) == {m \in log : sentAt[m] + window > now}

-----------------------------------------------------------------------------
Init ==
  /\ now = Start
  /\ stage = [m \in Msgs |-> "new"]
  /\ wake = [m \in Msgs |-> 0]
  /\ queue = <<>>
  /\ processing = FALSE
  /\ sendLog = {}
  /\ sentAt = [m \in Msgs |-> 0]
  /\ lastSendByRecipient = [r \in Recipients |-> 0]
  /\ lastGlobalSend = 0

pruneLog == sendLog' = SentWithin(Day, sendLog)

\* Faulty: the limit is noticed one message late.
ReachedLate(max, window) ==
  max > 0 /\ Cardinality(SentWithin(window, sendLog)) > max

Reached(max, window) ==
  max > 0 /\ Cardinality(SentWithin(window, sendLog)) >= max

\* The admission check of send, made before the message is queued.
LimitReached == Reached(MaxPerHour, Hour) \/ Reached(MaxPerDay, Day)

\* waitForSlot: when the sleep of a message that starts now ends, if rd and
\* gd are the two random delays, byRecipient and global the last sends.
SlotTime(m, rd, gd, byRecipient, global) ==
  LET slots == {now, byRecipient[RecipientOf[m]] + rd, global + gd}
  IN  CHOOSE t \in slots : \A u \in slots : t >= u

\* Faulty: the newest message first (pop instead of shift).
RunQueueNewest(q, st, byRecipient, global) ==
  \/ /\ q = <<>>
     /\ queue' = q
     /\ stage' = st
     /\ processing' = FALSE
     /\ UNCHANGED wake
  \/ /\ q # <<>>
     /\ queue' = SubSeq(q, 1, Len(q) - 1)
     /\ stage' = [st EXCEPT ![q[Len(q)]] = "waiting"]
     /\ processing' = TRUE
     /\ \E rd \in MinRecipientDelay..MaxRecipientDelay,
           gd \in MinGlobalDelay..MaxGlobalDelay :
          wake' = [wake EXCEPT
                     ![q[Len(q)]] = SlotTime(q[Len(q)], rd, gd, byRecipient, global)]

\* One turn of the loop of processQueue, up to its first await: the head of
\* q starts to wait for its slot, or the worker stops on an empty queue.
RunQueue(q, st, byRecipient, global) ==
  \/ /\ q = <<>>
     /\ queue' = q
     /\ stage' = st
     /\ processing' = FALSE
     /\ UNCHANGED wake
  \/ /\ q # <<>>
     /\ queue' = Tail(q)
     /\ stage' = [st EXCEPT ![Head(q)] = "waiting"]
     /\ processing' = TRUE
     /\ \E rd \in MinRecipientDelay..MaxRecipientDelay,
           gd \in MinGlobalDelay..MaxGlobalDelay :
          wake' = [wake EXCEPT
                     ![Head(q)] = SlotTime(Head(q), rd, gd, byRecipient, global)]

\* A caller may call send: it leaves at most Burst calls unsettled.
MayCall(m) == stage[m] = "new" /\ Cardinality(Outstanding) < Burst

SendRefused(m) ==
  /\ MayCall(m)
  /\ LimitReached
  /\ pruneLog
  /\ stage' = [stage EXCEPT ![m] = "refused"]
  /\ UNCHANGED <<now, wake, queue, processing, sentAt, lastSendByRecipient,
                 lastGlobalSend>>

\* The worker is busy: processQueue returns at once.
SendQueued(m) ==
  /\ MayCall(m)
  /\ ~LimitReached
  /\ processing
  /\ pruneLog
  /\ stage' = [stage EXCEPT ![m] = "queued"]
  /\ queue' = Append(queue, m)
  /\ UNCHANGED <<now, wake, processing, sentAt, lastSendByRecipient, lastGlobalSend>>

\* Faulty: processQueue does not look at the processing flag.
SendStartedAgain(m) ==
  /\ MayCall(m)
  /\ ~LimitReached
  /\ pruneLog
  /\ RunQueue(Append(queue, m), [stage EXCEPT ![m] = "queued"],
              lastSendByRecipient, lastGlobalSend)
  /\ UNCHANGED <<now, sentAt, lastSendByRecipient, lastGlobalSend>>

\* The worker is idle: processQueue starts within the call of send.
SendStarted(m) ==
  /\ MayCall(m)
  /\ ~LimitReached
  /\ ~processing
  /\ pruneLog
  /\ RunQueue(Append(queue, m), [stage EXCEPT ![m] = "queued"],
              lastSendByRecipient, lastGlobalSend)
  /\ UNCHANGED <<now, sentAt, lastSendByRecipient, lastGlobalSend>>

\* The sleep of waitForSlot ends; simulateTyping calls typingFn, or returns.
SlotReached(m) ==
  /\ stage[m] = "waiting"
  /\ now >= wake[m]
  /\ stage' = [stage EXCEPT ![m] = IF m \in Typed THEN "presence" ELSE "sending"]
  /\ wake' = [wake EXCEPT ![m] = 0]
  /\ UNCHANGED <<now, queue, processing, logVars>>

\* typingFn resolves, and the typing sleep begins.
PresenceShown(m) ==
  /\ stage[m] = "presence"
  /\ stage' = [stage EXCEPT ![m] = "typing"]
  /\ \E d \in MinTyping..MaxTyping : wake' = [wake EXCEPT ![m] = now + d]
  /\ UNCHANGED <<now, queue, processing, logVars>>

\* typingFn throws: send anyway.
PresenceFailed(m) ==
  /\ stage[m] = "presence"
  /\ stage' = [stage EXCEPT ![m] = "sending"]
  /\ UNCHANGED <<now, wake, queue, processing, logVars>>

TypingDone(m) ==
  /\ stage[m] = "typing"
  /\ now >= wake[m]
  /\ stage' = [stage EXCEPT ![m] = "sending"]
  /\ wake' = [wake EXCEPT ![m] = 0]
  /\ UNCHANGED <<now, queue, processing, logVars>>

\* Faulty: only the per-recipient time is updated.
recordSendRecipientOnly(m) ==
  /\ lastSendByRecipient' = [lastSendByRecipient EXCEPT ![RecipientOf[m]] = now]
  /\ sendLog' = sendLog \cup {m}
  /\ sentAt' = [sentAt EXCEPT ![m] = now]
  /\ UNCHANGED lastGlobalSend

recordSend(m) ==
  /\ lastSendByRecipient' = [lastSendByRecipient EXCEPT ![RecipientOf[m]] = now]
  /\ lastGlobalSend' = now
  /\ sendLog' = sendLog \cup {m}
  /\ sentAt' = [sentAt EXCEPT ![m] = now]

\* sendFn resolves: the send is recorded, the promise resolved, and the loop
\* goes on with the next message.
Sent(m) ==
  /\ stage[m] = "sending"
  /\ recordSend(m)
  /\ RunQueue(queue, [stage EXCEPT ![m] = "sent"],
              lastSendByRecipient', lastGlobalSend')
  /\ UNCHANGED now

\* Faulty: a failed send is recorded too (recordSend in a finally).
FailedRecorded(m) ==
  /\ stage[m] = "sending"
  /\ recordSend(m)
  /\ RunQueue(queue, [stage EXCEPT ![m] = "failed"],
              lastSendByRecipient', lastGlobalSend')
  /\ UNCHANGED now

\* Faulty: the exception leaves the loop with the flag still set.
FailedEscapes(m) ==
  /\ stage[m] = "sending"
  /\ stage' = [stage EXCEPT ![m] = "failed"]
  /\ UNCHANGED <<now, wake, queue, processing, logVars>>

\* sendFn rejects: nothing is recorded, the promise is rejected.  Whether the
\* platform delivered all the same is not known here, and not recorded.
Failed(m) ==
  /\ stage[m] = "sending"
  /\ RunQueue(queue, [stage EXCEPT ![m] = "failed"],
              lastSendByRecipient, lastGlobalSend)
  /\ UNCHANGED <<now, logVars>>

\* getStats prunes too.
getStats ==
  /\ pruneLog
  /\ UNCHANGED <<now, stage, wake, queue, processing, sentAt,
                 lastSendByRecipient, lastGlobalSend>>

\* A pending timer lies ahead.
Sleeping == \E m \in Msgs : stage[m] \in {"waiting", "typing"} /\ now < wake[m]

Tick ==
  /\ now < MaxTime \/ Sleeping
  /\ now' = now + 1
  /\ UNCHANGED <<stage, wake, queue, processing, logVars>>

WorkerStep(m) ==
  \/ SlotReached(m)
  \/ PresenceShown(m)
  \/ PresenceFailed(m)
  \/ TypingDone(m)
  \/ Sent(m)
  \/ Failed(m)

SendCall(m) == SendRefused(m) \/ SendQueued(m) \/ SendStarted(m)

\* Everything but the passing of time.
Step == getStats \/ \E m \in Msgs : SendCall(m) \/ WorkerStep(m)

Next == Step \/ Tick

Spec == Init /\ [][Next]_vars

\* The event loop runs due timers and settled promises; the platform's calls
\* are assumed to return (the code puts no timeout on sendFn or typingFn).
Fairness == WF_vars(Tick) /\ \A m \in Msgs : WF_vars(WorkerStep(m))

FairSpec == Spec /\ Fairness

-----------------------------------------------------------------------------
TypeOK ==
  /\ now \in Nat
  /\ stage \in [Msgs -> Stages]
  /\ wake \in [Msgs -> Nat]
  /\ queue \in Seq(Msgs)
  /\ processing \in BOOLEAN
  /\ sendLog \subseteq {m \in Msgs : stage[m] = "sent"}
  /\ sentAt \in [Msgs -> Nat]
  /\ lastSendByRecipient \in [Recipients -> Nat]
  /\ lastGlobalSend \in Nat

\* At most one message of the account is between the queue and its outcome,
\* however calls of send fall between the awaits of processQueue (the
\* processing flag), and the flag tells exactly whether one is.
SingleFlight ==
  /\ \A m, n \in InFlight : m = n
  /\ processing <=> InFlight # {}

\* No message is stranded: while the worker is idle the queue is empty, also
\* after a send or a typing indicator has failed (the catch of processQueue).
NoneStranded == ~processing => queue = <<>>

\* Two recorded sends are at least the minimum delays apart, although
\* waitForSlot reads the last sends before it sleeps and never again.
Spaced(m, n) ==
  LET gap == IF RecipientOf[m] = RecipientOf[n] /\ MinRecipientDelay > MinGlobalDelay
             THEN MinRecipientDelay ELSE MinGlobalDelay
  IN  sentAt[m] + gap <= sentAt[n] \/ sentAt[n] + gap <= sentAt[m]

SpacedSends ==
  \A m, n \in Msgs :
    m # n /\ stage[m] = "sent" /\ stage[n] = "sent" => Spaced(m, n)

\* The messages sent within a window, pruned from the log or not.
RecentlySent(window) == SentWithin(window, {m \in Msgs : stage[m] = "sent"})

WithinBurst(window, max) ==
  max > 0 => Cardinality(RecentlySent(window)) <= max + Burst - 1

\* The caps count only completed sends and are checked before queueing, so
\* they can be overrun, but by no more than the calls left unsettled at once:
\* with callers that await each send (Burst = 1) the caps are exact.  What a
\* rejecting send delivered all the same counts towards none.
CapWithinBurst == WithinBurst(Hour, MaxPerHour) /\ WithinBurst(Day, MaxPerDay)

\* Every admitted message is settled: its promise resolves or rejects.
EverySendSettles ==
  \A m \in Msgs :
    m \in Outstanding ~> stage[m] \in {"sent", "failed"}

\* The limiter implements the paced first-in first-out channel.
Channel ==
  INSTANCE PacedChannel WITH
    pending <- (IF InFlight = {} THEN <<>>
                ELSE <<CHOOSE m \in Msgs : m \in InFlight>>) \o queue,
    outcome <- [m \in Msgs |-> IF m \in Outstanding THEN "accepted" ELSE stage[m]]

ImplementsChannel == Channel!Spec
=============================================================================
