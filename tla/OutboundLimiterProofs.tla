------------------------ MODULE OutboundLimiterProofs ------------------------
(***************************************************************************)
(* What TLC checks of OutboundLimiter on four messages, proved for every   *)
(* value of the constants the assumptions allow.                           *)
(***************************************************************************)
EXTENDS OutboundLimiter, SequenceTheorems, FiniteSetTheorems, TLAPS

-----------------------------------------------------------------------------
(* The helpers of the worker.                                              *)

\* The end of the sleep is a time, not before now nor before either delay.
LEMMA SlotTimeBounds ==
  ASSUME NEW m \in Msgs, NEW rd \in Nat, NEW gd \in Nat, now \in Nat,
         NEW byRecipient \in [Recipients -> Nat], NEW global \in Nat
  PROVE  /\ SlotTime(m, rd, gd, byRecipient, global) \in Nat
         /\ SlotTime(m, rd, gd, byRecipient, global) >= now
         /\ SlotTime(m, rd, gd, byRecipient, global) >= byRecipient[RecipientOf[m]] + rd
         /\ SlotTime(m, rd, gd, byRecipient, global) >= global + gd
<1> DEFINE a == byRecipient[RecipientOf[m]] + rd
           b == global + gd
           slots == {now, a, b}
<1>1. a \in Nat /\ b \in Nat
  BY LimitsAssumption
<1> HIDE DEF a, b
<1>2. \E t \in slots : \A u \in slots : t >= u
  BY <1>1
<1>3. /\ (CHOOSE t \in slots : \A u \in slots : t >= u) \in slots
      /\ \A u \in slots : (CHOOSE t \in slots : \A v \in slots : t >= v) >= u
  BY <1>2
<1>4. SlotTime(m, rd, gd, byRecipient, global)
        = CHOOSE t \in slots : \A u \in slots : t >= u
  BY DEF SlotTime, a, b
<1> QED
  BY <1>1, <1>3, <1>4 DEF a, b

\* What one turn of processQueue's loop does: either the queue was empty and
\* the worker stops, or the head, and nothing else, starts to wait for a slot
\* that lies after the last sends plus the minimum delays.
LEMMA RunQueueTurn ==
  ASSUME NEW q \in Seq(Msgs), NEW st \in [Msgs -> Stages],
         NEW byRecipient \in [Recipients -> Nat], NEW global \in Nat,
         now \in Nat, wake \in [Msgs -> Nat],
         RunQueue(q, st, byRecipient, global)
  PROVE  \/ /\ q = <<>> /\ queue' = q /\ stage' = st
            /\ processing' = FALSE /\ wake' = wake
         \/ /\ q # <<>> /\ queue' = Tail(q) /\ processing' = TRUE
            /\ Head(q) \in Msgs
            /\ stage' = [st EXCEPT ![Head(q)] = "waiting"]
            /\ wake' \in [Msgs -> Nat]
            /\ \A n \in Msgs \ {Head(q)} : wake'[n] = wake[n]
            /\ wake'[Head(q)] >= byRecipient[RecipientOf[Head(q)]] + MinRecipientDelay
            /\ wake'[Head(q)] >= global + MinGlobalDelay
<1>1. CASE q = <<>>
  BY <1>1 DEF RunQueue
<1>2. CASE q # <<>>
  <2>1. Head(q) \in Msgs
    BY <1>2
  <2>2. PICK rd \in MinRecipientDelay..MaxRecipientDelay,
             gd \in MinGlobalDelay..MaxGlobalDelay :
          wake' = [wake EXCEPT
                     ![Head(q)] = SlotTime(Head(q), rd, gd, byRecipient, global)]
    BY <1>2 DEF RunQueue
  <2>3. /\ rd \in Nat /\ rd >= MinRecipientDelay
        /\ gd \in Nat /\ gd >= MinGlobalDelay
        /\ MinRecipientDelay \in Nat /\ MinGlobalDelay \in Nat
    BY LimitsAssumption
  <2>4. /\ SlotTime(Head(q), rd, gd, byRecipient, global) \in Nat
        /\ SlotTime(Head(q), rd, gd, byRecipient, global)
             >= byRecipient[RecipientOf[Head(q)]] + rd
        /\ SlotTime(Head(q), rd, gd, byRecipient, global) >= global + gd
    BY <2>1, <2>3, SlotTimeBounds
  <2>5. byRecipient[RecipientOf[Head(q)]] \in Nat
    BY <2>1, LimitsAssumption
  <2> HIDE DEF SlotTime
  <2>6. /\ wake' \in [Msgs -> Nat]
        /\ \A n \in Msgs \ {Head(q)} : wake'[n] = wake[n]
        /\ wake'[Head(q)] = SlotTime(Head(q), rd, gd, byRecipient, global)
    BY <2>1, <2>2, <2>4
  <2>7. /\ wake'[Head(q)] >= byRecipient[RecipientOf[Head(q)]] + MinRecipientDelay
        /\ wake'[Head(q)] >= global + MinGlobalDelay
    BY <2>3, <2>4, <2>5, <2>6
  <2>8. /\ queue' = Tail(q)
        /\ stage' = [st EXCEPT ![Head(q)] = "waiting"]
        /\ processing' = TRUE
    BY <1>2 DEF RunQueue
  <2> QED
    BY <1>2, <2>1, <2>6, <2>7, <2>8
<1> QED
  BY <1>1, <1>2

-----------------------------------------------------------------------------
(* The queue holds exactly the messages whose stage is "queued", at most   *)
(* once each: what makes TypeOK and the caps inductive.                    *)

QueueOK(q, st) ==
  /\ \A i \in 1..Len(q) : st[q[i]] = "queued"
  /\ \A i, j \in 1..Len(q) : q[i] = q[j] => i = j

QueueInv == QueueOK(queue, stage)

TypeInv == TypeOK /\ QueueInv

\* A turn of the loop keeps the queue well formed and touches no message that
\* is not queued.
LEMMA RunQueueKeeps ==
  ASSUME NEW q \in Seq(Msgs), NEW st \in [Msgs -> Stages],
         NEW byRecipient \in [Recipients -> Nat], NEW global \in Nat,
         now \in Nat, wake \in [Msgs -> Nat], QueueOK(q, st),
         RunQueue(q, st, byRecipient, global)
  PROVE  /\ queue' \in Seq(Msgs)
         /\ stage' \in [Msgs -> Stages]
         /\ processing' \in BOOLEAN
         /\ wake' \in [Msgs -> Nat]
         /\ QueueOK(queue', stage')
         /\ \A n \in Msgs : st[n] # "queued" => stage'[n] = st[n]
         /\ \A n \in Msgs : st[n] = "queued" => stage'[n] \in {"queued", "waiting"}
<1>1. CASE q = <<>>
  <2>1. queue' = q /\ stage' = st /\ processing' = FALSE /\ wake' = wake
    BY <1>1, RunQueueTurn
  <2> QED
    BY <2>1
<1>2. CASE q # <<>>
  <2>1. /\ queue' = Tail(q) /\ processing' = TRUE /\ Head(q) \in Msgs
        /\ stage' = [st EXCEPT ![Head(q)] = "waiting"]
        /\ wake' \in [Msgs -> Nat]
    BY <1>2, RunQueueTurn
  <2>2. /\ Tail(q) \in Seq(Msgs) /\ Len(Tail(q)) = Len(q) - 1
        /\ \A i \in 1..Len(Tail(q)) : Tail(q)[i] = q[i + 1]
        /\ Len(q) \in Nat /\ Len(q) > 0 /\ Head(q) = q[1]
    BY <1>2
  <2>3. stage' \in [Msgs -> Stages]
    BY <2>1 DEF Stages, FlightStages
  <2>4. \A i \in 1..Len(Tail(q)) :
          /\ i + 1 \in 1..Len(q) /\ i + 1 # 1 /\ 1 \in 1..Len(q)
          /\ Tail(q)[i] # Head(q)
          /\ q[i + 1] \in Msgs
    BY <2>2 DEF QueueOK
  <2>5. \A i \in 1..Len(Tail(q)) : stage'[Tail(q)[i]] = "queued"
    BY <2>1, <2>2, <2>4 DEF QueueOK
  <2>6. \A i, j \in 1..Len(Tail(q)) : Tail(q)[i] = Tail(q)[j] => i = j
    <3> SUFFICES ASSUME NEW i \in 1..Len(Tail(q)), NEW j \in 1..Len(Tail(q)),
                        Tail(q)[i] = Tail(q)[j]
                 PROVE  i = j
      OBVIOUS
    <3>1. q[i + 1] = q[j + 1] /\ i + 1 \in 1..Len(q) /\ j + 1 \in 1..Len(q)
      BY <2>2, <2>4
    <3>2. i + 1 = j + 1
      BY <3>1 DEF QueueOK
    <3> QED
      BY <3>2, <2>2
  <2>7. st[Head(q)] = "queued"
    BY <2>2 DEF QueueOK
  <2>8. \A n \in Msgs : n # Head(q) => stage'[n] = st[n]
    BY <2>1
  <2>9. stage'[Head(q)] = "waiting"
    BY <2>1
  <2>10. QueueOK(queue', stage')
    BY <2>1, <2>5, <2>6 DEF QueueOK
  <2>11. \A n \in Msgs : st[n] = "queued" => stage'[n] \in {"queued", "waiting"}
    BY <2>8, <2>9
  <2>12. \A n \in Msgs : st[n] # "queued" => stage'[n] = st[n]
    BY <2>7, <2>8
  <2> QED
    BY <2>1, <2>2, <2>3, <2>10, <2>11, <2>12
<1> QED
  BY <1>1, <1>2

\* Queueing a new message keeps the queue well formed.
LEMMA AppendKeeps ==
  ASSUME TypeInv, NEW m \in Msgs, stage[m] = "new"
  PROVE  /\ Append(queue, m) \in Seq(Msgs)
         /\ [stage EXCEPT ![m] = "queued"] \in [Msgs -> Stages]
         /\ QueueOK(Append(queue, m), [stage EXCEPT ![m] = "queued"])
<1> DEFINE q == Append(queue, m)
           st == [stage EXCEPT ![m] = "queued"]
<1>1. /\ q \in Seq(Msgs) /\ Len(q) = Len(queue) + 1 /\ Len(queue) \in Nat
      /\ \A i \in 1..Len(queue) : q[i] = queue[i] /\ queue[i] \in Msgs
      /\ q[Len(queue) + 1] = m
  BY DEF TypeInv, TypeOK
<1>2. st \in [Msgs -> Stages] /\ st[m] = "queued"
  BY DEF TypeInv, TypeOK, Stages, FlightStages
<1>3. \A i \in 1..Len(queue) : queue[i] # m /\ stage[queue[i]] = "queued"
  BY DEF TypeInv, QueueInv, QueueOK
<1>4. \A i \in 1..Len(q) : i \in 1..Len(queue) \/ i = Len(queue) + 1
  BY <1>1
<1>5. \A i \in 1..Len(q) : st[q[i]] = "queued"
  BY <1>1, <1>2, <1>3, <1>4 DEF TypeInv, TypeOK
<1>6. \A i, j \in 1..Len(q) : q[i] = q[j] => i = j
  <2> SUFFICES ASSUME NEW i \in 1..Len(q), NEW j \in 1..Len(q), q[i] = q[j]
               PROVE  i = j
    OBVIOUS
  <2>1. CASE i \in 1..Len(queue) /\ j \in 1..Len(queue)
    BY <2>1, <1>1 DEF TypeInv, QueueInv, QueueOK
  <2>2. CASE i = Len(queue) + 1 \/ j = Len(queue) + 1
    BY <2>2, <1>1, <1>3, <1>4
  <2> QED
    BY <2>1, <2>2, <1>4
<1> QED
  BY <1>1, <1>2, <1>5, <1>6 DEF QueueOK

-----------------------------------------------------------------------------
(* Type correctness.                                                       *)

\* The records pruneLog keeps are records of the log.
LEMMA PruneShrinks ==
  ASSUME pruneLog
  PROVE  sendLog' \subseteq sendLog
BY DEF pruneLog, SentWithin

LEMMA TypeInvInit == Init => TypeInv
<1> SUFFICES ASSUME Init PROVE TypeInv
  OBVIOUS
<1>1. TypeOK
  <2>1. stage \in [Msgs -> Stages]
    BY DEF Init, Stages
  <2>2. <<>> \in Seq(Msgs)
    OBVIOUS
  <2> QED
    BY <2>1, <2>2, StartAssumption DEF Init, TypeOK
<1>2. QueueInv
  BY DEF Init, QueueInv, QueueOK
<1> QED
  BY <1>1, <1>2 DEF TypeInv

LEMMA TypeInvNext == TypeInv /\ [Next]_vars => TypeInv'
<1> SUFFICES ASSUME TypeInv, [Next]_vars PROVE TypeInv'
  OBVIOUS
<1> USE DEF TypeInv
<1>1. ASSUME NEW m \in Msgs, SendRefused(m) PROVE TypeInv'
  <2>1. sendLog' \subseteq sendLog
    BY <1>1, PruneShrinks DEF SendRefused
  <2>2. stage[m] = "new" /\ stage' = [stage EXCEPT ![m] = "refused"]
    BY <1>1 DEF SendRefused, MayCall
  <2>3. TypeOK'
    BY <1>1, <2>1, <2>2 DEF SendRefused, TypeOK, Stages, FlightStages
  <2>4. QueueInv'
    BY <1>1, <2>2 DEF SendRefused, TypeOK, QueueInv, QueueOK
  <2> QED
    BY <2>3, <2>4
<1>2. ASSUME NEW m \in Msgs, SendQueued(m) PROVE TypeInv'
  <2>1. sendLog' \subseteq sendLog
    BY <1>2, PruneShrinks DEF SendQueued
  <2>2. stage[m] = "new" /\ stage' = [stage EXCEPT ![m] = "queued"]
        /\ queue' = Append(queue, m)
    BY <1>2 DEF SendQueued, MayCall
  <2>3. queue' \in Seq(Msgs) /\ stage' \in [Msgs -> Stages] /\ QueueOK(queue', stage')
    BY <2>2, AppendKeeps
  <2>4. TypeOK'
    BY <1>2, <2>1, <2>2, <2>3 DEF SendQueued, TypeOK
  <2> QED
    BY <2>3, <2>4 DEF QueueInv
<1>3. ASSUME NEW m \in Msgs, SendStarted(m) PROVE TypeInv'
  <2> DEFINE q == Append(queue, m)
             st == [stage EXCEPT ![m] = "queued"]
  <2>1. sendLog' \subseteq sendLog /\ stage[m] = "new"
    BY <1>3, PruneShrinks DEF SendStarted, MayCall
  <2>2. q \in Seq(Msgs) /\ st \in [Msgs -> Stages] /\ QueueOK(q, st)
    BY <2>1, AppendKeeps
  <2>3. RunQueue(q, st, lastSendByRecipient, lastGlobalSend)
    BY <1>3 DEF SendStarted
  <2>4. /\ lastSendByRecipient \in [Recipients -> Nat] /\ lastGlobalSend \in Nat
        /\ now \in Nat /\ wake \in [Msgs -> Nat]
    BY DEF TypeOK
  <2>5. \A n \in Msgs : stage[n] = "sent" => st[n] = "sent"
    BY <2>1 DEF TypeOK
  <2> HIDE DEF q, st
  <2>6. /\ queue' \in Seq(Msgs) /\ stage' \in [Msgs -> Stages]
        /\ processing' \in BOOLEAN /\ wake' \in [Msgs -> Nat]
        /\ QueueOK(queue', stage')
        /\ \A n \in Msgs : st[n] # "queued" => stage'[n] = st[n]
    BY <2>2, <2>3, <2>4, RunQueueKeeps
  <2>7. \A n \in sendLog' : n \in Msgs /\ stage'[n] = "sent"
    BY <2>1, <2>5, <2>6 DEF TypeOK
  <2> QED
    BY <1>3, <2>6, <2>7 DEF SendStarted, TypeOK, QueueInv
<1>4. ASSUME NEW m \in Msgs, SlotReached(m) PROVE TypeInv'
  BY <1>4 DEF SlotReached, logVars, TypeOK, Stages, FlightStages, QueueInv, QueueOK
<1>5. ASSUME NEW m \in Msgs, PresenceShown(m) PROVE TypeInv'
  <2>1. PICK d \in MinTyping..MaxTyping : wake' = [wake EXCEPT ![m] = now + d]
    BY <1>5 DEF PresenceShown
  <2>2. now + d \in Nat
    BY LimitsAssumption DEF TypeOK
  <2>3. wake' \in [Msgs -> Nat]
    BY <2>1, <2>2 DEF TypeOK
  <2> QED
    BY <1>5, <2>3 DEF PresenceShown, logVars, TypeOK, Stages, FlightStages, QueueInv, QueueOK
<1>6. ASSUME NEW m \in Msgs, PresenceFailed(m) PROVE TypeInv'
  BY <1>6 DEF PresenceFailed, logVars, TypeOK, Stages, FlightStages, QueueInv, QueueOK
<1>7. ASSUME NEW m \in Msgs, TypingDone(m) PROVE TypeInv'
  BY <1>7 DEF TypingDone, logVars, TypeOK, Stages, FlightStages, QueueInv, QueueOK
<1>8. ASSUME NEW m \in Msgs, Sent(m) PROVE TypeInv'
  <2> DEFINE st == [stage EXCEPT ![m] = "sent"]
  <2>1. /\ lastSendByRecipient' \in [Recipients -> Nat] /\ lastGlobalSend' \in Nat
        /\ sentAt' \in [Msgs -> Nat] /\ sendLog' = sendLog \cup {m}
        /\ now' = now /\ now \in Nat /\ wake \in [Msgs -> Nat] /\ queue \in Seq(Msgs)
    BY <1>8 DEF Sent, recordSend, TypeOK
  <2>2. st \in [Msgs -> Stages] /\ QueueOK(queue, st) /\ st[m] = "sent"
        /\ \A n \in sendLog : n \in Msgs /\ st[n] = "sent"
    BY <1>8 DEF Sent, TypeOK, Stages, QueueInv, QueueOK
  <2>3. RunQueue(queue, st, lastSendByRecipient', lastGlobalSend')
    BY <1>8 DEF Sent
  <2> HIDE DEF st
  <2>4. /\ queue' \in Seq(Msgs) /\ stage' \in [Msgs -> Stages]
        /\ processing' \in BOOLEAN /\ wake' \in [Msgs -> Nat]
        /\ QueueOK(queue', stage')
        /\ \A n \in Msgs : st[n] # "queued" => stage'[n] = st[n]
    BY <2>1, <2>2, <2>3, RunQueueKeeps
  <2>5. \A n \in sendLog' : n \in Msgs /\ stage'[n] = "sent"
    BY <2>1, <2>2, <2>4
  <2> QED
    BY <2>1, <2>4, <2>5 DEF TypeOK, QueueInv
<1>9. ASSUME NEW m \in Msgs, Failed(m) PROVE TypeInv'
  <2> DEFINE st == [stage EXCEPT ![m] = "failed"]
  <2>1. /\ lastSendByRecipient \in [Recipients -> Nat] /\ lastGlobalSend \in Nat
        /\ now' = now /\ now \in Nat /\ wake \in [Msgs -> Nat] /\ queue \in Seq(Msgs)
        /\ UNCHANGED logVars
    BY <1>9 DEF Failed, TypeOK
  <2>2. st \in [Msgs -> Stages] /\ QueueOK(queue, st)
        /\ \A n \in sendLog : n \in Msgs /\ st[n] = "sent"
    BY <1>9 DEF Failed, TypeOK, Stages, QueueInv, QueueOK
  <2>3. RunQueue(queue, st, lastSendByRecipient, lastGlobalSend)
    BY <1>9 DEF Failed
  <2> HIDE DEF st
  <2>4. /\ queue' \in Seq(Msgs) /\ stage' \in [Msgs -> Stages]
        /\ processing' \in BOOLEAN /\ wake' \in [Msgs -> Nat]
        /\ QueueOK(queue', stage')
        /\ \A n \in Msgs : st[n] # "queued" => stage'[n] = st[n]
    BY <2>1, <2>2, <2>3, RunQueueKeeps
  <2>5. \A n \in sendLog' : n \in Msgs /\ stage'[n] = "sent"
    BY <2>1, <2>2, <2>4 DEF logVars
  <2> QED
    BY <2>1, <2>4, <2>5 DEF TypeOK, QueueInv, logVars
<1>10. CASE getStats
  BY <1>10, PruneShrinks DEF getStats, TypeOK, QueueInv, QueueOK
<1>11. CASE Tick
  BY <1>11 DEF Tick, logVars, TypeOK, QueueInv, QueueOK
<1>12. CASE UNCHANGED vars
  BY <1>12 DEF vars, TypeOK, QueueInv, QueueOK
<1> QED
  BY <1>1, <1>2, <1>3, <1>4, <1>5, <1>6, <1>7, <1>8, <1>9, <1>10, <1>11, <1>12
     DEF Next, Step, SendCall, WorkerStep

\* The state of the limiter keeps its type, the queue keeps exactly the queued
\* messages, and the log only records of messages that were sent.
THEOREM QueueCorrect == Spec => []TypeInv
<1>1. Init => TypeInv
  BY TypeInvInit
<1>2. TypeInv /\ [Next]_vars => TypeInv'
  BY TypeInvNext
<1> QED
  BY <1>1, <1>2, PTL DEF Spec

\* In particular TypeOK, which is not inductive by itself: without the queue's
\* correspondence a message could be started that is not queued.
THEOREM TypeCorrect == Spec => []TypeOK
<1>1. TypeInv => TypeOK
  BY DEF TypeInv
<1> QED
  BY <1>1, QueueCorrect, PTL

-----------------------------------------------------------------------------
(* One message in flight.                                                  *)

FlightInv == SingleFlight /\ NoneStranded

\* Which messages are in flight after a turn of the loop that starts with none:
\* the old head of the queue if there was one, and the flag says so.
LEMMA RunQueueFlight ==
  ASSUME NEW q \in Seq(Msgs), NEW st \in [Msgs -> Stages],
         NEW byRecipient \in [Recipients -> Nat], NEW global \in Nat,
         now \in Nat, wake \in [Msgs -> Nat],
         \A n \in Msgs : st[n] \notin FlightStages,
         RunQueue(q, st, byRecipient, global)
  PROVE  FlightInv'
<1>1. CASE q = <<>>
  <2>1. queue' = q /\ stage' = st /\ processing' = FALSE
    BY <1>1, RunQueueTurn
  <2>2. InFlight' = {}
    BY <2>1 DEF InFlight
  <2> QED
    BY <1>1, <2>1, <2>2 DEF FlightInv, SingleFlight, NoneStranded
<1>2. CASE q # <<>>
  <2>1. processing' = TRUE /\ Head(q) \in Msgs /\ stage' = [st EXCEPT ![Head(q)] = "waiting"]
    BY <1>2, RunQueueTurn
  <2>2. InFlight' = {Head(q)}
    BY <2>1 DEF InFlight, FlightStages
  <2> QED
    BY <2>1, <2>2 DEF FlightInv, SingleFlight, NoneStranded
<1> QED
  BY <1>1, <1>2

LEMMA FlightInvNext == TypeInv /\ FlightInv /\ [Next]_vars => FlightInv'
<1> SUFFICES ASSUME TypeInv, FlightInv, [Next]_vars PROVE FlightInv'
  OBVIOUS
<1> USE DEF TypeInv
<1>0. /\ stage \in [Msgs -> Stages] /\ queue \in Seq(Msgs) /\ now \in Nat
      /\ wake \in [Msgs -> Nat] /\ lastSendByRecipient \in [Recipients -> Nat]
      /\ lastGlobalSend \in Nat
  BY DEF TypeOK
\* A step that moves m between stages outside the flight, or within it.
<1>1. ASSUME NEW m \in Msgs, NEW s \in Stages, stage' = [stage EXCEPT ![m] = s],
             stage[m] \in FlightStages <=> s \in FlightStages,
             processing' = processing, queue' = queue \/ processing
      PROVE  FlightInv'
  <2>1. InFlight' = InFlight
    BY <1>0, <1>1 DEF InFlight
  <2> QED
    BY <1>1, <2>1 DEF FlightInv, SingleFlight, NoneStranded
<1>2. ASSUME NEW m \in Msgs, SendCall(m) PROVE FlightInv'
  <2>1. CASE SendRefused(m)
    BY <1>1, <2>1 DEF SendRefused, MayCall, Stages, FlightStages
  <2>2. CASE SendQueued(m)
    BY <1>1, <2>2 DEF SendQueued, MayCall, Stages, FlightStages
  <2>3. CASE SendStarted(m)
    <3> DEFINE q == Append(queue, m)
               st == [stage EXCEPT ![m] = "queued"]
    <3>1. q \in Seq(Msgs) /\ st \in [Msgs -> Stages]
      BY <2>3, AppendKeeps DEF SendStarted, MayCall
    <3>2. InFlight = {}
      BY <2>3 DEF SendStarted, FlightInv, SingleFlight
    <3>3. \A n \in Msgs : st[n] \notin FlightStages
      BY <1>0, <3>2 DEF InFlight, FlightStages
    <3>4. RunQueue(q, st, lastSendByRecipient, lastGlobalSend)
      BY <2>3 DEF SendStarted
    <3> HIDE DEF q, st
    <3> QED
      BY <1>0, <3>1, <3>3, <3>4, RunQueueFlight
  <2> QED
    BY <1>2, <2>1, <2>2, <2>3 DEF SendCall
<1>3. ASSUME NEW m \in Msgs, WorkerStep(m) PROVE FlightInv'
  <2>1. CASE SlotReached(m)
    BY <1>1, <2>1 DEF SlotReached, Stages, FlightStages
  <2>2. CASE PresenceShown(m)
    BY <1>1, <2>2 DEF PresenceShown, Stages, FlightStages
  <2>3. CASE PresenceFailed(m)
    BY <1>1, <2>3 DEF PresenceFailed, Stages, FlightStages
  <2>4. CASE TypingDone(m)
    BY <1>1, <2>4 DEF TypingDone, Stages, FlightStages
  \* The one message in flight leaves it, and the next may enter.
  <2>5. ASSUME NEW s \in {"sent", "failed"}, stage[m] = "sending",
               NEW byRecipient \in [Recipients -> Nat], NEW global \in Nat,
               RunQueue(queue, [stage EXCEPT ![m] = s], byRecipient, global)
        PROVE  FlightInv'
    <3> DEFINE st == [stage EXCEPT ![m] = s]
    <3>1. st \in [Msgs -> Stages]
      BY <1>0 DEF Stages
    <3>2. \A n \in Msgs : n # m => stage[n] \notin FlightStages
      BY <2>5 DEF FlightInv, SingleFlight, InFlight, FlightStages
    <3>3. \A n \in Msgs : st[n] \notin FlightStages
      BY <1>0, <3>2 DEF FlightStages
    <3> HIDE DEF st
    <3> QED
      BY <1>0, <2>5, <3>1, <3>3, RunQueueFlight DEF st
  <2>6. CASE Sent(m)
    <3>1. lastSendByRecipient' \in [Recipients -> Nat] /\ lastGlobalSend' \in Nat
      BY <1>0, <2>6 DEF Sent, recordSend
    <3> QED
      BY <2>5, <2>6, <3>1 DEF Sent
  <2>7. CASE Failed(m)
    BY <1>0, <2>5, <2>7 DEF Failed
  <2> QED
    BY <1>3, <2>1, <2>2, <2>3, <2>4, <2>6, <2>7 DEF WorkerStep
<1>4. CASE getStats \/ Tick \/ UNCHANGED vars
  BY <1>4 DEF getStats, Tick, vars, FlightInv, SingleFlight, NoneStranded, InFlight
<1> QED
  BY <1>2, <1>3, <1>4 DEF Next, Step

\* However calls of send fall between the awaits of the worker, one message at
\* most is in flight, the processing flag says whether, and no message stays
\* in the queue of an idle worker.
THEOREM OneInFlight == Spec => [](SingleFlight /\ NoneStranded)
<1>1. Init => FlightInv
  BY DEF Init, FlightInv, SingleFlight, NoneStranded, InFlight, FlightStages
<1>2. TypeInv /\ FlightInv /\ [Next]_vars => FlightInv'
  BY FlightInvNext
<1>3. FlightInv => SingleFlight /\ NoneStranded
  BY DEF FlightInv
<1> QED
  BY <1>1, <1>2, <1>3, QueueCorrect, PTL DEF Spec

-----------------------------------------------------------------------------
(* The spacing of the sends.  waitForSlot reads the last sends once, before *)
(* it sleeps; it may, because nothing else records a send meanwhile.        *)

\* The last sends are the latest of the recorded ones, and not in the future.
LastInv ==
  /\ lastGlobalSend <= now
  /\ \A r \in Recipients : lastSendByRecipient[r] <= now
  /\ \A m \in Msgs : stage[m] = "sent" =>
       /\ sentAt[m] <= lastGlobalSend
       /\ sentAt[m] <= lastSendByRecipient[RecipientOf[m]]

\* At time t the minimum delays since the last sends have passed for m.
Clear(m, t) ==
  /\ t >= lastGlobalSend + MinGlobalDelay
  /\ t >= lastSendByRecipient[RecipientOf[m]] + MinRecipientDelay

\* A message in flight sleeps until its slot is clear, or has it.
SlotInv ==
  \A m \in Msgs :
    /\ stage[m] = "waiting" => Clear(m, wake[m])
    /\ stage[m] \in {"presence", "typing", "sending"} => Clear(m, now)

SpacingInv == LastInv /\ SlotInv /\ SpacedSends

\* Steps that record nothing, put no message in flight and send none.
LEMMA SpacingKept ==
  ASSUME TypeInv, SpacingInv,
         now' \in Nat, now' >= now,
         UNCHANGED <<sentAt, lastSendByRecipient, lastGlobalSend>>,
         \A n \in Msgs : stage'[n] = "sent" => stage[n] = "sent",
         \A n \in Msgs : stage'[n] = "waiting" => stage[n] = "waiting" /\ wake'[n] = wake[n],
         \A n \in Msgs : stage'[n] \in {"presence", "typing", "sending"} =>
            \/ stage[n] \in {"presence", "typing", "sending"}
            \/ stage[n] = "waiting" /\ now >= wake[n]
  PROVE  SpacingInv'
<1> USE DEF TypeInv, SpacingInv
<1>0. /\ now \in Nat /\ wake \in [Msgs -> Nat] /\ sentAt \in [Msgs -> Nat]
      /\ lastSendByRecipient \in [Recipients -> Nat] /\ lastGlobalSend \in Nat
      /\ \A m \in Msgs : RecipientOf[m] \in Recipients
      /\ MinGlobalDelay \in Nat /\ MinRecipientDelay \in Nat
  BY LimitsAssumption DEF TypeOK
<1>1. LastInv'
  BY <1>0 DEF LastInv
<1>2. SlotInv'
  <2> SUFFICES ASSUME NEW m \in Msgs
               PROVE  /\ stage'[m] = "waiting" => Clear(m, wake[m])' 
                      /\ stage'[m] \in {"presence", "typing", "sending"} => Clear(m, now)'
    BY DEF SlotInv
  <2>1. RecipientOf[m] \in Recipients /\ lastSendByRecipient[RecipientOf[m]] \in Nat
        /\ wake[m] \in Nat
    BY <1>0
  <2>2. CASE stage'[m] = "waiting"
    BY <2>2 DEF SlotInv, Clear
  <2>3. CASE stage'[m] \in {"presence", "typing", "sending"}
    <3>1. Clear(m, now)
      BY <1>0, <2>1, <2>3 DEF SlotInv, Clear
    <3> QED
      BY <1>0, <2>1, <2>3, <3>1 DEF Clear
  <2> QED
    BY <2>2, <2>3
<1>3. SpacedSends'
  BY DEF SpacedSends, Spaced
<1> QED
  BY <1>1, <1>2, <1>3

\* A turn of the loop that starts with no message in flight and knows the last
\* sends keeps the spacing.
LEMMA RunQueueSpacing ==
  ASSUME TypeInv, TypeInv', now' = now,
         NEW q \in Seq(Msgs), NEW st \in [Msgs -> Stages],
         \A n \in Msgs : st[n] \notin FlightStages,
         RunQueue(q, st, lastSendByRecipient', lastGlobalSend'),
         lastGlobalSend' <= now,
         \A r \in Recipients : lastSendByRecipient'[r] <= now,
         \A m \in Msgs : st[m] = "sent" =>
           /\ sentAt'[m] <= lastGlobalSend'
           /\ sentAt'[m] <= lastSendByRecipient'[RecipientOf[m]],
         \A m, n \in Msgs :
           m # n /\ st[m] = "sent" /\ st[n] = "sent" => Spaced(m, n)'
  PROVE  SpacingInv'
<1> USE DEF TypeInv
<1>0. /\ now \in Nat /\ wake \in [Msgs -> Nat]
      /\ lastSendByRecipient' \in [Recipients -> Nat] /\ lastGlobalSend' \in Nat
  BY DEF TypeOK
<1>1. \/ stage' = st
      \/ /\ q # <<>> /\ Head(q) \in Msgs
         /\ stage' = [st EXCEPT ![Head(q)] = "waiting"]
         /\ wake'[Head(q)] >= lastSendByRecipient'[RecipientOf[Head(q)]] + MinRecipientDelay
         /\ wake'[Head(q)] >= lastGlobalSend' + MinGlobalDelay
  BY <1>0, RunQueueTurn
<1>2. \A n \in Msgs : /\ stage'[n] = "sent" => st[n] = "sent"
                      /\ stage'[n] \in FlightStages =>
                           /\ q # <<>> /\ n = Head(q) /\ stage'[n] = "waiting"
                           /\ stage' # st
  BY <1>1
<1>3. LastInv'
  BY <1>2 DEF LastInv
<1>4. SlotInv'
  <2> SUFFICES ASSUME NEW m \in Msgs
               PROVE  /\ stage'[m] = "waiting" => Clear(m, wake[m])'
                      /\ stage'[m] \in {"presence", "typing", "sending"} => Clear(m, now)'
    BY DEF SlotInv
  <2>1. stage'[m] = "waiting" => Clear(m, wake[m])'
    BY <1>1, <1>2 DEF Clear, FlightStages
  <2>2. stage'[m] \notin {"presence", "typing", "sending"}
    BY <1>2 DEF FlightStages
  <2> QED
    BY <2>1, <2>2
<1>5. SpacedSends'
  BY <1>2 DEF SpacedSends
<1> QED
  BY <1>3, <1>4, <1>5 DEF SpacingInv

LEMMA SpacingNext == TypeInv /\ TypeInv' /\ FlightInv /\ SpacingInv /\ [Next]_vars => SpacingInv'
<1> SUFFICES ASSUME TypeInv, TypeInv', FlightInv, SpacingInv, [Next]_vars PROVE SpacingInv'
  OBVIOUS
<1>0. /\ stage \in [Msgs -> Stages] /\ queue \in Seq(Msgs) /\ now \in Nat
      /\ wake \in [Msgs -> Nat] /\ sentAt \in [Msgs -> Nat]
      /\ lastSendByRecipient \in [Recipients -> Nat] /\ lastGlobalSend \in Nat
      /\ \A m \in Msgs : RecipientOf[m] \in Recipients
      /\ MinGlobalDelay \in Nat /\ MinRecipientDelay \in Nat
  BY LimitsAssumption DEF TypeInv, TypeOK
<1>1. ASSUME NEW m \in Msgs, SendRefused(m) \/ SendQueued(m) PROVE SpacingInv'
  <2>1. PICK s \in {"refused", "queued"} : stage' = [stage EXCEPT ![m] = s]
    BY <1>1 DEF SendRefused, SendQueued
  <2>2. \A n \in Msgs : stage'[n] = stage[n] \/ stage'[n] \in {"refused", "queued"}
    BY <1>0, <2>1
  <2>3. UNCHANGED <<now, wake, sentAt, lastSendByRecipient, lastGlobalSend>>
    BY <1>1 DEF SendRefused, SendQueued
  <2>4. now' \in Nat /\ now' >= now
    BY <1>0, <2>3
  <2>5. UNCHANGED <<sentAt, lastSendByRecipient, lastGlobalSend>>
    BY <2>3
  <2>6. \A n \in Msgs : stage'[n] \in {"sent", "waiting", "presence", "typing", "sending"}
                        => stage'[n] = stage[n] /\ wake'[n] = wake[n]
    BY <2>2, <2>3
  <2> QED
    BY <2>4, <2>5, <2>6, SpacingKept
<1>2. ASSUME NEW m \in Msgs, SendStarted(m) PROVE SpacingInv'
  <2> DEFINE q == Append(queue, m)
             st == [stage EXCEPT ![m] = "queued"]
  <2>1. q \in Seq(Msgs) /\ st \in [Msgs -> Stages]
    BY <1>2, AppendKeeps DEF SendStarted, MayCall
  <2>2. \A n \in Msgs : stage[n] \notin FlightStages
    BY <1>2 DEF SendStarted, FlightInv, SingleFlight, InFlight
  <2>3. \A n \in Msgs : /\ st[n] \notin FlightStages
                        /\ st[n] = "sent" => stage[n] = "sent"
    BY <1>0, <2>2 DEF FlightStages
  <2>4. /\ RunQueue(q, st, lastSendByRecipient', lastGlobalSend')
        /\ UNCHANGED <<now, sentAt, lastSendByRecipient, lastGlobalSend>>
    BY <1>2 DEF SendStarted
  <2> HIDE DEF q, st
  <2>5. \A a, b \in Msgs :
          a # b /\ st[a] = "sent" /\ st[b] = "sent" => Spaced(a, b)'
    BY <2>3, <2>4 DEF SpacingInv, SpacedSends, Spaced
  <2> QED
    BY <2>1, <2>3, <2>4, <2>5, RunQueueSpacing DEF SpacingInv, LastInv
<1>3. ASSUME NEW m \in Msgs,
             SlotReached(m) \/ PresenceShown(m) \/ PresenceFailed(m) \/ TypingDone(m)
      PROVE  SpacingInv'
  <2>1. UNCHANGED <<now, sentAt, lastSendByRecipient, lastGlobalSend>>
    BY <1>3 DEF SlotReached, PresenceShown, PresenceFailed, TypingDone, logVars
  <2>2. /\ \/ stage[m] = "waiting" /\ now >= wake[m]
           \/ stage[m] \in {"presence", "typing"}
        /\ \E s \in {"presence", "typing", "sending"} : stage' = [stage EXCEPT ![m] = s]
    BY <1>3 DEF SlotReached, PresenceShown, PresenceFailed, TypingDone
  <2>3. \A n \in Msgs : n # m => stage'[n] = stage[n] /\ wake'[n] = wake[n]
    BY <1>0, <1>3 DEF SlotReached, PresenceShown, PresenceFailed, TypingDone
  <2>4. stage'[m] \in {"presence", "typing", "sending"}
    BY <1>0, <2>2
  <2> QED
    BY <1>0, <2>1, <2>2, <2>3, <2>4, SpacingKept
<1>4. ASSUME NEW m \in Msgs, Sent(m) PROVE SpacingInv'
  <2> DEFINE st == [stage EXCEPT ![m] = "sent"]
  <2>1. st \in [Msgs -> Stages]
    BY <1>0 DEF Stages
  <2>2. \A n \in Msgs : n # m => stage[n] \notin FlightStages
    BY <1>4 DEF Sent, FlightInv, SingleFlight, InFlight, FlightStages
  <2>3. \A n \in Msgs : /\ st[n] \notin FlightStages
                        /\ st[n] = "sent" => n = m \/ stage[n] = "sent"
    BY <1>0, <2>2 DEF FlightStages
  <2>4. /\ RunQueue(queue, st, lastSendByRecipient', lastGlobalSend')
        /\ now' = now /\ lastGlobalSend' = now
        /\ lastSendByRecipient' = [lastSendByRecipient EXCEPT ![RecipientOf[m]] = now]
        /\ sentAt' = [sentAt EXCEPT ![m] = now]
    BY <1>4 DEF Sent, recordSend
  <2> HIDE DEF st
  <2>5. \A r \in Recipients : lastSendByRecipient'[r] <= now
    BY <1>0, <2>4 DEF SpacingInv, LastInv
  <2>6. \A n \in Msgs : st[n] = "sent" =>
          /\ sentAt'[n] <= lastGlobalSend'
          /\ sentAt'[n] <= lastSendByRecipient'[RecipientOf[n]]
    <3> SUFFICES ASSUME NEW n \in Msgs, st[n] = "sent"
                 PROVE  /\ sentAt'[n] <= lastGlobalSend'
                        /\ sentAt'[n] <= lastSendByRecipient'[RecipientOf[n]]
      OBVIOUS
    <3>1. CASE n = m
      BY <1>0, <2>4, <3>1
    <3>2. CASE n # m
      <4>1. sentAt'[n] = sentAt[n] /\ stage[n] = "sent"
        BY <1>0, <2>3, <2>4, <3>2
      <4>2. sentAt[n] <= lastGlobalSend /\ lastGlobalSend <= now
            /\ sentAt[n] <= lastSendByRecipient[RecipientOf[n]]
        BY <4>1 DEF SpacingInv, LastInv
      <4>3. lastSendByRecipient'[RecipientOf[n]] \in {now, lastSendByRecipient[RecipientOf[n]]}
        BY <1>0, <2>4
      <4> QED
        BY <1>0, <2>4, <4>1, <4>2, <4>3
    <3> QED
      BY <3>1, <3>2
  \* m's slot is clear of every send recorded before.
  <2>7. \A n \in Msgs : n # m /\ stage[n] = "sent" => Spaced(n, m)' /\ Spaced(m, n)'
    <3> SUFFICES ASSUME NEW n \in Msgs, n # m, stage[n] = "sent"
                 PROVE  Spaced(n, m)' /\ Spaced(m, n)'
      OBVIOUS
    <3>1. Clear(m, now)
      BY <1>4 DEF Sent, SpacingInv, SlotInv
    <3>2. sentAt[n] <= lastGlobalSend /\ sentAt[n] <= lastSendByRecipient[RecipientOf[n]]
      BY DEF SpacingInv, LastInv
    <3>3. sentAt'[n] = sentAt[n] /\ sentAt'[m] = now /\ sentAt[n] \in Nat
      BY <1>0, <2>4
    <3>4. now >= sentAt[n] + MinGlobalDelay
      BY <1>0, <3>1, <3>2, <3>3 DEF Clear
    <3>5. RecipientOf[n] = RecipientOf[m] => now >= sentAt[n] + MinRecipientDelay
      BY <1>0, <3>1, <3>2, <3>3 DEF Clear
    <3> QED
      BY <1>0, <3>3, <3>4, <3>5 DEF Spaced
  <2>8. \A a, b \in Msgs :
          a # b /\ st[a] = "sent" /\ st[b] = "sent" => Spaced(a, b)'
    <3> SUFFICES ASSUME NEW a \in Msgs, NEW b \in Msgs,
                        a # b, st[a] = "sent", st[b] = "sent"
                 PROVE  Spaced(a, b)'
      OBVIOUS
    <3>1. CASE a = m \/ b = m
      BY <2>3, <2>7, <3>1
    <3>2. CASE a # m /\ b # m
      <4>1. stage[a] = "sent" /\ stage[b] = "sent"
            /\ sentAt'[a] = sentAt[a] /\ sentAt'[b] = sentAt[b]
        BY <1>0, <2>3, <2>4, <3>2
      <4> QED
        BY <4>1 DEF SpacingInv, SpacedSends, Spaced
    <3> QED
      BY <3>1, <3>2
  <2> QED
    BY <1>0, <2>1, <2>3, <2>4, <2>5, <2>6, <2>8, RunQueueSpacing
<1>5. ASSUME NEW m \in Msgs, Failed(m) PROVE SpacingInv'
  <2> DEFINE st == [stage EXCEPT ![m] = "failed"]
  <2>1. st \in [Msgs -> Stages]
    BY <1>0 DEF Stages
  <2>2. \A n \in Msgs : n # m => stage[n] \notin FlightStages
    BY <1>5 DEF Failed, FlightInv, SingleFlight, InFlight, FlightStages
  <2>3. \A n \in Msgs : /\ st[n] \notin FlightStages
                        /\ st[n] = "sent" => stage[n] = "sent"
    BY <1>0, <2>2 DEF FlightStages
  <2>4. /\ RunQueue(queue, st, lastSendByRecipient', lastGlobalSend')
        /\ UNCHANGED <<now, sentAt, lastSendByRecipient, lastGlobalSend>>
    BY <1>5 DEF Failed, logVars
  <2> HIDE DEF st
  <2>5. \A a, b \in Msgs :
          a # b /\ st[a] = "sent" /\ st[b] = "sent" => Spaced(a, b)'
    BY <2>3, <2>4 DEF SpacingInv, SpacedSends, Spaced
  <2> QED
    BY <1>0, <2>1, <2>3, <2>4, <2>5, RunQueueSpacing DEF SpacingInv, LastInv
<1>6. CASE getStats \/ Tick \/ UNCHANGED vars
  <2>1. now' \in Nat /\ now' >= now
    BY <1>0, <1>6 DEF getStats, Tick, vars
  <2>2. UNCHANGED <<stage, wake, sentAt, lastSendByRecipient, lastGlobalSend>>
    BY <1>6 DEF getStats, Tick, vars, logVars
  <2> QED
    BY <2>1, <2>2, SpacingKept
<1> QED
  BY <1>1, <1>2, <1>3, <1>4, <1>5, <1>6 DEF Next, Step, SendCall, WorkerStep

\* Any two sends of the account are the minimum delays apart.
THEOREM SendsAreSpaced == Spec => []SpacedSends
<1>1. Init => FlightInv /\ SpacingInv
  BY StartAssumption
     DEF Init, FlightInv, SingleFlight, NoneStranded, InFlight, FlightStages,
         SpacingInv, LastInv, SlotInv, SpacedSends
<1>2. TypeInv /\ FlightInv /\ [Next]_vars => FlightInv'
  BY FlightInvNext
<1>3. TypeInv /\ TypeInv' /\ FlightInv /\ SpacingInv /\ [Next]_vars => SpacingInv'
  BY SpacingNext
<1>4. SpacingInv => SpacedSends
  BY DEF SpacingInv
<1> QED
  BY <1>1, <1>2, <1>3, <1>4, QueueCorrect, PTL DEF Spec

-----------------------------------------------------------------------------
(* The limiter is the paced channel: what is in flight, then the queue, is *)
(* what was accepted and not settled, oldest first.                        *)

flight == IF InFlight = {} THEN <<>> ELSE <<CHOOSE m \in Msgs : m \in InFlight>>
pendingSends == flight \o queue

Accepted == FlightStages \cup {"queued"}
outcomes(st) == [m \in Msgs |-> IF st[m] \in Accepted THEN "accepted" ELSE st[m]]

\* The two lemmas the refinement needs of sequences.
LEMMA FirstThenRest ==
  ASSUME NEW q \in Seq(Msgs), q # <<>>
  PROVE  <<Head(q)>> \o Tail(q) = q
<1>1. <<Head(q)>> \in Seq(Msgs) /\ Tail(q) \in Seq(Msgs) /\ Len(Tail(q)) = Len(q) - 1
      /\ \A i \in 1..Len(Tail(q)) : Tail(q)[i] = q[i + 1]
  BY HeadTailProperties
<1>2. /\ <<Head(q)>> \o Tail(q) \in Seq(Msgs)
      /\ Len(<<Head(q)>> \o Tail(q)) = Len(q)
      /\ \A i \in 1..Len(q) : (<<Head(q)>> \o Tail(q))[i] = IF i <= 1 THEN Head(q) ELSE Tail(q)[i - 1]
  BY <1>1, ConcatProperties
<1>3. \A i \in 1..Len(q) : (<<Head(q)>> \o Tail(q))[i] = q[i]
  BY <1>1, <1>2
<1> QED
  BY <1>2, <1>3, SeqEqual

LEMMA PrefixKept ==
  ASSUME NEW x \in Msgs, NEW q \in Seq(Msgs), NEW m \in Msgs
  PROVE  /\ <<x>> \o q \in Seq(Msgs)
         /\ <<x>> \o q # <<>>
         /\ Head(<<x>> \o q) = x
         /\ Tail(<<x>> \o q) = q
         /\ <<x>> \o Append(q, m) = Append(<<x>> \o q, m)
  OBVIOUS

\* With a message in flight it is the first of the pending ones; else there is
\* none, as the queue of an idle worker is empty.
LEMMA Pending ==
  ASSUME TypeInv, FlightInv
  PROVE  /\ \A m \in InFlight : pendingSends = <<m>> \o queue
         /\ InFlight = {} => pendingSends = <<>> /\ queue = <<>>
<1>1. ASSUME NEW m \in InFlight PROVE (CHOOSE n \in Msgs : n \in InFlight) = m
  <2>1. m \in Msgs /\ (CHOOSE n \in Msgs : n \in InFlight) \in InFlight
    BY DEF InFlight
  <2> QED
    BY <2>1 DEF FlightInv, SingleFlight
<1>2. InFlight = {} => queue = <<>>
  BY DEF FlightInv, SingleFlight, NoneStranded
<1>3. ASSUME NEW m \in InFlight PROVE pendingSends = <<m>> \o queue
  <2>1. flight = <<CHOOSE n \in Msgs : n \in InFlight>>
    BY DEF flight
  <2>2. flight = <<m>>
    BY ONLY <1>1, <2>1, m \in InFlight
  <2> QED
    BY <2>2 DEF pendingSends
<1>4. ASSUME InFlight = {} PROVE pendingSends = <<>> /\ queue = <<>>
  <2>1. flight = <<>> /\ queue = <<>>
    BY <1>2, <1>4 DEF flight
  <2>2. pendingSends = <<>> \o <<>>
    BY <2>1 DEF pendingSends
  <2> QED
    BY <2>1, <2>2
<1> QED
  BY <1>3, <1>4

\* A turn of the loop that starts with no message in flight leaves what was
\* queued pending, and accepted.
LEMMA RunQueuePending ==
  ASSUME NEW q \in Seq(Msgs), NEW st \in [Msgs -> Stages],
         NEW byRecipient \in [Recipients -> Nat], NEW global \in Nat,
         now \in Nat, wake \in [Msgs -> Nat], QueueOK(q, st),
         \A n \in Msgs : st[n] \notin FlightStages,
         RunQueue(q, st, byRecipient, global)
  PROVE  pendingSends' = q /\ outcomes(stage)' = outcomes(st)
<1>1. CASE q = <<>>
  <2>1. queue' = <<>> /\ stage' = st
    BY <1>1, RunQueueTurn
  <2>2. InFlight' = {}
    BY <2>1 DEF InFlight
  <2> QED
    BY <1>1, <2>1, <2>2 DEF pendingSends, flight, outcomes
<1>2. CASE q # <<>>
  <2>1. /\ queue' = Tail(q) /\ Head(q) \in Msgs
        /\ stage' = [st EXCEPT ![Head(q)] = "waiting"]
    BY <1>2, RunQueueTurn
  <2>2. InFlight' = {Head(q)}
    BY <2>1 DEF InFlight, FlightStages
  <2>3. (CHOOSE m \in Msgs : m \in InFlight)' = Head(q)
    BY <2>1, <2>2
  <2>4. pendingSends' = <<Head(q)>> \o Tail(q)
    BY <2>1, <2>2, <2>3 DEF pendingSends, flight
  <2>5. st[Head(q)] = "queued"
    BY <1>2 DEF QueueOK
  <2>6. outcomes(stage)' = outcomes(st)
    BY <2>1, <2>5 DEF outcomes, Accepted, FlightStages
  <2> QED
    BY <1>2, <2>4, <2>6, FirstThenRest
<1> QED
  BY <1>1, <1>2

\* The state of the channel, by these names.
LEMMA ChannelVars ==
  ASSUME pendingSends' = pendingSends, outcomes(stage)' = outcomes(stage),
         UNCHANGED <<sentAt, now>>
  PROVE  UNCHANGED Channel!vars
  BY DEF Channel!vars, pendingSends, flight, outcomes, Accepted, Outstanding

LEMMA ChannelRefuses ==
  ASSUME NEW m \in Msgs, outcomes(stage)[m] = "new",
         outcomes(stage)' = [outcomes(stage) EXCEPT ![m] = "refused"],
         pendingSends' = pendingSends, UNCHANGED <<sentAt, now>>
  PROVE  Channel!Next
  BY DEF Channel!Next, Channel!Refuse, pendingSends, flight, outcomes, Accepted, Outstanding

LEMMA ChannelAccepts ==
  ASSUME NEW m \in Msgs, outcomes(stage)[m] = "new",
         outcomes(stage)' = [outcomes(stage) EXCEPT ![m] = "accepted"],
         pendingSends' = Append(pendingSends, m), UNCHANGED <<sentAt, now>>
  PROVE  Channel!Next
  BY DEF Channel!Next, Channel!Accept, pendingSends, flight, outcomes, Accepted, Outstanding

LEMMA ChannelFails ==
  ASSUME pendingSends # <<>>,
         outcomes(stage)' = [outcomes(stage) EXCEPT ![Head(pendingSends)] = "failed"],
         pendingSends' = Tail(pendingSends), UNCHANGED <<sentAt, now>>
  PROVE  Channel!Next
  BY DEF Channel!Next, Channel!SettleFailed, pendingSends, flight, outcomes, Accepted, Outstanding

LEMMA ChannelSends ==
  ASSUME pendingSends # <<>>,
         \A s \in Msgs : outcomes(stage)[s] = "sent" =>
           /\ now >= sentAt[s] + MinGlobalDelay
           /\ RecipientOf[s] = RecipientOf[Head(pendingSends)] => now >= sentAt[s] + MinRecipientDelay,
         outcomes(stage)' = [outcomes(stage) EXCEPT ![Head(pendingSends)] = "sent"],
         sentAt' = [sentAt EXCEPT ![Head(pendingSends)] = now],
         pendingSends' = Tail(pendingSends), UNCHANGED now
  PROVE  Channel!Next
  BY DEF Channel!Next, Channel!SettleSent, Channel!FarEnough, pendingSends, flight, outcomes,
         Accepted, Outstanding

LEMMA ChannelTicks ==
  ASSUME pendingSends' = pendingSends, outcomes(stage)' = outcomes(stage),
         now' = now + 1, UNCHANGED sentAt
  PROVE  Channel!Next
  BY DEF Channel!Next, Channel!Tick, pendingSends, flight, outcomes, Accepted, Outstanding

LEMMA ChannelInit == Init => Channel!Init
<1> SUFFICES ASSUME Init PROVE Channel!Init
  OBVIOUS
<1>1. InFlight = {} /\ Outstanding = {} /\ queue = <<>>
  BY DEF Init, InFlight, Outstanding, FlightStages
<1>2. now \in Nat /\ sentAt = [m \in Msgs |-> 0] /\ stage = [m \in Msgs |-> "new"]
  BY StartAssumption DEF Init
<1> QED
  BY <1>1, <1>2 DEF Channel!Init

\* A step of the worker or of a caller that settles and admits nothing.
LEMMA ChannelWaits ==
  ASSUME TypeInv, NEW m \in Msgs, NEW s \in FlightStages, stage[m] \in FlightStages,
         stage' = [stage EXCEPT ![m] = s], UNCHANGED <<queue, sentAt, now>>
  PROVE  UNCHANGED Channel!vars
<1>1. stage \in [Msgs -> Stages]
  BY DEF TypeInv, TypeOK
<1>2. InFlight' = InFlight
  BY <1>1 DEF InFlight
<1>3. pendingSends' = pendingSends
  BY <1>2 DEF pendingSends, flight
<1>4. outcomes(stage)' = outcomes(stage)
  BY <1>1 DEF outcomes, Accepted
<1> QED
  BY <1>3, <1>4, ChannelVars

LEMMA CallsRefine ==
  ASSUME TypeInv, FlightInv, NEW m \in Msgs, SendCall(m)
  PROVE  Channel!Next
<1>0. /\ stage \in [Msgs -> Stages] /\ queue \in Seq(Msgs) /\ now \in Nat
      /\ wake \in [Msgs -> Nat] /\ lastSendByRecipient \in [Recipients -> Nat]
      /\ lastGlobalSend \in Nat /\ stage[m] = "new"
  BY DEF TypeInv, TypeOK, SendCall, SendRefused, SendQueued, SendStarted, MayCall
<1>1. outcomes(stage)[m] = "new"
  BY <1>0 DEF outcomes, Accepted, FlightStages
<1>2. CASE SendRefused(m)
  <2>1. stage' = [stage EXCEPT ![m] = "refused"] /\ UNCHANGED <<queue, sentAt, now>>
    BY <1>2 DEF SendRefused
  <2>2. InFlight' = InFlight
    BY <1>0, <2>1 DEF InFlight, FlightStages
  <2>3. pendingSends' = pendingSends
    BY <2>1, <2>2 DEF pendingSends, flight
  <2>4. outcomes(stage)' = [outcomes(stage) EXCEPT ![m] = "refused"]
    BY <1>0, <2>1 DEF outcomes, Accepted, FlightStages
  <2> QED
    BY <1>1, <2>1, <2>3, <2>4, ChannelRefuses
<1>3. CASE SendQueued(m)
  <2>1. /\ stage' = [stage EXCEPT ![m] = "queued"] /\ UNCHANGED <<sentAt, now>>
        /\ queue' = Append(queue, m) /\ processing
    BY <1>3 DEF SendQueued
  <2>2. InFlight' = InFlight
    BY <1>0, <2>1 DEF InFlight, FlightStages
  <2>3. PICK x \in InFlight : TRUE
    BY <2>1 DEF FlightInv, SingleFlight
  <2>4. x \in Msgs
    BY DEF InFlight
  <2>5. pendingSends = <<x>> \o queue
    BY <2>3, Pending
  <2>6. pendingSends' = <<x>> \o queue'
    BY <2>2, <2>3, <2>5 DEF pendingSends, flight
  <2>7. pendingSends' = Append(pendingSends, m)
    BY <1>0, <2>1, <2>4, <2>5, <2>6, PrefixKept
  <2>8. outcomes(stage)' = [outcomes(stage) EXCEPT ![m] = "accepted"]
    BY <1>0, <2>1 DEF outcomes, Accepted, FlightStages
  <2> QED
    BY <1>1, <2>1, <2>7, <2>8, ChannelAccepts
<1>4. CASE SendStarted(m)
  <2> DEFINE q == Append(queue, m)
             st == [stage EXCEPT ![m] = "queued"]
  <2>1. q \in Seq(Msgs) /\ st \in [Msgs -> Stages] /\ QueueOK(q, st)
    BY <1>0, AppendKeeps DEF TypeInv, QueueInv
  <2>2. InFlight = {}
    BY <1>4 DEF SendStarted, FlightInv, SingleFlight
  <2>3. \A n \in Msgs : st[n] \notin FlightStages
    BY <1>0, <2>2 DEF InFlight, FlightStages
  <2>4. RunQueue(q, st, lastSendByRecipient, lastGlobalSend) /\ UNCHANGED <<sentAt, now>>
    BY <1>4 DEF SendStarted
  <2>5. pendingSends = queue
    BY <2>2, Pending
  <2>6. outcomes(st) = [outcomes(stage) EXCEPT ![m] = "accepted"]
    BY <1>0 DEF outcomes, Accepted, FlightStages
  <2> HIDE DEF st
  <2>7. pendingSends' = q /\ outcomes(stage)' = outcomes(st)
    <3> HIDE DEF q
    <3> QED
      BY <1>0, <2>1, <2>3, <2>4, RunQueuePending
  <2> QED
    BY <1>1, <2>4, <2>5, <2>6, <2>7, ChannelAccepts
<1> QED
  BY <1>2, <1>3, <1>4 DEF SendCall

LEMMA WorkerRefines ==
  ASSUME TypeInv, FlightInv, SpacingInv, NEW m \in Msgs, WorkerStep(m)
  PROVE  Channel!Next \/ UNCHANGED Channel!vars
<1>0. /\ stage \in [Msgs -> Stages] /\ queue \in Seq(Msgs) /\ now \in Nat
      /\ wake \in [Msgs -> Nat] /\ lastSendByRecipient \in [Recipients -> Nat]
      /\ lastGlobalSend \in Nat /\ sentAt \in [Msgs -> Nat]
  BY DEF TypeInv, TypeOK
<1>1. CASE SlotReached(m) \/ PresenceShown(m) \/ PresenceFailed(m) \/ TypingDone(m)
  <2>1. \E s \in FlightStages : stage' = [stage EXCEPT ![m] = s]
    BY <1>1 DEF SlotReached, PresenceShown, PresenceFailed, TypingDone, FlightStages
  <2>2. stage[m] \in FlightStages /\ UNCHANGED <<queue, sentAt, now>>
    BY <1>1 DEF SlotReached, PresenceShown, PresenceFailed, TypingDone, FlightStages, logVars
  <2> QED
    BY <2>1, <2>2, ChannelWaits
\* The message in flight is settled as s and the loop turns.
<1>2. ASSUME NEW s \in {"sent", "failed"}, stage[m] = "sending",
             NEW byRecipient \in [Recipients -> Nat], NEW global \in Nat,
             RunQueue(queue, [stage EXCEPT ![m] = s], byRecipient, global)
      PROVE  /\ pendingSends # <<>> /\ Head(pendingSends) = m
             /\ pendingSends' = Tail(pendingSends)
             /\ outcomes(stage)' = [outcomes(stage) EXCEPT ![m] = s]
  <2> DEFINE st == [stage EXCEPT ![m] = s]
  <2>1. m \in InFlight
    BY <1>2 DEF InFlight, FlightStages
  <2>2. pendingSends = <<m>> \o queue
    BY <2>1, Pending
  <2>3. st \in [Msgs -> Stages]
    BY <1>0 DEF Stages
  <2>4. \A n \in Msgs : st[n] \notin FlightStages
    BY <1>0, <2>1 DEF FlightInv, SingleFlight, InFlight, FlightStages
  <2>5. QueueOK(queue, st)
    BY <1>0, <1>2 DEF TypeInv, QueueInv, QueueOK
  <2>6. outcomes(st) = [outcomes(stage) EXCEPT ![m] = s]
    BY <1>0, <1>2 DEF outcomes, Accepted, FlightStages
  <2>7. pendingSends' = queue /\ outcomes(stage)' = outcomes(st)
    <3> HIDE DEF st
    <3> QED
      BY <1>0, <1>2, <2>3, <2>4, <2>5, RunQueuePending DEF st
  <2> QED
    BY <1>0, <2>2, <2>6, <2>7, PrefixKept
<1>3. CASE Sent(m)
  <2>1. /\ stage[m] = "sending" /\ now' = now /\ sentAt' = [sentAt EXCEPT ![m] = now]
        /\ lastSendByRecipient' \in [Recipients -> Nat] /\ lastGlobalSend' \in Nat
        /\ RunQueue(queue, [stage EXCEPT ![m] = "sent"], lastSendByRecipient', lastGlobalSend')
    BY <1>0, <1>3 DEF Sent, recordSend
  <2>2. /\ pendingSends # <<>> /\ Head(pendingSends) = m
        /\ pendingSends' = Tail(pendingSends)
        /\ outcomes(stage)' = [outcomes(stage) EXCEPT ![m] = "sent"]
    BY <1>2, <2>1
  <2>3. ASSUME NEW n \in Msgs, outcomes(stage)[n] = "sent"
        PROVE  /\ now >= sentAt[n] + MinGlobalDelay
               /\ RecipientOf[n] = RecipientOf[m] => now >= sentAt[n] + MinRecipientDelay
    <3>1. stage[n] = "sent"
      BY <2>3 DEF outcomes
    <3>2. /\ sentAt[n] <= lastGlobalSend
          /\ sentAt[n] <= lastSendByRecipient[RecipientOf[n]]
      BY <3>1 DEF SpacingInv, LastInv
    <3>3. Clear(m, now)
      BY <2>1 DEF SpacingInv, SlotInv
    <3>4. /\ MinGlobalDelay \in Nat /\ MinRecipientDelay \in Nat /\ RecipientOf[m] \in Recipients
          /\ RecipientOf[n] \in Recipients
      BY LimitsAssumption
    <3> QED
      BY <1>0, <3>2, <3>3, <3>4 DEF Clear
  <2> QED
    BY <2>1, <2>2, <2>3, ChannelSends
<1>4. CASE Failed(m)
  <2>1. stage[m] = "sending" /\ UNCHANGED <<sentAt, now>>
        /\ RunQueue(queue, [stage EXCEPT ![m] = "failed"], lastSendByRecipient, lastGlobalSend)
    BY <1>4 DEF Failed, logVars
  <2>2. /\ pendingSends # <<>> /\ Head(pendingSends) = m
        /\ pendingSends' = Tail(pendingSends)
        /\ outcomes(stage)' = [outcomes(stage) EXCEPT ![m] = "failed"]
    BY <1>0, <1>2, <2>1
  <2> QED
    BY <2>1, <2>2, ChannelFails
<1> QED
  BY <1>1, <1>3, <1>4 DEF WorkerStep

LEMMA StepRefines ==
  TypeInv /\ FlightInv /\ SpacingInv /\ [Next]_vars => [Channel!Next]_(Channel!vars)
<1> SUFFICES ASSUME TypeInv, FlightInv, SpacingInv, [Next]_vars
             PROVE  [Channel!Next]_(Channel!vars)
  OBVIOUS
<1>1. ASSUME stage' = stage, queue' = queue
      PROVE  pendingSends' = pendingSends /\ outcomes(stage)' = outcomes(stage)
  BY <1>1 DEF pendingSends, flight, outcomes, InFlight
<1>2. CASE getStats \/ UNCHANGED vars
  BY <1>1, <1>2, ChannelVars DEF getStats, vars
<1>3. CASE Tick
  BY <1>1, <1>3, ChannelTicks DEF Tick, logVars
<1> QED
  BY <1>2, <1>3, CallsRefine, WorkerRefines DEF Next, Step

\* Whatever falls between the awaits of the worker, and whichever limits and
\* delays it has, the limiter settles what it accepted in the order of the
\* calls, each once, and sends no two messages closer than the delays allow.
THEOREM LimiterIsChannel == Spec => ImplementsChannel
<1>1. Init => Channel!Init /\ FlightInv /\ SpacingInv
  BY ChannelInit, StartAssumption
     DEF Init, FlightInv, SingleFlight, NoneStranded, InFlight, FlightStages,
         SpacingInv, LastInv, SlotInv, SpacedSends
<1>2. TypeInv /\ FlightInv /\ [Next]_vars => FlightInv'
  BY FlightInvNext
<1>3. TypeInv /\ TypeInv' /\ FlightInv /\ SpacingInv /\ [Next]_vars => SpacingInv'
  BY SpacingNext
<1>4. TypeInv /\ FlightInv /\ SpacingInv /\ [Next]_vars => [Channel!Next]_(Channel!vars)
  BY StepRefines
<1> QED
  BY <1>1, <1>2, <1>3, <1>4, QueueCorrect, PTL DEF Spec, ImplementsChannel, Channel!Spec

-----------------------------------------------------------------------------
(* The caps.  Only completed sends count, so the inductive form counts the *)
(* admitted messages as well.                                              *)

\* Every send of the last day is still in the log.
LogInv ==
  \A m \in Msgs : stage[m] = "sent" /\ sentAt[m] + Day > now => m \in sendLog

Room(window, max) ==
  max > 0 =>
    Cardinality(RecentlySent(window)) + Cardinality(Outstanding) <= max + Burst - 1

CapInv == LogInv /\ Room(Hour, MaxPerHour) /\ Room(Day, MaxPerDay)

LEMMA Finite ==
  /\ IsFiniteSet(Outstanding) /\ Cardinality(Outstanding) \in Nat
  /\ \A w : IsFiniteSet(RecentlySent(w)) /\ Cardinality(RecentlySent(w)) \in Nat
<1>1. Outstanding \in SUBSET Msgs /\ \A w : RecentlySent(w) \in SUBSET Msgs
  BY DEF Outstanding, RecentlySent, SentWithin
<1> QED
  BY <1>1, MsgsAssumption, FS_Subset, FS_CardinalityType

\* Fewer recent sends and no more outstanding messages leave the room there was.
LEMMA RoomKept ==
  ASSUME NEW window, NEW max \in Nat, Room(window, max),
         RecentlySent(window)' \subseteq RecentlySent(window),
         Outstanding' \subseteq Outstanding
  PROVE  Room(window, max)'
<1>1. /\ Cardinality(RecentlySent(window)') <= Cardinality(RecentlySent(window))
      /\ Cardinality(RecentlySent(window)') \in Nat
  BY Finite, FS_Subset, FS_CardinalityType
<1>2. /\ Cardinality(Outstanding') <= Cardinality(Outstanding)
      /\ Cardinality(Outstanding') \in Nat
  BY Finite, FS_Subset, FS_CardinalityType
<1> QED
  BY <1>1, <1>2, Finite, WindowAssumption DEF Room

\* A message that is sent takes the room it held while it was outstanding.
LEMMA RoomMoved ==
  ASSUME NEW window, NEW max \in Nat, Room(window, max),
         NEW m \in Outstanding,
         RecentlySent(window)' \subseteq RecentlySent(window) \cup {m},
         Outstanding' \subseteq Outstanding \ {m}
  PROVE  Room(window, max)'
<1>1. /\ Cardinality(RecentlySent(window)') <= Cardinality(RecentlySent(window)) + 1
      /\ Cardinality(RecentlySent(window)') \in Nat
  <2>1. /\ IsFiniteSet(RecentlySent(window) \cup {m})
        /\ Cardinality(RecentlySent(window) \cup {m}) <= Cardinality(RecentlySent(window)) + 1
    <3> DEFINE A == RecentlySent(window)
    <3>1. IsFiniteSet(A) /\ Cardinality(A) \in Nat
      BY Finite
    <3> HIDE DEF A
    <3>2. /\ IsFiniteSet(A \cup {m})
          /\ Cardinality(A \cup {m}) = IF m \in A THEN Cardinality(A) ELSE Cardinality(A) + 1
      BY <3>1, FS_AddElement
    <3> QED
      BY <3>1, <3>2 DEF A
  <2>2. /\ IsFiniteSet(RecentlySent(window)')
        /\ Cardinality(RecentlySent(window)') <= Cardinality(RecentlySent(window) \cup {m})
    BY <2>1, FS_Subset
  <2>3. Cardinality(RecentlySent(window)') \in Nat /\ Cardinality(RecentlySent(window)) \in Nat
        /\ Cardinality(RecentlySent(window) \cup {m}) \in Nat
    BY <2>1, <2>2, Finite, FS_CardinalityType
  <2> QED
    BY <2>1, <2>2, <2>3
<1>2. /\ Cardinality(Outstanding') <= Cardinality(Outstanding) - 1
      /\ Cardinality(Outstanding') \in Nat
  <2>1. /\ IsFiniteSet(Outstanding \ {m})
        /\ Cardinality(Outstanding \ {m}) = Cardinality(Outstanding) - 1
    BY Finite, FS_RemoveElement
  <2>2. IsFiniteSet(Outstanding') /\ Cardinality(Outstanding') <= Cardinality(Outstanding \ {m})
    BY <2>1, FS_Subset
  <2>3. Cardinality(Outstanding') \in Nat /\ Cardinality(Outstanding) \in Nat
    BY <2>2, Finite, FS_CardinalityType
  <2> QED
    BY <2>1, <2>2, <2>3
<1> QED
  BY <1>1, <1>2, Finite, WindowAssumption DEF Room

\* The admission check leaves room for one message more.
LEMMA RoomAdmitted ==
  ASSUME TypeInv, LogInv, NEW m \in Msgs, MayCall(m),
         NEW window \in {Hour, Day}, NEW max \in Nat, ~Reached(max, window),
         RecentlySent(window)' = RecentlySent(window),
         Outstanding' \subseteq Outstanding \cup {m}
  PROVE  Room(window, max)'
<1>1. RecentlySent(window) \subseteq SentWithin(window, sendLog)
  <2> SUFFICES ASSUME NEW n \in Msgs, stage[n] = "sent", sentAt[n] + window > now
               PROVE  n \in sendLog
    BY DEF RecentlySent, SentWithin
  <2>1. sentAt[n] \in Nat /\ now \in Nat /\ window \in Nat /\ Day \in Nat /\ window <= Day
    BY WindowAssumption DEF TypeInv, TypeOK
  <2>2. sentAt[n] + Day > now
    BY <2>1
  <2> QED
    BY <2>2 DEF LogInv
<1>2. IsFiniteSet(SentWithin(window, sendLog))
      /\ Cardinality(SentWithin(window, sendLog)) \in Nat
  <2>1. SentWithin(window, sendLog) \in SUBSET Msgs
    BY DEF SentWithin, TypeInv, TypeOK
  <2> QED
    BY <2>1, MsgsAssumption, FS_Subset, FS_CardinalityType
<1>3. max > 0 => Cardinality(SentWithin(window, sendLog)) < max
  BY <1>2 DEF Reached
<1>4. Cardinality(RecentlySent(window)) <= Cardinality(SentWithin(window, sendLog))
  BY <1>1, <1>2, FS_Subset
<1>5. /\ Cardinality(Outstanding') <= Cardinality(Outstanding) + 1
      /\ Cardinality(Outstanding') \in Nat
  <2>1. /\ IsFiniteSet(Outstanding \cup {m})
        /\ Cardinality(Outstanding \cup {m}) <= Cardinality(Outstanding) + 1
        /\ Cardinality(Outstanding \cup {m}) \in Nat
    BY Finite, FS_AddElement
  <2>2. IsFiniteSet(Outstanding') /\ Cardinality(Outstanding') <= Cardinality(Outstanding \cup {m})
    BY <2>1, FS_Subset
  <2>3. Cardinality(Outstanding') \in Nat /\ Cardinality(Outstanding) \in Nat
    BY <2>2, Finite, FS_CardinalityType
  <2> QED
    BY <2>1, <2>2, <2>3
<1>6. Cardinality(Outstanding) < Burst /\ Burst \in Nat
  BY WindowAssumption DEF MayCall
<1> QED
  BY <1>2, <1>3, <1>4, <1>5, <1>6, Finite DEF Room

LEMMA CapNext == TypeInv /\ TypeInv' /\ CapInv /\ [Next]_vars => CapInv'
<1> SUFFICES ASSUME TypeInv, TypeInv', CapInv, [Next]_vars PROVE CapInv'
  OBVIOUS
<1>0. /\ stage \in [Msgs -> Stages] /\ queue \in Seq(Msgs) /\ now \in Nat
      /\ wake \in [Msgs -> Nat] /\ sentAt \in [Msgs -> Nat]
      /\ lastSendByRecipient \in [Recipients -> Nat] /\ lastGlobalSend \in Nat
      /\ MaxPerHour \in Nat /\ MaxPerDay \in Nat /\ Hour \in Nat /\ Day \in Nat
      /\ QueueOK(queue, stage)
  BY LimitsAssumption, WindowAssumption DEF TypeInv, TypeOK, QueueInv
\* What a step leaves: no more recent sends and outstanding messages.
<1>1. ASSUME now' \in Nat, now' >= now, sentAt' = sentAt,
             \A n \in Msgs : /\ stage'[n] = "sent" <=> stage[n] = "sent"
                             /\ stage'[n] \in FlightStages \cup {"queued"}
                                  => stage[n] \in FlightStages \cup {"queued"},
             \A n \in sendLog : sentAt[n] + Day > now => n \in sendLog'
      PROVE  CapInv'
  <2>1. \A w \in Nat : RecentlySent(w)' \subseteq RecentlySent(w)
    <3> SUFFICES ASSUME NEW w \in Nat, NEW n \in Msgs, stage'[n] = "sent",
                        sentAt'[n] + w > now'
                 PROVE  stage[n] = "sent" /\ sentAt[n] + w > now
      BY DEF RecentlySent, SentWithin
    <3>1. sentAt'[n] = sentAt[n] /\ sentAt[n] \in Nat /\ now \in Nat
          /\ now' \in Nat /\ now' >= now
      BY <1>0, <1>1
    <3> QED
      BY <1>1, <3>1
  <2>2. Outstanding' \subseteq Outstanding
    <3> SUFFICES ASSUME NEW n \in Msgs, stage'[n] \in FlightStages \cup {"queued"}
                 PROVE  stage[n] \in FlightStages \cup {"queued"}
      BY DEF Outstanding
    <3> QED
      BY <1>1
  <2>3. LogInv'
    <3> SUFFICES ASSUME NEW n \in Msgs, stage'[n] = "sent", sentAt'[n] + Day > now'
                 PROVE  n \in sendLog'
      BY DEF LogInv
    <3>1. sentAt'[n] = sentAt[n] /\ sentAt[n] \in Nat /\ now \in Nat /\ Day \in Nat
          /\ now' \in Nat /\ now' >= now
      BY <1>0, <1>1
    <3>2. sentAt[n] + Day > now
      BY <3>1
    <3>3. stage[n] = "sent"
      BY <1>1
    <3> QED
      BY <1>1, <3>2, <3>3 DEF CapInv, LogInv
  <2>4. Room(Hour, MaxPerHour)'
    BY <1>0, <2>1, <2>2, RoomKept DEF CapInv
  <2>5. Room(Day, MaxPerDay)'
    BY <1>0, <2>1, <2>2, RoomKept DEF CapInv
  <2> QED
    BY <2>3, <2>4, <2>5 DEF CapInv
\* What an admission does.
<1>2. ASSUME NEW m \in Msgs, MayCall(m), ~LimitReached, pruneLog,
             UNCHANGED <<now, sentAt>>,
             \A n \in Msgs : /\ stage'[n] = "sent" <=> stage[n] = "sent"
                             /\ stage'[n] \in FlightStages \cup {"queued"}
                                  => n = m \/ stage[n] \in FlightStages \cup {"queued"}
      PROVE  CapInv'
  <2>1. \A w : RecentlySent(w)' = RecentlySent(w)
    <3>1. now' = now /\ sentAt' = sentAt
      BY <1>2
    <3>2. \A n \in Msgs : stage'[n] = "sent" <=> stage[n] = "sent"
      BY <1>2
    <3> QED
      BY <3>1, <3>2 DEF RecentlySent, SentWithin
  <2>2. Outstanding' \subseteq Outstanding \cup {m}
    <3> SUFFICES ASSUME NEW n \in Msgs, stage'[n] \in FlightStages \cup {"queued"}
                 PROVE  n = m \/ stage[n] \in FlightStages \cup {"queued"}
      BY DEF Outstanding
    <3> QED
      BY <1>2
  <2>3. LogInv'
    <3> SUFFICES ASSUME NEW n \in Msgs, stage'[n] = "sent", sentAt'[n] + Day > now'
                 PROVE  n \in sendLog'
      BY DEF LogInv
    <3>1. stage[n] = "sent" /\ sentAt[n] + Day > now
      BY <1>2
    <3> QED
      BY <1>2, <3>1 DEF CapInv, LogInv, pruneLog, SentWithin
  <2>4. Room(Hour, MaxPerHour)'
    BY <1>0, <1>2, <2>1, <2>2, RoomAdmitted DEF CapInv, LimitReached
  <2>5. Room(Day, MaxPerDay)'
    BY <1>0, <1>2, <2>1, <2>2, RoomAdmitted DEF CapInv, LimitReached
  <2> QED
    BY <2>3, <2>4, <2>5 DEF CapInv
<1>3. ASSUME NEW m \in Msgs, SendRefused(m) PROVE CapInv'
  <2>1. \A n \in Msgs : stage'[n] = stage[n] \/ (stage[n] = "new" /\ stage'[n] = "refused")
    BY <1>0, <1>3 DEF SendRefused, MayCall
  <2>2. \A n \in Msgs : /\ stage'[n] = "sent" <=> stage[n] = "sent"
                        /\ stage'[n] \in FlightStages \cup {"queued"}
                             => stage[n] \in FlightStages \cup {"queued"}
    BY <2>1 DEF FlightStages
  <2>3. now' \in Nat /\ now' >= now /\ sentAt' = sentAt
    BY <1>0, <1>3 DEF SendRefused
  <2>4. \A n \in sendLog : sentAt[n] + Day > now => n \in sendLog'
    BY <1>3 DEF SendRefused, pruneLog, SentWithin
  <2> QED
    BY <1>1, <2>2, <2>3, <2>4
<1>4. ASSUME NEW m \in Msgs, SendQueued(m) PROVE CapInv'
  <2>1. \A n \in Msgs : stage'[n] = stage[n] \/ (n = m /\ stage[n] = "new" /\ stage'[n] = "queued")
    BY <1>0, <1>4 DEF SendQueued, MayCall
  <2>2. \A n \in Msgs : /\ stage'[n] = "sent" <=> stage[n] = "sent"
                        /\ stage'[n] \in FlightStages \cup {"queued"}
                             => n = m \/ stage[n] \in FlightStages \cup {"queued"}
    BY <2>1
  <2> QED
    BY <1>2, <1>4, <2>2 DEF SendQueued
\* The stages after a turn of the loop, seen from the stages it starts with.
<1>5. ASSUME NEW q \in Seq(Msgs), NEW st \in [Msgs -> Stages], QueueOK(q, st),
             RunQueue(q, st, lastSendByRecipient', lastGlobalSend')
      PROVE  \A n \in Msgs :
               /\ stage'[n] = "sent" <=> st[n] = "sent"
               /\ stage'[n] \in FlightStages \cup {"queued"}
                    <=> st[n] \in FlightStages \cup {"queued"}
  <2>1. lastSendByRecipient' \in [Recipients -> Nat] /\ lastGlobalSend' \in Nat
    BY DEF TypeInv, TypeOK
  <2>2. /\ \A n \in Msgs : st[n] # "queued" => stage'[n] = st[n]
        /\ \A n \in Msgs : st[n] = "queued" => stage'[n] \in {"queued", "waiting"}
    BY <1>0, <1>5, <2>1, RunQueueKeeps
  <2> QED
    BY <2>2 DEF FlightStages
<1>6. ASSUME NEW m \in Msgs, SendStarted(m) PROVE CapInv'
  <2> DEFINE q == Append(queue, m)
             st == [stage EXCEPT ![m] = "queued"]
  <2>1. q \in Seq(Msgs) /\ st \in [Msgs -> Stages] /\ QueueOK(q, st)
    BY <1>6, AppendKeeps DEF SendStarted, MayCall
  <2>2. RunQueue(q, st, lastSendByRecipient', lastGlobalSend')
    BY <1>6 DEF SendStarted
  <2>3. \A n \in Msgs : st[n] = stage[n] \/ (n = m /\ stage[n] = "new" /\ st[n] = "queued")
    BY <1>0, <1>6 DEF SendStarted, MayCall
  <2> HIDE DEF q, st
  <2>4. \A n \in Msgs :
          /\ stage'[n] = "sent" <=> st[n] = "sent"
          /\ stage'[n] \in FlightStages \cup {"queued"}
               <=> st[n] \in FlightStages \cup {"queued"}
    BY <1>5, <2>1, <2>2
  <2>5. \A n \in Msgs : /\ stage'[n] = "sent" <=> stage[n] = "sent"
                        /\ stage'[n] \in FlightStages \cup {"queued"}
                             => n = m \/ stage[n] \in FlightStages \cup {"queued"}
    BY <2>3, <2>4
  <2> QED
    BY <1>2, <1>6, <2>5 DEF SendStarted
<1>7. ASSUME NEW m \in Msgs,
             SlotReached(m) \/ PresenceShown(m) \/ PresenceFailed(m) \/ TypingDone(m)
      PROVE  CapInv'
  <2>1. /\ UNCHANGED <<now, sentAt, sendLog>>
        /\ stage[m] \in FlightStages
        /\ \E s \in FlightStages : stage' = [stage EXCEPT ![m] = s]
    BY <1>7 DEF SlotReached, PresenceShown, PresenceFailed, TypingDone, logVars, FlightStages
  <2>2. \A n \in Msgs : /\ stage'[n] = "sent" <=> stage[n] = "sent"
                        /\ stage'[n] \in FlightStages \cup {"queued"}
                             => stage[n] \in FlightStages \cup {"queued"}
    BY <1>0, <2>1 DEF FlightStages
  <2> QED
    BY <1>0, <1>1, <2>1, <2>2
<1>8. ASSUME NEW m \in Msgs, Sent(m) PROVE CapInv'
  <2> DEFINE st == [stage EXCEPT ![m] = "sent"]
  <2>1. /\ st \in [Msgs -> Stages] /\ QueueOK(queue, st)
        /\ stage[m] = "sending" /\ now' = now
        /\ sendLog' = sendLog \cup {m} /\ sentAt' = [sentAt EXCEPT ![m] = now]
    BY <1>0, <1>8 DEF Sent, recordSend, Stages, QueueOK
  <2>2. RunQueue(queue, st, lastSendByRecipient', lastGlobalSend')
    BY <1>8 DEF Sent
  <2>3. \A n \in Msgs : (n # m => st[n] = stage[n]) /\ st[m] = "sent"
    BY <1>0
  <2> HIDE DEF st
  <2>4. \A n \in Msgs :
          /\ stage'[n] = "sent" <=> st[n] = "sent"
          /\ stage'[n] \in FlightStages \cup {"queued"}
               <=> st[n] \in FlightStages \cup {"queued"}
    BY <1>0, <1>5, <2>1, <2>2
  <2>5. m \in Outstanding /\ Outstanding' \subseteq Outstanding \ {m}
    BY <2>1, <2>3, <2>4 DEF Outstanding, FlightStages
  <2>6. \A w : RecentlySent(w)' \subseteq RecentlySent(w) \cup {m}
    BY <1>0, <2>1, <2>3, <2>4 DEF RecentlySent, SentWithin
  <2>7. LogInv'
    BY <1>0, <2>1, <2>3, <2>4 DEF CapInv, LogInv
  <2>8. Room(Hour, MaxPerHour)'
    BY <1>0, <2>5, <2>6, RoomMoved DEF CapInv
  <2>9. Room(Day, MaxPerDay)'
    BY <1>0, <2>5, <2>6, RoomMoved DEF CapInv
  <2> QED
    BY <2>7, <2>8, <2>9 DEF CapInv
<1>9. ASSUME NEW m \in Msgs, Failed(m) PROVE CapInv'
  <2> DEFINE st == [stage EXCEPT ![m] = "failed"]
  <2>1. /\ st \in [Msgs -> Stages] /\ QueueOK(queue, st)
        /\ stage[m] = "sending" /\ UNCHANGED <<now, sentAt, sendLog>>
    BY <1>0, <1>9 DEF Failed, logVars, Stages, QueueOK
  <2>2. RunQueue(queue, st, lastSendByRecipient', lastGlobalSend')
    BY <1>9 DEF Failed, logVars
  <2>3. \A n \in Msgs : (n # m => st[n] = stage[n]) /\ st[m] = "failed"
    BY <1>0
  <2> HIDE DEF st
  <2>4. \A n \in Msgs :
          /\ stage'[n] = "sent" <=> st[n] = "sent"
          /\ stage'[n] \in FlightStages \cup {"queued"}
               <=> st[n] \in FlightStages \cup {"queued"}
    BY <1>0, <1>5, <2>1, <2>2
  <2>5. \A n \in Msgs : /\ stage'[n] = "sent" <=> stage[n] = "sent"
                        /\ stage'[n] \in FlightStages \cup {"queued"}
                             => stage[n] \in FlightStages \cup {"queued"}
    BY <2>1, <2>3, <2>4 DEF FlightStages
  <2> QED
    BY <1>0, <1>1, <2>1, <2>5
<1>10. CASE getStats \/ Tick \/ UNCHANGED vars
  <2>1. now' \in Nat /\ now' >= now /\ UNCHANGED <<stage, sentAt>>
    BY <1>0, <1>10 DEF getStats, Tick, vars, logVars
  <2>2. \A n \in sendLog : sentAt[n] + Day > now => n \in sendLog'
    BY <1>10 DEF getStats, Tick, vars, logVars, pruneLog, SentWithin
  <2> QED
    BY <1>1, <2>1, <2>2
<1> QED
  BY <1>3, <1>4, <1>6, <1>7, <1>8, <1>9, <1>10 DEF Next, Step, SendCall, WorkerStep

\* The hourly and the daily cap are overrun by the callers' burst less one at
\* most, and never by callers that await each send before the next.
THEOREM CapsHold == Spec => []CapWithinBurst
<1>1. ASSUME Init PROVE CapInv
  <2>1. LogInv
    BY <1>1 DEF Init, LogInv
  <2>2. Outstanding = {} /\ \A w : RecentlySent(w) = {}
    <3>1. \A n \in Msgs : stage[n] = "new"
      BY <1>1 DEF Init
    <3> QED
      BY <3>1 DEF Outstanding, FlightStages, RecentlySent, SentWithin
  <2>3. Cardinality({}) = 0
    BY FS_EmptySet
  <2>4. MaxPerHour \in Nat /\ MaxPerDay \in Nat /\ Burst \in Nat /\ Burst # 0
    BY LimitsAssumption, WindowAssumption
  <2>5. \A max \in Nat : max > 0 => 0 + 0 <= max + Burst - 1
    BY <2>4
  <2>6. Room(Hour, MaxPerHour) /\ Room(Day, MaxPerDay)
    BY <2>2, <2>3, <2>4, <2>5 DEF Room
  <2> QED
    BY <2>1, <2>6 DEF CapInv
<1>2. TypeInv /\ TypeInv' /\ CapInv /\ [Next]_vars => CapInv'
  BY CapNext
<1>3. ASSUME CapInv PROVE CapWithinBurst
  <2>1. MaxPerHour \in Nat /\ MaxPerDay \in Nat /\ Burst \in Nat
    BY LimitsAssumption, WindowAssumption
  <2> QED
    BY <1>3, <2>1, Finite DEF CapInv, Room, CapWithinBurst, WithinBurst
<1> QED
  BY <1>1, <1>2, <1>3, QueueCorrect, PTL DEF Spec

=============================================================================
