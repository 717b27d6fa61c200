---------------------------- MODULE GatewayProofs ----------------------------
(***************************************************************************)
(* The gateway's handler for any messages, accounts, routes and settings:  *)
(* types, the silence of read-only accounts, the sliding windows, the one  *)
(* answer to a message, the bounds on auto-replies, and the way of a       *)
(* handler to its end.                                                     *)
(***************************************************************************)
EXTENDS Gateway, FiniteSetTheorems, SequenceTheorems, TLAPS

-----------------------------------------------------------------------------
(* Types.                                                                  *)

LEMMA SendOutboundType ==
  ASSUME NEW m \in Msgs, NEW kind \in Stages, NEW other \in Stages,
         outbox \in [Accounts -> Seq(Msgs)], stage \in [Msgs -> Stages],
         sendOutboundMessage(m, kind, other)
  PROVE  /\ outbox' \in [Accounts -> Seq(Msgs)]
         /\ stage' \in [Msgs -> Stages]
         /\ stage'[m] \in {kind, other}
         /\ \A n \in Msgs \ {m} : stage'[n] = stage[n]
<1>1. AccountOf[m] \in Accounts
  BY GatewayAssumption
<1>2. Append(outbox[AccountOf[m]], m) \in Seq(Msgs)
  BY <1>1
<1> QED
  BY <1>1, <1>2 DEF sendOutboundMessage

LEMMA SettledType ==
  ASSUME NEW m \in Msgs, outbox \in [Accounts -> Seq(Msgs)], IsNext(m)
  PROVE  /\ Settled(m) => outbox' \in [Accounts -> Seq(Msgs)]
         /\ outbox' = [outbox EXCEPT ![AccountOf[m]] = Append(Tail(@), m)] =>
              outbox' \in [Accounts -> Seq(Msgs)]
<1>1. AccountOf[m] \in Accounts /\ outbox[AccountOf[m]] # <<>>
  BY GatewayAssumption DEF IsNext
<1>2. Tail(outbox[AccountOf[m]]) \in Seq(Msgs)
  BY <1>1
<1>3. Append(Tail(outbox[AccountOf[m]]), m) \in Seq(Msgs)
  BY <1>2
<1> QED
  BY <1>1, <1>2, <1>3 DEF Settled

\* What check leaves of the windows, refused or not.
LEMMA CheckType ==
  ASSUME LimiterTypeOK, now \in Nat, NEW m \in Msgs, checkRefused(m) \/ checkAllowed(m)
  PROVE  LimiterTypeOK'
<1>1. SenderOf[m] \in Senders
  BY RateAssumption
<1>2. CASE checkRefused(m)
  BY <1>1, <1>2 DEF LimiterTypeOK, checkRefused, RefusedGlobally, RefusedForSender, pruneWindow
<1>3. CASE checkAllowed(m)
  BY <1>1, <1>3 DEF LimiterTypeOK, checkAllowed, pruneWindow
<1> QED
  BY <1>2, <1>3

\* A rejected send confirms nothing, and may add the kind that was being sent.
LEMMA RejectedType ==
  ASSUME TypeOK, NEW m \in Msgs, stage[m] \in Sending, Rejected(m)
  PROVE  /\ confirmed' = confirmed
         /\ unconfirmed' \in [Msgs -> SUBSET Sending]
         /\ \A w \in Msgs \ {m} : unconfirmed'[w] = unconfirmed[w]
         /\ unconfirmed'[m] \in {unconfirmed[m], unconfirmed[m] \cup {stage[m]}}
<1>1. unconfirmed \in [Msgs -> SUBSET Sending]
  BY DEF TypeOK
<1>2. CASE unconfirmed' = unconfirmed
  BY <1>1, <1>2 DEF Rejected
<1>3. CASE unconfirmed' = [unconfirmed EXCEPT ![m] = @ \cup {stage[m]}]
  BY <1>1, <1>3 DEF Rejected
<1> QED
  BY <1>2, <1>3 DEF Rejected

LEMMA TypeOKInit == Init => TypeOK
BY DEF Init, LimiterInit, TypeOK, LimiterTypeOK, Stages, Sending

LEMMA TypeOKNext == TypeOK /\ [Next]_vars => TypeOK'
<1> SUFFICES ASSUME TypeOK, [Next]_vars PROVE TypeOK'
  OBVIOUS
<1> USE DEF TypeOK, Stages, Sending, answerVars
<1>1. ASSUME NEW m \in Msgs, ReceiveReadOnly(m) PROVE TypeOK'
  BY <1>1 DEF ReceiveReadOnly, limiterVars, replyVars, LimiterTypeOK
<1>2. ASSUME NEW m \in Msgs, ReceiveAllowed(m) PROVE TypeOK'
  <2>1. LimiterTypeOK'
    BY <1>2, CheckType DEF ReceiveAllowed
  <2> QED
    BY <1>2, <2>1 DEF ReceiveAllowed, replyVars
<1>3. ASSUME NEW m \in Msgs, ReceiveRefused(m) PROVE TypeOK'
  <2>1. LimiterTypeOK'
    BY <1>3, CheckType DEF ReceiveRefused
  <2>2. /\ outbox' \in [Accounts -> Seq(Msgs)] /\ stage' \in [Msgs -> Stages]
        /\ stage'[m] \in {"notice", "done"} /\ \A n \in Msgs \ {m} : stage'[n] = stage[n]
    BY <1>3, SendOutboundType DEF ReceiveRefused
  <2> QED
    BY <1>3, <2>1, <2>2 DEF ReceiveRefused, replyVars
<1>4. ASSUME NEW m \in Msgs, StoreReadOnly(m) PROVE TypeOK'
  BY <1>4 DEF StoreReadOnly, limiterVars, replyVars, LimiterTypeOK
<1>5. ASSUME NEW m \in Msgs, StoreAndAsk(m) PROVE TypeOK'
  BY <1>5 DEF StoreAndAsk, limiterVars, replyVars, LimiterTypeOK
<1>6. ASSUME NEW m \in Msgs, StoreAndSchedule(m) PROVE TypeOK'
  <2>1. timer' \in [Msgs -> Nat]
    BY <1>6, GatewayAssumption DEF StoreAndSchedule
  <2> QED
    BY <1>6, <2>1 DEF StoreAndSchedule, limiterVars, LimiterTypeOK
<1>7. ASSUME NEW m \in Msgs, StoreAndDrop(m) PROVE TypeOK'
  BY <1>7 DEF StoreAndDrop, limiterVars, replyVars, LimiterTypeOK
<1>8. ASSUME NEW m \in Msgs, TimerFires(m) PROVE TypeOK'
  <2>1. /\ outbox' \in [Accounts -> Seq(Msgs)] /\ stage' \in [Msgs -> Stages]
        /\ stage'[m] \in {"autoReply", "done"} /\ \A n \in Msgs \ {m} : stage'[n] = stage[n]
    BY <1>8, SendOutboundType DEF TimerFires
  <2> QED
    BY <1>8, <2>1 DEF TimerFires, limiterVars, LimiterTypeOK
<1>9. ASSUME NEW m \in Msgs, BotAnswers(m) PROVE TypeOK'
  <2>1. sendOutboundMessage(m, "response", "done")
    BY <1>9 DEF BotAnswers, sendOutboundMessage
  <2>2. /\ outbox' \in [Accounts -> Seq(Msgs)] /\ stage' \in [Msgs -> Stages]
        /\ stage'[m] \in {"response", "done"} /\ \A n \in Msgs \ {m} : stage'[n] = stage[n]
    BY <2>1, SendOutboundType
  <2> QED
    BY <1>9, <2>2 DEF BotAnswers, limiterVars, replyVars, LimiterTypeOK
<1>10. ASSUME NEW m \in Msgs, BotAnswerRefused(m) \/ BotFails(m) PROVE TypeOK'
  <2>1. /\ outbox' \in [Accounts -> Seq(Msgs)] /\ stage' \in [Msgs -> Stages]
        /\ stage'[m] \in {"degradation", "done"} /\ \A n \in Msgs \ {m} : stage'[n] = stage[n]
    BY <1>10, SendOutboundType DEF BotAnswerRefused, BotFails
  <2>2. /\ turns' \in [Msgs -> SUBSET {"user", "assistant"}]
        /\ recorded' \in [Msgs -> SUBSET {"success", "failure"}]
    <3>1. CASE BotAnswerRefused(m)
      BY <3>1 DEF BotAnswerRefused
    <3>2. CASE BotFails(m)
      BY <3>2 DEF BotFails
    <3> QED
      BY <1>10, <3>1, <3>2
  <2>3. UNCHANGED <<now, limiterVars, answerVars, stored, replyVars>> /\ stage[m] = "bot"
    BY <1>10 DEF BotAnswerRefused, BotFails
  <2>4. stored' \subseteq {n \in Msgs : stage'[n] \notin {"new", "storing"}}
    BY <2>1, <2>3
  <2>5. LimiterTypeOK' /\ UNCHANGED answerVars /\ now' = now /\ UNCHANGED replyVars
    BY <2>3 DEF limiterVars, LimiterTypeOK
  <2> QED
    BY <2>1, <2>2, <2>4, <2>5 DEF replyVars
<1>11. ASSUME NEW m \in Msgs, MessageSent(m) PROVE TypeOK'
  <2>1. outbox' \in [Accounts -> Seq(Msgs)]
    BY <1>11, SettledType DEF MessageSent
  <2> QED
    BY <1>11, <2>1 DEF MessageSent, limiterVars, replyVars, LimiterTypeOK
<1>12. ASSUME NEW m \in Msgs, AutoReplySent(m) PROVE TypeOK'
  <2>1. outbox' \in [Accounts -> Seq(Msgs)]
    BY <1>12, SettledType DEF AutoReplySent
  <2>2. /\ confirmed' \in [Msgs -> SUBSET Sending]
        /\ stage' = [stage EXCEPT ![m] = "done"]
        /\ stored' = stored
    BY <1>12 DEF AutoReplySent
  <2>3. /\ autoReplyLog' \in [Senders -> Nat] /\ autoReplyCount' \in Nat
        /\ repliedAt' \in [Msgs -> Nat]
    <3>1. /\ autoReplyLog' = [autoReplyLog EXCEPT ![SenderOf[m]] = now]
          /\ autoReplyCount' = autoReplyCount + 1
          /\ repliedAt' = [repliedAt EXCEPT ![m] = now]
      BY <1>12 DEF AutoReplySent
    <3>2. autoReplyLog' \in [Senders -> Nat]
      BY <3>1
    <3>3. autoReplyCount' \in Nat
      BY <3>1
    <3>4. repliedAt' \in [Msgs -> Nat]
      BY <3>1
    <3> QED
      BY <3>2, <3>3, <3>4
  <2>4. stored' \subseteq {n \in Msgs : stage'[n] \notin {"new", "storing"}}
    BY <2>2
  <2>5. /\ LimiterTypeOK'
        /\ UNCHANGED <<now, unconfirmed, turns, recorded, timer, checkedAt>>
    BY <1>12 DEF AutoReplySent, limiterVars, LimiterTypeOK
  <2>6. stage' \in [Msgs -> Stages]
    BY <2>2
  <2> QED
    BY <2>1, <2>2, <2>3, <2>4, <2>5, <2>6
<1>13. ASSUME NEW m \in Msgs, SendFailed(m) PROVE TypeOK'
  <2>1. outbox' \in [Accounts -> Seq(Msgs)]
    BY <1>13, SettledType DEF SendFailed
  <2>2. confirmed' = confirmed /\ unconfirmed' \in [Msgs -> SUBSET Sending]
    BY <1>13, RejectedType DEF SendFailed
  <2> QED
    BY <1>13, <2>1, <2>2 DEF SendFailed, limiterVars, replyVars, LimiterTypeOK
<1>14. ASSUME NEW m \in Msgs, ResponseFailed(m) PROVE TypeOK'
  <2>1. outbox' \in [Accounts -> Seq(Msgs)]
    BY <1>14, SettledType DEF ResponseFailed
  <2>2. confirmed' = confirmed /\ unconfirmed' \in [Msgs -> SUBSET Sending]
    BY <1>14, RejectedType DEF ResponseFailed
  <2> QED
    BY <1>14, <2>1, <2>2 DEF ResponseFailed, limiterVars, replyVars, LimiterTypeOK
<1>15. CASE Tick
  BY <1>15 DEF Tick, limiterVars, replyVars, LimiterTypeOK
<1>16. CASE UNCHANGED vars
  BY <1>16 DEF vars, limiterVars, LimiterTypeOK
<1> QED
  BY <1>1, <1>2, <1>3, <1>4, <1>5, <1>6, <1>7, <1>8, <1>9, <1>10, <1>11, <1>12, <1>13,
     <1>14, <1>15, <1>16 DEF Next, Receive, Handle

\* The state of the gateway and its limiter keeps its type.
THEOREM GatewayTypeCorrect == Spec => []TypeOK
BY TypeOKInit, TypeOKNext, PTL DEF Spec

-----------------------------------------------------------------------------
(* Read-only accounts.                                                     *)

LEMMA SilentNext == TypeOK /\ ReadOnlySilent /\ [Next]_vars => ReadOnlySilent'
<1> SUFFICES ASSUME TypeOK, ReadOnlySilent, [Next]_vars,
                    NEW w \in Msgs, readOnly \/ AccountOf[w] \in ReadOnlyAccounts
             PROVE  /\ stage'[w] \in {"new", "storing", "done"}
                    /\ confirmed'[w] = {} /\ unconfirmed'[w] = {}
                    /\ w \notin passed'
  BY DEF ReadOnlySilent
<1>0. /\ stage[w] \in {"new", "storing", "done"} /\ w \notin passed
      /\ confirmed[w] = {} /\ unconfirmed[w] = {}
      /\ stage \in [Msgs -> Stages] /\ confirmed \in [Msgs -> SUBSET Sending]
      /\ unconfirmed \in [Msgs -> SUBSET Sending]
  BY DEF ReadOnlySilent, TypeOK
<1>1. \A m \in Msgs : m = w <=> m = w /\ isAccountReadOnly(m)
  BY DEF isAccountReadOnly
<1>3. ASSUME NEW m \in Msgs, ReceiveReadOnly(m) \/ StoreReadOnly(m)
      PROVE  /\ stage'[w] \in {"new", "storing", "done"} /\ UNCHANGED answerVars
             /\ passed' = passed
  BY <1>0, <1>3 DEF ReceiveReadOnly, StoreReadOnly, limiterVars
<1>4. ASSUME NEW m \in Msgs, ReceiveAllowed(m) \/ ReceiveRefused(m)
      PROVE  stage'[w] = stage[w] /\ UNCHANGED answerVars /\ w \notin passed'
  <2>1. m # w
    BY <1>1, <1>4 DEF ReceiveAllowed, ReceiveRefused
  <2> QED
    BY <1>0, <1>4, <2>1 DEF ReceiveAllowed, ReceiveRefused, checkAllowed, checkRefused,
       RefusedGlobally, RefusedForSender, sendOutboundMessage
<1>5. ASSUME NEW m \in Msgs, StoreAndAsk(m) \/ StoreAndSchedule(m) \/ StoreAndDrop(m)
      PROVE  stage'[w] = stage[w] /\ UNCHANGED answerVars /\ passed' = passed
  <2>1. m # w
    BY <1>1, <1>5 DEF StoreAndAsk, StoreAndSchedule, StoreAndDrop
  <2> QED
    BY <1>0, <1>5, <2>1 DEF StoreAndAsk, StoreAndSchedule, StoreAndDrop, limiterVars
<1>6. ASSUME NEW m \in Msgs, TimerFires(m) \/ BotAnswers(m) \/ BotAnswerRefused(m) \/ BotFails(m)
      PROVE  stage'[w] = stage[w] /\ UNCHANGED answerVars /\ passed' = passed
  <2>1. m # w
    BY <1>0, <1>6 DEF TimerFires, BotAnswers, BotAnswerRefused, BotFails
  <2> QED
    BY <1>0, <1>6, <2>1 DEF TimerFires, BotAnswers, BotAnswerRefused, BotFails,
       sendOutboundMessage, limiterVars
<1>7. ASSUME NEW m \in Msgs, MessageSent(m) \/ AutoReplySent(m) \/ SendFailed(m) \/ ResponseFailed(m)
      PROVE  /\ stage'[w] = stage[w] /\ passed' = passed
             /\ confirmed'[w] = confirmed[w] /\ unconfirmed'[w] = unconfirmed[w]
  <2>1. m # w
    BY <1>0, <1>7 DEF MessageSent, AutoReplySent, SendFailed, ResponseFailed, Sending
  <2> QED
    BY <1>0, <1>7, <2>1 DEF MessageSent, AutoReplySent, SendFailed, ResponseFailed, Rejected,
       limiterVars
<1>8. CASE Tick \/ UNCHANGED vars
  BY <1>0, <1>8 DEF Tick, vars, answerVars, limiterVars
<1> QED
  BY <1>0, <1>3, <1>4, <1>5, <1>6, <1>7, <1>8 DEF Next, Receive, Handle, answerVars

\* Nothing is sent, scheduled or asked of a bot for a message of a read-only
\* account, and it takes nobody's place in the rate limiter's windows.
THEOREM ReadOnlyIsSilent == Spec => []ReadOnlySilent
<1>1. Init => ReadOnlySilent
  BY DEF Init, LimiterInit, ReadOnlySilent
<1> QED
  BY <1>1, SilentNext, GatewayTypeCorrect, PTL DEF Spec

-----------------------------------------------------------------------------
(* Sliding windows.                                                        *)

\* The messages let in whose records still count, of everybody and of s.
Recent == {m \in passed : passedAt[m] + WindowMs >= now}
RecentOf(s) == {m \in Recent : SenderOf[m] = s}

\* The windows hold every message that still counts, these are no more than
\* the limits, and what is received was not let in before.
WindowInv ==
  /\ \A m \in passed : passedAt[m] <= now
  /\ \A m \in Msgs : stage[m] = "new" => m \notin passed
  /\ \A m \in Recent : m \in globalWindow /\ m \in senderWindows[SenderOf[m]]
  /\ Cardinality(Recent) <= globalMessagesPerMinute
  /\ \A s \in Senders : Cardinality(RecentOf(s)) <= messagesPerMinute

\* A set no larger than a window with room, with one more message.
LEMMA OneMore ==
  ASSUME NEW S, S \subseteq Msgs, NEW T, NEW x, T \subseteq S \cup {x}, NEW limit \in Nat,
         ~(Cardinality(S) >= limit)
  PROVE  Cardinality(T) <= limit
<1>1. IsFiniteSet(S)
  BY FS_Subset, RateAssumption
<1>2. IsFiniteSet(S \cup {x}) /\ Cardinality(S \cup {x}) <= Cardinality(S) + 1
  <2>1. /\ IsFiniteSet(S \cup {x})
        /\ \/ Cardinality(S \cup {x}) = Cardinality(S)
           \/ Cardinality(S \cup {x}) = Cardinality(S) + 1
    BY <1>1, FS_AddElement, Zenon
  <2>2. Cardinality(S) \in Nat
    BY <1>1, FS_CardinalityType
  <2> QED
    BY <2>1, <2>2
<1>3. IsFiniteSet(T) /\ Cardinality(T) <= Cardinality(S \cup {x})
  BY <1>2, FS_Subset
<1>4. Cardinality(S) \in Nat /\ Cardinality(T) \in Nat /\ Cardinality(S \cup {x}) \in Nat
  BY <1>1, <1>2, <1>3, FS_CardinalityType
<1> QED
  BY <1>2, <1>3, <1>4

\* Fewer messages than within a limit are within it.
LEMMA NoMore ==
  ASSUME NEW S, S \subseteq Msgs, NEW T, T \subseteq S, NEW limit \in Nat,
         Cardinality(S) <= limit
  PROVE  Cardinality(T) <= limit
<1>1. IsFiniteSet(S) /\ IsFiniteSet(T) /\ Cardinality(T) <= Cardinality(S)
  BY FS_Subset, RateAssumption
<1>2. Cardinality(S) \in Nat /\ Cardinality(T) \in Nat
  BY <1>1, FS_CardinalityType
<1> QED
  BY <1>1, <1>2

\* The step that matters: a message is let in, into windows that have room.
LEMMA LetInKeepsWindows ==
  ASSUME TypeOK, WindowInv, NEW m \in Msgs, ReceiveAllowed(m)
  PROVE  WindowInv'
<1>1. /\ now \in Nat /\ passed \subseteq Msgs /\ passedAt \in [Msgs -> Nat]
      /\ globalWindow \subseteq Msgs /\ senderWindows \in [Senders -> SUBSET Msgs]
      /\ WindowMs \in Nat /\ messagesPerMinute \in Nat /\ globalMessagesPerMinute \in Nat
      /\ SenderOf \in [Msgs -> Senders] /\ stage \in [Msgs -> Stages]
  BY RateAssumption DEF TypeOK, LimiterTypeOK
<1>2. /\ stage[m] = "new" /\ stage' = [stage EXCEPT ![m] = "storing"] /\ now' = now
      /\ passed' = passed \cup {m}
      /\ passedAt' = [passedAt EXCEPT ![m] = now]
      /\ globalWindow' = pruneWindow(globalWindow) \cup {m}
      /\ senderWindows' = [senderWindows EXCEPT
                             ![SenderOf[m]] = pruneWindow(senderWindows[SenderOf[m]]) \cup {m}]
      /\ ~(Cardinality(pruneWindow(globalWindow)) >= globalMessagesPerMinute)
      /\ ~(Cardinality(pruneWindow(senderWindows[SenderOf[m]])) >= messagesPerMinute)
  BY DEF ReceiveAllowed, checkAllowed, GlobalFull, SenderFull
<1>3. m \notin passed /\ \A n \in passed : n # m /\ passedAt'[n] = passedAt[n]
  BY <1>1, <1>2 DEF WindowInv
<1>4. Recent' = Recent \cup {m}
  BY <1>1, <1>2, <1>3 DEF Recent
<1>5. /\ Recent \subseteq pruneWindow(globalWindow)
      /\ RecentOf(SenderOf[m]) \subseteq pruneWindow(senderWindows[SenderOf[m]])
  BY DEF WindowInv, Recent, RecentOf, pruneWindow
<1>6. \A n \in passed' : passedAt'[n] <= now'
  BY <1>1, <1>2, <1>3 DEF WindowInv
<1>7. \A n \in Msgs : stage'[n] = "new" => n \notin passed'
  BY <1>1, <1>2 DEF WindowInv
<1>8. ASSUME NEW n \in Recent'
      PROVE  n \in globalWindow' /\ n \in senderWindows'[SenderOf[n]]
  <2>1. SenderOf[n] \in Senders /\ SenderOf[m] \in Senders
    BY <1>1, <1>4 DEF Recent
  <2>2. CASE n = m
    BY <1>1, <1>2, <2>1, <2>2
  <2>3. CASE n \in Recent
    <3>1. n \in senderWindows[SenderOf[n]] /\ passedAt[n] + WindowMs >= now
      BY <2>3 DEF WindowInv, Recent
    <3>2. n \in pruneWindow(senderWindows[SenderOf[n]])
      BY <3>1 DEF pruneWindow
    <3> QED
      BY <1>1, <1>2, <1>5, <2>1, <2>3, <3>1, <3>2
  <2> QED
    BY <1>4, <2>2, <2>3
<1>9. Cardinality(Recent') <= globalMessagesPerMinute
  <2>1. pruneWindow(globalWindow) \subseteq Msgs
    BY <1>1 DEF pruneWindow
  <2>2. Recent' \subseteq pruneWindow(globalWindow) \cup {m}
    BY <1>4, <1>5
  <2> QED
    BY <1>1, <1>2, <2>1, <2>2, OneMore
<1>10. ASSUME NEW s \in Senders
       PROVE  Cardinality(RecentOf(s)') <= messagesPerMinute
  <2>1. CASE s = SenderOf[m]
    <3>1. pruneWindow(senderWindows[s]) \subseteq Msgs
      BY <1>1 DEF pruneWindow
    <3>2. RecentOf(s)' \subseteq pruneWindow(senderWindows[s]) \cup {m}
      BY <1>4, <1>5, <2>1 DEF RecentOf
    <3> QED
      BY <1>1, <1>2, <2>1, <3>1, <3>2, OneMore
  <2>2. CASE s # SenderOf[m]
    <3>1. RecentOf(s)' = RecentOf(s)
      BY <1>4, <2>2 DEF RecentOf
    <3> QED
      BY <3>1 DEF WindowInv
  <2> QED
    BY <2>1, <2>2
<1> QED
  BY <1>6, <1>7, <1>8, <1>9, <1>10 DEF WindowInv

\* A refusal drops only records that no longer count.
LEMMA RefusalKeepsWindows ==
  ASSUME TypeOK, WindowInv, NEW m \in Msgs, ReceiveRefused(m)
  PROVE  WindowInv'
<1>1. /\ now' = now /\ passed' = passed /\ passedAt' = passedAt
      /\ globalWindow' = pruneWindow(globalWindow)
      /\ \/ senderWindows' = senderWindows
         \/ senderWindows' = [senderWindows EXCEPT
                                ![SenderOf[m]] = pruneWindow(senderWindows[SenderOf[m]])]
  BY DEF ReceiveRefused, checkRefused, RefusedGlobally, RefusedForSender
<1>2. Recent' = Recent /\ \A s : RecentOf(s)' = RecentOf(s)
  BY <1>1 DEF Recent, RecentOf
<1>3. stage \in [Msgs -> Stages] /\ SenderOf \in [Msgs -> Senders] /\ passed \subseteq Msgs
      /\ senderWindows \in [Senders -> SUBSET passed]
  BY RateAssumption DEF TypeOK, LimiterTypeOK
<1>4. \A n \in Msgs : stage'[n] = "new" => n \notin passed'
  <2>1. \A n \in Msgs : stage'[n] = "new" => stage[n] = "new"
    BY <1>3 DEF ReceiveRefused, sendOutboundMessage
  <2> QED
    BY <1>1, <2>1 DEF WindowInv
<1>5. ASSUME NEW n \in Recent
      PROVE  n \in globalWindow' /\ n \in senderWindows'[SenderOf[n]]
  <2>1. /\ n \in globalWindow /\ n \in senderWindows[SenderOf[n]]
        /\ passedAt[n] + WindowMs >= now /\ n \in Msgs
    BY <1>3, <1>5 DEF WindowInv, Recent
  <2>2. n \in pruneWindow(globalWindow) /\ n \in pruneWindow(senderWindows[SenderOf[n]])
    BY <2>1 DEF pruneWindow
  <2>3. SenderOf[n] \in Senders /\ SenderOf[m] \in Senders
    BY <1>3, <2>1
  <2> QED
    BY <1>1, <1>3, <2>1, <2>2, <2>3
<1> QED
  BY <1>1, <1>2, <1>4, <1>5 DEF WindowInv

\* Time takes records out of the windows, and nothing else touches them.
LEMMA TimeKeepsWindows ==
  ASSUME TypeOK, WindowInv, limiterVars' = limiterVars,
         now' = now \/ now' = now + 1,
         \A n \in Msgs : stage'[n] = "new" => stage[n] = "new"
  PROVE  WindowInv'
<1>1. /\ now \in Nat /\ passed \subseteq Msgs /\ passedAt \in [Msgs -> Nat]
      /\ WindowMs \in Nat /\ messagesPerMinute \in Nat /\ globalMessagesPerMinute \in Nat
  BY RateAssumption DEF TypeOK, LimiterTypeOK
<1>2. /\ globalWindow' = globalWindow /\ senderWindows' = senderWindows
      /\ passed' = passed /\ passedAt' = passedAt
  BY DEF limiterVars
<1>3. Recent' \subseteq Recent
  BY <1>1, <1>2 DEF Recent
<1>4. Recent \subseteq Msgs /\ \A s : RecentOf(s) \subseteq Msgs
  BY <1>1 DEF Recent, RecentOf
<1>5. Cardinality(Recent') <= globalMessagesPerMinute
  BY <1>1, <1>3, <1>4, NoMore DEF WindowInv
<1>6. ASSUME NEW s \in Senders
      PROVE  Cardinality(RecentOf(s)') <= messagesPerMinute
  <2>1. RecentOf(s)' \subseteq RecentOf(s)
    BY <1>3 DEF RecentOf
  <2> QED
    BY <1>1, <1>4, <2>1, NoMore DEF WindowInv
<1>7. \A n \in passed' : passedAt'[n] <= now'
  BY <1>1, <1>2 DEF WindowInv
<1>8. \A n \in Msgs : stage'[n] = "new" => n \notin passed'
  BY <1>2 DEF WindowInv
<1>9. \A n \in Recent' : n \in globalWindow' /\ n \in senderWindows'[SenderOf[n]]
  BY <1>2, <1>3 DEF WindowInv
<1> QED
  BY <1>5, <1>6, <1>7, <1>8, <1>9 DEF WindowInv

LEMMA WindowsNext == TypeOK /\ WindowInv /\ [Next]_vars => WindowInv'
<1> SUFFICES ASSUME TypeOK, WindowInv, [Next]_vars
             PROVE  WindowInv'
  OBVIOUS
<1>0. stage \in [Msgs -> Stages]
  BY DEF TypeOK
<1>1. ASSUME NEW m \in Msgs, ReceiveReadOnly(m) \/ Handle(m)
      PROVE  WindowInv'
  <2>1. ReceiveReadOnly(m) \/ StoreReadOnly(m) \/ StoreAndAsk(m) \/ StoreAndSchedule(m)
          \/ StoreAndDrop(m) => /\ limiterVars' = limiterVars /\ now' = now
                                /\ \A n \in Msgs : stage'[n] = "new" => stage[n] = "new"
    BY <1>0 DEF ReceiveReadOnly, StoreReadOnly, StoreAndAsk, StoreAndSchedule, StoreAndDrop,
       limiterVars
  <2>2. TimerFires(m) \/ BotAnswers(m) \/ BotAnswerRefused(m) \/ BotFails(m)
          => /\ limiterVars' = limiterVars /\ now' = now
             /\ \A n \in Msgs : stage'[n] = "new" => stage[n] = "new"
    BY <1>0 DEF TimerFires, BotAnswers, BotAnswerRefused, BotFails, sendOutboundMessage,
       limiterVars
  <2>3. MessageSent(m) \/ AutoReplySent(m) \/ SendFailed(m) \/ ResponseFailed(m)
          => /\ limiterVars' = limiterVars /\ now' = now
             /\ \A n \in Msgs : stage'[n] = "new" => stage[n] = "new"
    BY <1>0 DEF MessageSent, AutoReplySent, SendFailed, ResponseFailed, limiterVars
  <2> QED
    BY <1>1, <2>1, <2>2, <2>3, TimeKeepsWindows DEF Handle
<1>2. CASE Tick \/ UNCHANGED vars
  BY <1>2, TimeKeepsWindows DEF Tick, vars
<1> QED
  BY <1>1, <1>2, LetInKeepsWindows, RefusalKeepsWindows DEF Next, Receive

\* What was let in up to a message of the past does not change; up to one of
\* this moment, it is what still counts.
LEMMA SlidingNext == TypeOK /\ WindowInv /\ WindowInv' /\ SlidingWindows /\ [Next]_vars
                       => SlidingWindows'
<1> SUFFICES ASSUME TypeOK, WindowInv, WindowInv', SlidingWindows, [Next]_vars
             PROVE  SlidingWindows'
  OBVIOUS
<1>1. /\ now \in Nat /\ passed \subseteq Msgs /\ passedAt \in [Msgs -> Nat]
  BY DEF TypeOK, LimiterTypeOK
<1>2. CASE passed' = passed /\ passedAt' = passedAt
  BY <1>2 DEF SlidingWindows, LetInUntil
<1>3. ASSUME NEW m \in Msgs, ReceiveAllowed(m)
      PROVE  SlidingWindows'
  <2>1. /\ stage[m] = "new" /\ now' = now /\ passed' = passed \cup {m}
        /\ passedAt' = [passedAt EXCEPT ![m] = now]
    BY <1>3 DEF ReceiveAllowed, checkAllowed
  <2>2. /\ m \notin passed /\ passedAt'[m] = now
        /\ \A n \in passed : passedAt'[n] = passedAt[n] /\ passedAt[n] \in Nat /\ passedAt[n] <= now
    BY <1>1, <2>1 DEF WindowInv
  <2>3. ASSUME NEW last \in passed', passedAt'[last] = now
        PROVE  LetInUntil(last)' = Recent'
    <3>1. now \in Nat /\ \A n \in passed' : passedAt'[n] <= now
      BY <1>1, <2>1, <2>2
    <3>2. /\ LetInUntil(last)' = {n \in passed' : passedAt'[n] <= now /\ passedAt'[n] + WindowMs >= now}
          /\ Recent' = {n \in passed' : passedAt'[n] + WindowMs >= now}
      BY <2>1, <2>3 DEF LetInUntil, Recent
    <3> QED
      BY <3>1, <3>2
  <2>4. ASSUME NEW last \in passed, passedAt'[last] # now
        PROVE  LetInUntil(last)' = LetInUntil(last)
    <3>1. passedAt'[last] = passedAt[last] /\ passedAt[last] \in Nat /\ ~(now <= passedAt[last])
      BY <1>1, <2>2, <2>4
    <3> QED
      BY <2>1, <2>2, <3>1 DEF LetInUntil
  <2>5. ASSUME NEW last \in passed'
        PROVE  /\ Cardinality(LetInUntil(last)') <= globalMessagesPerMinute
               /\ \A s \in Senders : Cardinality({n \in LetInUntil(last)' : SenderOf[n] = s})
                                       <= messagesPerMinute
    <3>1. CASE passedAt'[last] = now
      BY <2>3, <3>1 DEF WindowInv, RecentOf
    <3>2. CASE passedAt'[last] # now
      <4>1. last \in passed
        BY <2>1, <2>2, <3>2
      <4> QED
        BY <2>4, <3>2, <4>1 DEF SlidingWindows
    <3> QED
      BY <3>1, <3>2
  <2> QED
    BY <2>5 DEF SlidingWindows
<1>4. ASSUME NEW m \in Msgs, ~ReceiveAllowed(m), Receive(m)
      PROVE  passed' = passed /\ passedAt' = passedAt
  BY <1>4 DEF Receive, ReceiveReadOnly, ReceiveRefused, checkRefused, RefusedGlobally,
     RefusedForSender, limiterVars
<1>5. ASSUME NEW m \in Msgs, Handle(m)
      PROVE  passed' = passed /\ passedAt' = passedAt
  BY <1>5 DEF Handle, StoreReadOnly, StoreAndAsk, StoreAndSchedule, StoreAndDrop, TimerFires,
     BotAnswers, BotAnswerRefused, BotFails, MessageSent, AutoReplySent, SendFailed,
     ResponseFailed, limiterVars
<1>6. Tick \/ UNCHANGED vars => passed' = passed /\ passedAt' = passedAt
  BY DEF Tick, vars, limiterVars
<1> QED
  BY <1>2, <1>3, <1>4, <1>5, <1>6 DEF Next

\* In no window of any position more messages get in than the limits allow,
\* of everybody and of each sender: pruning on the next check, on another
\* limit's refusal or not at all for a quiet sender makes no difference.
THEOREM WindowsSlide == Spec => []SlidingWindows
<1>1. Init => WindowInv /\ SlidingWindows
  <2> SUFFICES ASSUME Init PROVE WindowInv /\ SlidingWindows
    OBVIOUS
  <2>1. passed = {} /\ Recent = {} /\ \A s : RecentOf(s) = {}
    BY DEF Init, LimiterInit, Recent, RecentOf
  <2>2. Cardinality({}) = 0
    BY FS_EmptySet
  <2> QED
    BY <2>1, <2>2, RateAssumption DEF WindowInv, SlidingWindows
<1> QED
  BY <1>1, WindowsNext, SlidingNext, GatewayTypeCorrect, PTL DEF Spec

-----------------------------------------------------------------------------
(* One answer.  The outbox of an account holds exactly the messages of the *)
(* account whose handlers await the limiter, each once; so what settles    *)
(* is the send of the handler that goes on, and an answer is recorded only *)
(* as the handler ends.                                                    *)

\* The sequence q holds each element of S once and nothing else.
QueueOf(q, S) ==
  /\ q \in Seq(S)
  /\ \A i, j \in 1..Len(q) : q[i] = q[j] => i = j
  /\ \A x \in S : \E i \in 1..Len(q) : q[i] = x

LEMMA QueueDistinct ==
  ASSUME NEW S, NEW q, QueueOf(q, S), NEW i \in 1..Len(q), NEW j \in 1..Len(q), q[i] = q[j]
  PROVE  i = j
BY DEF QueueOf

LEMMA QueueAppend ==
  ASSUME NEW S, NEW q, QueueOf(q, S), NEW x, x \notin S
  PROVE  QueueOf(Append(q, x), S \cup {x})
<1> DEFINE T == S \cup {x}
<1>1. /\ q \in Seq(S) /\ Len(q) \in Nat /\ \A i \in 1..Len(q) : q[i] \in S
      /\ q \in Seq(T)
  <2>1. q \in Seq(S)
    BY DEF QueueOf
  <2>2. Len(q) \in Nat /\ (\A i \in 1..Len(q) : q[i] \in S) /\ q = [i \in 1..Len(q) |-> q[i]]
    BY <2>1
  <2>3. \A i \in 1..Len(q) : q[i] \in T
    BY <2>2
  <2> HIDE DEF T
  <2>4. q \in Seq(T)
    BY <2>2, <2>3, SeqDef
  <2> QED BY <2>1, <2>2, <2>4
<1>2. x \in T
  OBVIOUS
<1> HIDE DEF T
<1>3. /\ Append(q, x) \in Seq(T) /\ Len(Append(q, x)) = Len(q) + 1
      /\ \A i \in 1..Len(q) : Append(q, x)[i] = q[i]
      /\ Append(q, x)[Len(q) + 1] = x
  BY <1>1, <1>2, AppendProperties
<1>4. \A i \in 1..(Len(q) + 1) : i \in 1..Len(q) \/ i = Len(q) + 1
  BY <1>1
<1>5. Len(q) + 1 \in 1..(Len(q) + 1) /\ \A i \in 1..Len(q) : i \in 1..(Len(q) + 1)
  BY <1>1
<1>6. \A i, j \in 1..Len(Append(q, x)) : Append(q, x)[i] = Append(q, x)[j] => i = j
  <2> DEFINE t == Append(q, x)
  <2> SUFFICES ASSUME NEW i \in 1..Len(t), NEW j \in 1..Len(t), t[i] = t[j] PROVE i = j
    OBVIOUS
  <2>1. /\ i \in 1..Len(q) \/ i = Len(q) + 1
        /\ j \in 1..Len(q) \/ j = Len(q) + 1
    BY <1>3, <1>4
  <2>2. /\ i \in 1..Len(q) => t[i] = q[i] /\ q[i] # x
        /\ j \in 1..Len(q) => t[j] = q[j] /\ q[j] # x
        /\ i = Len(q) + 1 => t[i] = x
        /\ j = Len(q) + 1 => t[j] = x
    BY <1>1, <1>3
  <2> HIDE DEF t
  <2>3. CASE i \in 1..Len(q) /\ j \in 1..Len(q)
    BY <2>2, <2>3, QueueDistinct
  <2> QED BY <2>1, <2>2, <2>3
<1>7. \A y \in T : \E i \in 1..Len(Append(q, x)) : Append(q, x)[i] = y
  BY <1>3, <1>5 DEF QueueOf, T
<1> QED BY <1>3, <1>6, <1>7 DEF QueueOf, T

LEMMA QueueTail ==
  ASSUME NEW S, NEW q, QueueOf(q, S), q # <<>>
  PROVE  Head(q) \in S /\ QueueOf(Tail(q), S \ {Head(q)})
<1> DEFINE T == S \ {Head(q)}
           t == Tail(q)
<1>1. /\ q \in Seq(S) /\ Len(q) \in Nat /\ Len(q) > 0 /\ \A i \in 1..Len(q) : q[i] \in S
      /\ Head(q) = q[1] /\ Head(q) \in S
  BY DEF QueueOf
<1>2. t \in Seq(S) /\ Len(t) = Len(q) - 1 /\ \A i \in 1..Len(t) : t[i] = q[i + 1]
  BY <1>1, HeadTailProperties DEF QueueOf
<1>3. \A i \in 1..Len(t) : i + 1 \in 1..Len(q) /\ i + 1 # 1
  BY <1>1, <1>2
<1> HIDE DEF t
<1>4. \A i \in 1..Len(t) : t[i] \in T
  <2>1. 1 \in 1..Len(q)
    BY <1>1
  <2> SUFFICES ASSUME NEW i \in 1..Len(t) PROVE t[i] \in T
    OBVIOUS
  <2>2. t[i] = q[i + 1] /\ q[i + 1] \in S /\ i + 1 \in 1..Len(q) /\ i + 1 # 1
    BY <1>1, <1>2, <1>3
  <2>3. q[i + 1] # q[1]
    BY <2>1, <2>2, QueueDistinct
  <2> QED BY <1>1, <2>2, <2>3
<1>5. t \in Seq(T)
  <2>1. t = [i \in 1..Len(t) |-> t[i]] /\ Len(t) \in Nat
    BY <1>2
  <2> HIDE DEF T
  <2> QED BY <1>4, <2>1, SeqDef
<1>6. \A i, j \in 1..Len(t) : t[i] = t[j] => i = j
  <2> SUFFICES ASSUME NEW i \in 1..Len(t), NEW j \in 1..Len(t), t[i] = t[j] PROVE i = j
    OBVIOUS
  <2>1. i + 1 = j + 1
    <3>1. q[i + 1] = q[j + 1] /\ i + 1 \in 1..Len(q) /\ j + 1 \in 1..Len(q)
      BY <1>2, <1>3
    <3> QED BY <3>1, QueueDistinct
  <2> QED BY <2>1
<1>7. \A y \in T : \E i \in 1..Len(t) : t[i] = y
  <2> SUFFICES ASSUME NEW y \in T PROVE \E i \in 1..Len(t) : t[i] = y
    OBVIOUS
  <2>1. PICK i \in 1..Len(q) : q[i] = y
    BY DEF QueueOf
  <2>2. i # 1
    BY <2>1, <1>1
  <2>3. i - 1 \in 1..Len(t) /\ (i - 1) + 1 = i
    BY <2>2, <1>1, <1>2
  <2>4. t[i - 1] = y
    BY <1>2, <2>1, <2>3
  <2> QED BY <2>3, <2>4
<1> QED BY <1>1, <1>5, <1>6, <1>7 DEF QueueOf, t

\* A sequence of distinct members of a finite set is no longer than the set.
LEMMA QueueLength ==
  ASSUME NEW S, NEW q, QueueOf(q, S), S \subseteq Msgs
  PROVE  Len(q) <= Cardinality(Msgs)
<1> DEFINE f == [i \in 1..Len(q) |-> q[i]]
<1>1. Len(q) \in Nat /\ \A i \in 1..Len(q) : q[i] \in Msgs
  BY DEF QueueOf
<1>2. f \in [1..Len(q) -> Msgs] /\ \A i, j \in 1..Len(q) : f[i] = f[j] => i = j
  BY <1>1 DEF QueueOf
<1>3. f \in Injection(1..Len(q), Msgs)
  <2> HIDE DEF f
  <2> QED BY <1>2 DEF Injection, IsInjective
<1>4. Cardinality(1..Len(q)) <= Cardinality(Msgs)
  BY <1>3, RateAssumption, FS_Injection
<1>5. Cardinality(1..Len(q)) = Len(q)
  <2>1. \A n \in Int : Cardinality(1..n) = IF 1 > n THEN 0 ELSE n - 1 + 1
    BY FS_Interval
  <2> DEFINE n == Len(q)
  <2>2. n \in Nat
    BY <1>1
  <2> HIDE DEF n
  <2>3. Cardinality(1..n) = IF 1 > n THEN 0 ELSE n - 1 + 1
    BY <2>1, <2>2
  <2>4. Cardinality(1..n) = n
    BY <2>2, <2>3
  <2> QED BY <2>4 DEF n
<1> QED BY <1>4, <1>5

Awaiting(a) == {m \in Msgs : AccountOf[m] = a /\ stage[m] \in Sending}

\* What of the answers to a message is confirmed, what arrived unconfirmed, and
\* what is recorded at each stage of its handler.
AnswerOK(at, sure, unsure, said, outcomes) ==
  /\ at # "done" => sure = {}
  /\ at \notin {"done", "degradation"} => unsure = {}
  /\ at = "degradation" => unsure \subseteq {"response"}
  /\ sure \cap unsure = {}
  /\ \/ \E kind \in Sending : sure \cup unsure \subseteq {kind}
     \/ sure \cup unsure = {"response", "degradation"} /\ "response" \in unsure
  /\ at \in {"new", "storing", "timer", "notice", "autoReply"} => "user" \notin said
  /\ at \in {"new", "storing", "bot", "response"} => "failure" \notin outcomes
  /\ "user" \in said =>
       ("failure" \in outcomes <=> at = "degradation" \/ (at = "done" /\ "response" \notin sure))

OutboxInv == \A a \in Accounts : QueueOf(outbox[a], Awaiting(a))

AnswerInv ==
  \A m \in Msgs : AnswerOK(stage[m], confirmed[m], unconfirmed[m], turns[m], recorded[m])

\* A handler that does not wait for the limiter before or after the step.
LEMMA OutboxKept ==
  ASSUME TypeOK, OutboxInv, outbox' = outbox,
         \A w \in Msgs : stage'[w] \in Sending <=> stage[w] \in Sending
  PROVE  OutboxInv'
<1>1. \A a \in Accounts : Awaiting(a)' = Awaiting(a)
  BY DEF Awaiting
<1> QED BY <1>1 DEF OutboxInv

LEMMA OutboxSend ==
  ASSUME TypeOK, OutboxInv, NEW m \in Msgs, NEW kind \in Sending, NEW other \in Stages \ Sending,
         stage[m] \notin Sending, sendOutboundMessage(m, kind, other)
  PROVE  OutboxInv'
<1>0. stage \in [Msgs -> Stages] /\ outbox \in [Accounts -> Seq(Msgs)] /\ AccountOf[m] \in Accounts
  BY GatewayAssumption DEF TypeOK
<1>1. CASE outbox' = outbox /\ stage' = [stage EXCEPT ![m] = other]
  BY <1>0, <1>1, OutboxKept
<1>2. CASE /\ outbox' = [outbox EXCEPT ![AccountOf[m]] = Append(@, m)]
           /\ stage' = [stage EXCEPT ![m] = kind]
  <2>1. SUFFICES ASSUME NEW a \in Accounts PROVE QueueOf(outbox'[a], Awaiting(a)')
    BY DEF OutboxInv
  <2>2. CASE a = AccountOf[m]
    <3>1. Awaiting(a)' = Awaiting(a) \cup {m} /\ m \notin Awaiting(a)
      BY <1>0, <1>2, <2>2 DEF Awaiting
    <3>2. outbox'[a] = Append(outbox[a], m) /\ QueueOf(outbox[a], Awaiting(a))
      BY <1>0, <1>2, <2>2 DEF OutboxInv
    <3> QED BY <3>1, <3>2, QueueAppend
  <2>3. CASE a # AccountOf[m]
    <3>1. Awaiting(a)' = Awaiting(a) /\ outbox'[a] = outbox[a]
      BY <1>0, <1>2, <2>3 DEF Awaiting
    <3> QED BY <3>1 DEF OutboxInv
  <2> QED BY <2>2, <2>3
<1> QED BY <1>1, <1>2 DEF sendOutboundMessage

LEMMA OutboxSettles ==
  ASSUME TypeOK, OutboxInv, NEW m \in Msgs, IsNext(m),
         \/ Settled(m) /\ stage' = [stage EXCEPT ![m] = "done"]
         \/ /\ outbox' = [outbox EXCEPT ![AccountOf[m]] = Append(Tail(@), m)]
            /\ stage' = [stage EXCEPT ![m] = "degradation"]
  PROVE  OutboxInv'
<1>0. stage \in [Msgs -> Stages] /\ outbox \in [Accounts -> Seq(Msgs)] /\ AccountOf[m] \in Accounts
  BY GatewayAssumption DEF TypeOK
<1>1. SUFFICES ASSUME NEW a \in Accounts PROVE QueueOf(outbox'[a], Awaiting(a)')
  BY DEF OutboxInv
<1>2. CASE a = AccountOf[m]
  <2>1. /\ QueueOf(outbox[a], Awaiting(a)) /\ outbox[a] # <<>> /\ Head(outbox[a]) = m
    BY <1>0, <1>2 DEF OutboxInv, IsNext
  <2>2. QueueOf(Tail(outbox[a]), Awaiting(a) \ {m}) /\ m \in Awaiting(a)
    BY <2>1, QueueTail
  <2>3. CASE Settled(m) /\ stage' = [stage EXCEPT ![m] = "done"]
    <3>1. Awaiting(a)' = Awaiting(a) \ {m} /\ outbox'[a] = Tail(outbox[a])
      BY <1>0, <1>2, <2>3 DEF Awaiting, Settled, Sending
    <3> QED BY <2>2, <3>1
  <2>4. CASE /\ outbox' = [outbox EXCEPT ![AccountOf[m]] = Append(Tail(@), m)]
             /\ stage' = [stage EXCEPT ![m] = "degradation"]
    <3>1. Awaiting(a)' = (Awaiting(a) \ {m}) \cup {m} /\ outbox'[a] = Append(Tail(outbox[a]), m)
      BY <1>0, <1>2, <2>2, <2>4 DEF Awaiting, Sending
    <3> QED BY <2>2, <3>1, QueueAppend
  <2> QED BY <2>3, <2>4
<1>3. CASE a # AccountOf[m]
  <2>1. Awaiting(a)' = Awaiting(a) /\ outbox'[a] = outbox[a]
    BY <1>0, <1>3 DEF Awaiting, Settled
  <2> QED BY <2>1 DEF OutboxInv
<1> QED BY <1>2, <1>3

LEMMA OutboxNext == TypeOK /\ OutboxInv /\ [Next]_vars => OutboxInv'
<1> SUFFICES ASSUME TypeOK, OutboxInv, [Next]_vars PROVE OutboxInv'
  OBVIOUS
<1>0. stage \in [Msgs -> Stages]
  BY DEF TypeOK
<1>1. ASSUME NEW m \in Msgs, ReceiveReadOnly(m) \/ ReceiveAllowed(m) PROVE OutboxInv'
  BY <1>0, <1>1, OutboxKept DEF ReceiveReadOnly, ReceiveAllowed, Sending
<1>2. ASSUME NEW m \in Msgs, StoreReadOnly(m) \/ StoreAndAsk(m) \/ StoreAndSchedule(m) \/ StoreAndDrop(m)
      PROVE  OutboxInv'
  BY <1>0, <1>2, OutboxKept DEF StoreReadOnly, StoreAndAsk, StoreAndSchedule, StoreAndDrop, Sending
<1>3. ASSUME NEW m \in Msgs, ReceiveRefused(m) \/ TimerFires(m) PROVE OutboxInv'
  BY <1>3, OutboxSend DEF ReceiveRefused, TimerFires, Sending, Stages
<1>4. ASSUME NEW m \in Msgs, BotAnswers(m) \/ BotAnswerRefused(m) \/ BotFails(m) PROVE OutboxInv'
  <2>1. stage[m] \notin Sending
    BY <1>4 DEF BotAnswers, BotAnswerRefused, BotFails, Sending
  <2>2. CASE BotAnswers(m)
    <3>1. sendOutboundMessage(m, "response", "done")
      BY <2>2 DEF BotAnswers, sendOutboundMessage
    <3> QED BY <2>1, <3>1, OutboxSend DEF Sending, Stages
  <2>3. CASE BotAnswerRefused(m) \/ BotFails(m)
    BY <2>1, <2>3, OutboxSend DEF BotAnswerRefused, BotFails, Sending, Stages
  <2> QED BY <1>4, <2>2, <2>3
<1>5. ASSUME NEW m \in Msgs, MessageSent(m) \/ AutoReplySent(m) \/ SendFailed(m) \/ ResponseFailed(m)
      PROVE  OutboxInv'
  BY <1>5, OutboxSettles DEF MessageSent, AutoReplySent, SendFailed, ResponseFailed
<1>6. CASE Tick \/ UNCHANGED vars
  BY <1>6, OutboxKept DEF Tick, vars
<1> QED BY <1>1, <1>2, <1>3, <1>4, <1>5, <1>6 DEF Next, Receive, Handle

\* The step of one message's handler leaves what the others did alone.
LEMMA AnswerStep ==
  ASSUME TypeOK, AnswerInv, NEW m \in Msgs,
         AnswerOK(stage'[m], confirmed'[m], unconfirmed'[m], turns'[m], recorded'[m]),
         \A w \in Msgs \ {m} : /\ stage'[w] = stage[w] /\ confirmed'[w] = confirmed[w]
                               /\ unconfirmed'[w] = unconfirmed[w]
                               /\ turns'[w] = turns[w] /\ recorded'[w] = recorded[w]
  PROVE  AnswerInv'
BY DEF AnswerInv

LEMMA AnswerNext == TypeOK /\ AnswerInv /\ [Next]_vars => AnswerInv'
<1> SUFFICES ASSUME TypeOK, AnswerInv, [Next]_vars PROVE AnswerInv'
  OBVIOUS
<1> USE DEF answerVars
<1>0. /\ stage \in [Msgs -> Stages] /\ confirmed \in [Msgs -> SUBSET Sending]
      /\ unconfirmed \in [Msgs -> SUBSET Sending]
      /\ turns \in [Msgs -> SUBSET {"user", "assistant"}]
      /\ recorded \in [Msgs -> SUBSET {"success", "failure"}]
      /\ \A m \in Msgs : AnswerOK(stage[m], confirmed[m], unconfirmed[m], turns[m], recorded[m])
  BY DEF TypeOK, AnswerInv
<1>1. ASSUME NEW m \in Msgs, ReceiveReadOnly(m) \/ ReceiveAllowed(m) \/ ReceiveRefused(m)
      PROVE  AnswerInv'
  <2>1. /\ stage[m] = "new" /\ stage'[m] \in {"storing", "notice", "done"}
        /\ UNCHANGED <<confirmed, unconfirmed, turns, recorded>>
        /\ \A w \in Msgs \ {m} : stage'[w] = stage[w]
    BY <1>0, <1>1 DEF ReceiveReadOnly, ReceiveAllowed, ReceiveRefused, sendOutboundMessage
  <2> QED BY <1>0, <2>1, AnswerStep DEF AnswerOK
<1>2. ASSUME NEW m \in Msgs, StoreReadOnly(m) \/ StoreAndSchedule(m) \/ StoreAndDrop(m) \/ TimerFires(m)
      PROVE  AnswerInv'
  <2>1. /\ stage[m] \in {"storing", "timer"} /\ stage'[m] \in {"timer", "autoReply", "done"}
        /\ UNCHANGED <<confirmed, unconfirmed, turns, recorded>>
        /\ \A w \in Msgs \ {m} : stage'[w] = stage[w]
    BY <1>0, <1>2
    DEF StoreReadOnly, StoreAndSchedule, StoreAndDrop, TimerFires, sendOutboundMessage
  <2> QED BY <1>0, <2>1, AnswerStep DEF AnswerOK
<1>3. ASSUME NEW m \in Msgs, StoreAndAsk(m) PROVE AnswerInv'
  <2>1. /\ stage[m] = "storing" /\ stage'[m] = "bot"
        /\ UNCHANGED <<confirmed, unconfirmed, recorded>>
        /\ \A w \in Msgs \ {m} : stage'[w] = stage[w] /\ turns'[w] = turns[w]
    BY <1>0, <1>3 DEF StoreAndAsk
  <2> QED BY <1>0, <2>1, AnswerStep DEF AnswerOK
<1>4. ASSUME NEW m \in Msgs, BotAnswers(m) PROVE AnswerInv'
  <2>1. /\ stage[m] = "bot" /\ stage'[m] = "response" /\ UNCHANGED <<confirmed, unconfirmed>>
        /\ "failure" \notin recorded'[m]
        /\ \A w \in Msgs \ {m} : /\ stage'[w] = stage[w] /\ turns'[w] = turns[w]
                                 /\ recorded'[w] = recorded[w]
    <3>1. stage[m] = "bot" /\ "failure" \notin recorded[m]
      BY <1>0, <1>4 DEF BotAnswers, AnswerOK
    <3> QED BY <1>0, <1>4, <3>1 DEF BotAnswers
  <2> QED BY <1>0, <2>1, AnswerStep DEF AnswerOK
<1>5. ASSUME NEW m \in Msgs, BotAnswerRefused(m) \/ BotFails(m) PROVE AnswerInv'
  <2>1. /\ stage[m] = "bot" /\ stage'[m] \in {"degradation", "done"} /\ UNCHANGED <<confirmed, unconfirmed>>
        /\ "failure" \in recorded'[m]
        /\ \A w \in Msgs \ {m} : /\ stage'[w] = stage[w] /\ turns'[w] = turns[w]
                                 /\ recorded'[w] = recorded[w]
    <3>1. CASE BotAnswerRefused(m)
      BY <1>0, <3>1 DEF BotAnswerRefused, sendOutboundMessage
    <3>2. CASE BotFails(m)
      BY <1>0, <3>2 DEF BotFails, sendOutboundMessage
    <3> QED BY <1>5, <3>1, <3>2
  <2> QED BY <1>0, <2>1, AnswerStep DEF AnswerOK
<1>6. ASSUME NEW m \in Msgs, MessageSent(m) \/ AutoReplySent(m) PROVE AnswerInv'
  <2>1. /\ stage[m] \in Sending /\ stage'[m] = "done" /\ confirmed'[m] = confirmed[m] \cup {stage[m]}
        /\ UNCHANGED <<unconfirmed, turns, recorded>>
        /\ \A w \in Msgs \ {m} : stage'[w] = stage[w] /\ confirmed'[w] = confirmed[w]
    BY <1>0, <1>6 DEF MessageSent, AutoReplySent, Sending
  <2>2. confirmed'[m] = {stage[m]}
    BY <1>0, <2>1 DEF AnswerOK, Sending
  <2>3. AnswerOK(stage'[m], confirmed'[m], unconfirmed'[m], turns'[m], recorded'[m])
    BY <1>0, <2>1, <2>2 DEF AnswerOK, Sending
  <2> QED BY <2>1, <2>3, AnswerStep
<1>7. ASSUME NEW m \in Msgs, SendFailed(m) PROVE AnswerInv'
  <2>1. /\ stage[m] \in Sending \ {"response"} /\ stage'[m] = "done"
        /\ UNCHANGED <<turns, recorded>> /\ Rejected(m)
        /\ \A w \in Msgs \ {m} : stage'[w] = stage[w]
    BY <1>0, <1>7 DEF SendFailed
  <2>2. /\ confirmed' = confirmed /\ \A w \in Msgs \ {m} : unconfirmed'[w] = unconfirmed[w]
        /\ unconfirmed'[m] \in {unconfirmed[m], unconfirmed[m] \cup {stage[m]}}
    BY <2>1, RejectedType
  <2>3. AnswerOK(stage'[m], confirmed'[m], unconfirmed'[m], turns'[m], recorded'[m])
    <3>1. confirmed[m] = {} /\ unconfirmed[m] \subseteq {"response"}
      BY <1>0, <2>1 DEF AnswerOK, Sending
    <3>2. CASE stage[m] = "degradation"
      BY <1>0, <2>1, <2>2, <3>1, <3>2 DEF AnswerOK, Sending
    <3>3. CASE stage[m] \in {"notice", "autoReply"}
      BY <1>0, <2>1, <2>2, <3>1, <3>3 DEF AnswerOK, Sending
    <3> QED BY <2>1, <3>2, <3>3 DEF Sending
  <2> QED BY <2>1, <2>2, <2>3, AnswerStep
<1>8. ASSUME NEW m \in Msgs, ResponseFailed(m) PROVE AnswerInv'
  <2>1. /\ stage[m] = "response" /\ stage'[m] \in {"degradation", "done"}
        /\ "failure" \in recorded'[m] /\ turns' = turns /\ Rejected(m)
        /\ \A w \in Msgs \ {m} : stage'[w] = stage[w] /\ recorded'[w] = recorded[w]
    BY <1>0, <1>8 DEF ResponseFailed
  <2>2. /\ confirmed' = confirmed /\ \A w \in Msgs \ {m} : unconfirmed'[w] = unconfirmed[w]
        /\ unconfirmed'[m] \in {unconfirmed[m], unconfirmed[m] \cup {stage[m]}}
    BY <2>1, RejectedType DEF Sending
  <2>3. AnswerOK(stage'[m], confirmed'[m], unconfirmed'[m], turns'[m], recorded'[m])
    BY <1>0, <2>1, <2>2 DEF AnswerOK, Sending
  <2> QED BY <2>1, <2>2, <2>3, AnswerStep
<1>9. CASE Tick \/ UNCHANGED vars
  BY <1>9 DEF Tick, vars, AnswerInv
<1> QED BY <1>1, <1>2, <1>3, <1>4, <1>5, <1>6, <1>7, <1>8, <1>9 DEF Next, Receive, Handle

\* A chat gets at most one answer to a message, from one place in the outbox
\* of its account, except that the degradation message follows a response that
\* arrived although its send rejected; and a failure is recorded if and only if
\* no response was confirmed: for any messages, routes, refusals and failures.
THEOREM OneAnswer == Spec => []AnsweredOnce
<1>1. Init => OutboxInv /\ AnswerInv
  <2> SUFFICES ASSUME Init PROVE OutboxInv /\ AnswerInv
    OBVIOUS
  <2>1. \A a \in Accounts : Awaiting(a) = {} /\ outbox[a] = <<>>
    BY DEF Init, Awaiting, Sending
  <2>2. QueueOf(<<>>, {})
    BY DEF QueueOf
  <2> QED BY <2>1, <2>2 DEF Init, OutboxInv, AnswerInv, AnswerOK, Sending
<1>2. TypeOK /\ OutboxInv /\ AnswerInv => AnsweredOnce
  <2> SUFFICES ASSUME TypeOK, OutboxInv, AnswerInv, NEW m \in Msgs
        PROVE /\ confirmed[m] \cap unconfirmed[m] = {}
              /\ \/ Cardinality(confirmed[m] \cup unconfirmed[m]) <= 1
                 \/ /\ confirmed[m] \cup unconfirmed[m] = {"response", "degradation"}
                    /\ "response" \in unconfirmed[m]
              /\ confirmed[m] \cup unconfirmed[m] # {} =>
                   \/ stage[m] = "done"
                   \/ stage[m] = "degradation" /\ unconfirmed[m] = {"response"}
              /\ stage[m] \in Sending =>
                   Cardinality({p \in Accounts \X (1..Cardinality(Msgs)) :
                                  p[2] <= Len(outbox[p[1]]) /\ outbox[p[1]][p[2]] = m}) = 1
              /\ "user" \in turns[m] =>
                   ("failure" \in recorded[m] <=>
                      \/ stage[m] = "degradation"
                      \/ stage[m] = "done" /\ "response" \notin confirmed[m])
    BY DEF AnsweredOnce
  <2>1. AnswerOK(stage[m], confirmed[m], unconfirmed[m], turns[m], recorded[m])
    BY DEF AnswerInv
  <2>2. \/ Cardinality(confirmed[m] \cup unconfirmed[m]) <= 1
        \/ /\ confirmed[m] \cup unconfirmed[m] = {"response", "degradation"}
           /\ "response" \in unconfirmed[m]
    <3> DEFINE answers == confirmed[m] \cup unconfirmed[m]
    <3> SUFFICES ASSUME NEW kind \in Sending, answers \subseteq {kind}
                 PROVE  Cardinality(answers) <= 1
      BY <2>1 DEF AnswerOK
    <3>2. answers = {} \/ answers = {kind}
      OBVIOUS
    <3>3. Cardinality({}) = 0 /\ Cardinality({kind}) = 1
      BY FS_EmptySet, FS_Singleton
    <3> QED BY <3>2, <3>3
  <2>4. confirmed[m] \cup unconfirmed[m] # {} =>
          \/ stage[m] = "done"
          \/ stage[m] = "degradation" /\ unconfirmed[m] = {"response"}
    BY <2>1 DEF AnswerOK
  <2>3. ASSUME stage[m] \in Sending
        PROVE  Cardinality({p \in Accounts \X (1..Cardinality(Msgs)) :
                              p[2] <= Len(outbox[p[1]]) /\ outbox[p[1]][p[2]] = m}) = 1
    <3> DEFINE a == AccountOf[m]
               N == Cardinality(Msgs)
               P == {p \in Accounts \X (1..N) : p[2] <= Len(outbox[p[1]]) /\ outbox[p[1]][p[2]] = m}
    <3>1. a \in Accounts /\ m \in Awaiting(a) /\ N \in Nat
      BY <2>3, GatewayAssumption, RateAssumption, FS_CardinalityType DEF Awaiting
    <3>2. \A b \in Accounts : /\ QueueOf(outbox[b], Awaiting(b)) /\ Len(outbox[b]) \in Nat
                              /\ Len(outbox[b]) <= N
                              /\ \A i \in 1..Len(outbox[b]) : AccountOf[outbox[b][i]] = b
      <4> SUFFICES ASSUME NEW b \in Accounts
            PROVE /\ QueueOf(outbox[b], Awaiting(b)) /\ Len(outbox[b]) \in Nat
                  /\ Len(outbox[b]) <= N
                  /\ \A i \in 1..Len(outbox[b]) : AccountOf[outbox[b][i]] = b
        OBVIOUS
      <4>1. QueueOf(outbox[b], Awaiting(b)) /\ Awaiting(b) \subseteq Msgs
        BY DEF OutboxInv, Awaiting
      <4>2. Len(outbox[b]) <= N
        BY <4>1, QueueLength
      <4>3. outbox[b] \in Seq(Awaiting(b))
        BY <4>1 DEF QueueOf
      <4>4. Len(outbox[b]) \in Nat /\ \A i \in 1..Len(outbox[b]) : outbox[b][i] \in Awaiting(b)
        BY <4>3
      <4> QED BY <4>1, <4>2, <4>4 DEF Awaiting
    <3>3. PICK i \in 1..Len(outbox[a]) : outbox[a][i] = m
      BY <3>1, <3>2 DEF QueueOf
    <3>4. <<a, i>> \in P
      <4>1. i \in 1..N /\ i <= Len(outbox[a])
        BY <3>1, <3>2, <3>3
      <4> HIDE DEF N
      <4> QED BY <3>1, <3>3, <4>1
    <3>5. ASSUME NEW p \in P PROVE p = <<a, i>>
      <4>1. p = <<p[1], p[2]>> /\ p[1] \in Accounts /\ p[2] \in 1..N /\ p[2] <= Len(outbox[p[1]])
            /\ outbox[p[1]][p[2]] = m
        OBVIOUS
      <4>2. p[2] \in 1..Len(outbox[p[1]])
        BY <4>1, <3>2
      <4>3. p[1] = a
        BY <4>1, <4>2, <3>2
      <4>4. p[2] = i
        BY <4>1, <4>2, <4>3, <3>1, <3>2, <3>3, QueueDistinct
      <4> QED BY <4>1, <4>3, <4>4
    <3>6. P = {<<a, i>>}
      BY <3>4, <3>5
    <3>7. Cardinality({<<a, i>>}) = 1
      BY FS_Singleton
    <3> QED BY <3>6, <3>7
  <2> QED BY <2>1, <2>2, <2>3, <2>4 DEF AnswerOK
<1> QED BY <1>1, <1>2, OutboxNext, AnswerNext, GatewayTypeCorrect, PTL DEF Spec

-----------------------------------------------------------------------------
(* Auto-replies.  The log has the time of the last auto-reply to a sender, *)
(* the count is the number of messages that got one; so what the gates     *)
(* read when a reply is scheduled is about all that were sent by then, and *)
(* what is sent afterwards is not before it.                               *)

Scheduled(n) == stage[n] \in {"timer", "autoReply"} \/ "autoReply" \in confirmed[n]

Before(n) == {m \in AutoReplied : repliedAt[m] < checkedAt[n]}

ReplyBounded(n) ==
  /\ Cardinality(Before(n)) < dailyCap
  /\ \A m \in Before(n) :
       SenderOf[m] = SenderOf[n] => checkedAt[n] >= repliedAt[m] + cooldown

ReplyInv ==
  /\ now >= 1
  /\ autoReplyCount = Cardinality(AutoReplied)
  /\ \A m \in AutoReplied :
       repliedAt[m] >= 1 /\ repliedAt[m] <= autoReplyLog[SenderOf[m]]
  /\ \A s \in Senders : autoReplyLog[s] <= now
  /\ \A n \in Msgs : checkedAt[n] <= now
  /\ \A n \in Msgs : Scheduled(n) => ReplyBounded(n)

LEMMA ReplyTypes ==
  ASSUME TypeOK
  PROVE  /\ now \in Nat /\ cooldown \in Nat /\ dailyCap \in Nat
         /\ SenderOf \in [Msgs -> Senders]
         /\ stage \in [Msgs -> Stages] /\ confirmed \in [Msgs -> SUBSET Sending]
         /\ autoReplyLog \in [Senders -> Nat] /\ autoReplyCount \in Nat
         /\ checkedAt \in [Msgs -> Nat] /\ repliedAt \in [Msgs -> Nat]
         /\ AutoReplied \subseteq Msgs /\ IsFiniteSet(AutoReplied)
<1>1. AutoReplied \subseteq Msgs
  BY DEF AutoReplied
<1>2. IsFiniteSet(AutoReplied)
  BY <1>1, RateAssumption, FS_Subset
<1> QED BY <1>1, <1>2, RateAssumption, GatewayAssumption DEF TypeOK

\* Steps that neither schedule an auto-reply nor send one.
LEMMA ReplyKept ==
  ASSUME TypeOK, ReplyInv, now' \in Nat, now' >= now,
         UNCHANGED <<autoReplyLog, autoReplyCount, checkedAt, repliedAt>>,
         AutoReplied' = AutoReplied, \A n \in Msgs : Scheduled(n)' => Scheduled(n)
  PROVE  ReplyInv'
<1>1. \A n \in Msgs : Before(n)' = Before(n)
  BY DEF Before
<1>2. \A n \in Msgs : ReplyBounded(n)' <=> ReplyBounded(n)
  BY <1>1 DEF ReplyBounded
<1>3. /\ now' >= 1
      /\ autoReplyCount' = Cardinality(AutoReplied')
      /\ \A m \in AutoReplied' : repliedAt'[m] >= 1 /\ repliedAt'[m] <= autoReplyLog'[SenderOf[m]]
  BY ReplyTypes DEF ReplyInv
<1>4. \A s \in Senders : autoReplyLog'[s] <= now'
  BY ReplyTypes DEF ReplyInv
<1>5. \A n \in Msgs : checkedAt'[n] <= now'
  BY ReplyTypes DEF ReplyInv
<1>6. \A n \in Msgs : Scheduled(n)' => ReplyBounded(n)'
  BY <1>2 DEF ReplyInv
<1> QED BY <1>3, <1>4, <1>5, <1>6 DEF ReplyInv

\* A reply is scheduled: the gates have read the log and the count.
LEMMA ReplyScheduled ==
  ASSUME TypeOK, ReplyInv, NEW m \in Msgs, StoreAndSchedule(m), confirmed[m] = {}
  PROVE  ReplyInv'
<1>1. /\ stage[m] = "storing" /\ stage' = [stage EXCEPT ![m] = "timer"] /\ now' = now
      /\ checkedAt' = [checkedAt EXCEPT ![m] = now]
      /\ UNCHANGED <<confirmed, autoReplyLog, autoReplyCount, repliedAt>>
      /\ CooledDown(SenderOf[m]) /\ BelowCap
  BY DEF StoreAndSchedule, checkAutoReplySafety, answerVars
<1>2. AutoReplied' = AutoReplied
  BY <1>1 DEF AutoReplied
<1>3. ASSUME NEW n \in Msgs, n # m, Scheduled(n)'
      PROVE  ReplyBounded(n)'
  <2>1. Scheduled(n) /\ checkedAt'[n] = checkedAt[n]
    BY <1>1, <1>3, ReplyTypes DEF Scheduled
  <2>2. Before(n)' = Before(n)
    BY <1>1, <1>2, <2>1 DEF Before
  <2>3. ReplyBounded(n)
    BY <2>1 DEF ReplyInv
  <2> QED BY <1>1, <2>1, <2>2, <2>3 DEF ReplyBounded
<1>4. ReplyBounded(m)'
  <2>1. checkedAt'[m] = now /\ now \in Nat
    BY <1>1, ReplyTypes
  <2>2. Before(m)' \subseteq AutoReplied
    BY <1>2 DEF Before
  <2>3. /\ Cardinality(Before(m)') <= Cardinality(AutoReplied)
        /\ Cardinality(Before(m)') \in Nat /\ Cardinality(AutoReplied) \in Nat
    <3>1. IsFiniteSet(AutoReplied)
      BY ReplyTypes
    <3>2. IsFiniteSet(Before(m)') /\ Cardinality(Before(m)') <= Cardinality(AutoReplied)
      BY <2>2, <3>1, FS_Subset
    <3> QED BY <3>1, <3>2, FS_CardinalityType
  <2>4. Cardinality(AutoReplied) < dailyCap
    BY <1>1 DEF ReplyInv, BelowCap
  <2>5. Cardinality(Before(m)') < dailyCap
    BY <2>3, <2>4, ReplyTypes
  <2>6. ASSUME NEW w \in Before(m)', SenderOf[w] = SenderOf[m]
        PROVE  checkedAt'[m] >= repliedAt'[w] + cooldown
    <3>1. w \in AutoReplied /\ w \in Msgs /\ SenderOf[m] \in Senders
      BY <2>2, ReplyTypes
    <3>2. repliedAt[w] >= 1 /\ repliedAt[w] <= autoReplyLog[SenderOf[m]]
      BY <2>6, <3>1 DEF ReplyInv
    <3>3. autoReplyLog[SenderOf[m]] \in Nat /\ repliedAt[w] \in Nat /\ cooldown \in Nat
      BY <3>1, ReplyTypes
    <3>4. now - autoReplyLog[SenderOf[m]] >= cooldown
      BY <1>1, <3>2, <3>3 DEF CooledDown
    <3> QED BY <1>1, <2>1, <3>2, <3>3, <3>4
  <2> QED BY <2>5, <2>6 DEF ReplyBounded
<1>5. \A n \in Msgs : checkedAt'[n] <= now'
  BY <1>1, ReplyTypes DEF ReplyInv
<1>6. \A n \in Msgs : Scheduled(n)' => ReplyBounded(n)'
  BY <1>3, <1>4
<1> QED BY <1>1, <1>2, <1>5, <1>6 DEF ReplyInv

\* A reply is sent, which is not before what was checked up to now.
LEMMA ReplySent ==
  ASSUME TypeOK, ReplyInv, NEW m \in Msgs, AutoReplySent(m), confirmed[m] = {}
  PROVE  ReplyInv'
<1>1. /\ stage[m] = "autoReply" /\ stage' = [stage EXCEPT ![m] = "done"] /\ now' = now
      /\ confirmed' = [confirmed EXCEPT ![m] = @ \cup {"autoReply"}]
      /\ autoReplyLog' = [autoReplyLog EXCEPT ![SenderOf[m]] = now]
      /\ autoReplyCount' = autoReplyCount + 1
      /\ repliedAt' = [repliedAt EXCEPT ![m] = now] /\ checkedAt' = checkedAt
  BY DEF AutoReplySent
<1>2. AutoReplied' = AutoReplied \cup {m} /\ m \notin AutoReplied
  BY <1>1, ReplyTypes DEF AutoReplied
<1>3. autoReplyCount' = Cardinality(AutoReplied')
  <2>1. Cardinality(AutoReplied \cup {m}) = Cardinality(AutoReplied) + 1
    BY <1>2, ReplyTypes, FS_AddElement
  <2> QED BY <1>1, <1>2, <2>1 DEF ReplyInv
<1>4. repliedAt'[m] = now /\ \A w \in AutoReplied : repliedAt'[w] = repliedAt[w] /\ w \in Msgs
  BY <1>1, <1>2, ReplyTypes
<1>5. ASSUME NEW w \in AutoReplied'
      PROVE  repliedAt'[w] >= 1 /\ repliedAt'[w] <= autoReplyLog'[SenderOf[w]]
  <2>1. CASE w = m
    <3>1. SenderOf[m] \in Senders /\ now \in Nat /\ now >= 1
      BY ReplyTypes DEF ReplyInv
    <3>2. autoReplyLog'[SenderOf[m]] = now
      BY <1>1, <3>1, ReplyTypes
    <3> QED BY <1>4, <2>1, <3>1, <3>2
  <2>2. CASE w \in AutoReplied
    <3>1. /\ repliedAt[w] \in Nat /\ SenderOf[w] \in Senders /\ repliedAt[w] >= 1
          /\ repliedAt[w] <= autoReplyLog[SenderOf[w]] /\ autoReplyLog[SenderOf[w]] <= now
          /\ autoReplyLog[SenderOf[w]] \in Nat /\ now \in Nat
      BY <2>2, ReplyTypes DEF ReplyInv
    <3>2. autoReplyLog'[SenderOf[w]] \in {now, autoReplyLog[SenderOf[w]]}
      BY <1>1, <3>1, ReplyTypes
    <3> QED BY <1>4, <2>2, <3>1, <3>2
  <2> QED BY <1>2, <2>1, <2>2
<1>6. \A s \in Senders : autoReplyLog'[s] <= now'
  BY <1>1, ReplyTypes DEF ReplyInv
<1>7. ASSUME NEW n \in Msgs, Scheduled(n)'
      PROVE  ReplyBounded(n)'
  <2>1. Scheduled(n)
    BY <1>1, <1>7, ReplyTypes DEF Scheduled
  <2>2. Before(n)' = Before(n)
    <3>1. ~(repliedAt'[m] < checkedAt'[n])
      BY <1>1, <1>4, ReplyTypes DEF ReplyInv
    <3> QED BY <1>1, <1>2, <1>4, <3>1 DEF Before
  <2>3. ReplyBounded(n) /\ \A w \in Before(n) : repliedAt'[w] = repliedAt[w]
    BY <1>4, <2>1 DEF ReplyInv, Before
  <2> QED BY <1>1, <2>2, <2>3 DEF ReplyBounded
<1>8. now' >= 1 /\ \A n \in Msgs : checkedAt'[n] <= now'
  BY <1>1 DEF ReplyInv
<1> QED BY <1>3, <1>5, <1>6, <1>7, <1>8 DEF ReplyInv

LEMMA ReplyNext == TypeOK /\ AnswerInv /\ ReplyInv /\ [Next]_vars => ReplyInv'
<1> SUFFICES ASSUME TypeOK, AnswerInv, ReplyInv, [Next]_vars PROVE ReplyInv'
  OBVIOUS
<1> USE DEF answerVars, Rejected
<1>0. /\ stage \in [Msgs -> Stages] /\ confirmed \in [Msgs -> SUBSET Sending] /\ now \in Nat
      /\ \A m \in Msgs : stage[m] # "done" => confirmed[m] = {}
  BY DEF TypeOK, AnswerInv, AnswerOK
<1>1. ASSUME NEW m \in Msgs, now' = now, UNCHANGED replyVars, UNCHANGED confirmed,
             stage'[m] \notin {"timer", "autoReply"}, \A w \in Msgs \ {m} : stage'[w] = stage[w]
      PROVE  ReplyInv'
  <2>1. AutoReplied' = AutoReplied /\ \A n \in Msgs : Scheduled(n)' => Scheduled(n)
    BY <1>1 DEF AutoReplied, Scheduled
  <2> QED BY <1>0, <1>1, <2>1, ReplyKept DEF replyVars
<1>2. ASSUME NEW m \in Msgs, ReceiveReadOnly(m) \/ ReceiveAllowed(m) \/ ReceiveRefused(m)
      PROVE  ReplyInv'
  BY <1>0, <1>1, <1>2 DEF ReceiveReadOnly, ReceiveAllowed, ReceiveRefused, sendOutboundMessage
<1>3. ASSUME NEW m \in Msgs, StoreReadOnly(m) \/ StoreAndAsk(m) \/ StoreAndDrop(m)
      PROVE  ReplyInv'
  BY <1>0, <1>1, <1>3 DEF StoreReadOnly, StoreAndAsk, StoreAndDrop
<1>4. ASSUME NEW m \in Msgs, BotAnswers(m) \/ BotAnswerRefused(m) \/ BotFails(m)
      PROVE  ReplyInv'
  BY <1>0, <1>1, <1>4 DEF BotAnswers, BotAnswerRefused, BotFails, sendOutboundMessage
<1>5. ASSUME NEW m \in Msgs, SendFailed(m) \/ ResponseFailed(m)
      PROVE  ReplyInv'
  BY <1>0, <1>1, <1>5 DEF SendFailed, ResponseFailed
<1>6. ASSUME NEW m \in Msgs, StoreAndSchedule(m)
      PROVE  ReplyInv'
  BY <1>0, <1>6, ReplyScheduled DEF StoreAndSchedule
<1>7. ASSUME NEW m \in Msgs, TimerFires(m)
      PROVE  ReplyInv'
  <2>1. /\ now' = now /\ UNCHANGED <<autoReplyLog, autoReplyCount, checkedAt, repliedAt, confirmed>>
        /\ stage[m] = "timer" /\ \A w \in Msgs \ {m} : stage'[w] = stage[w]
    BY <1>0, <1>7 DEF TimerFires, sendOutboundMessage
  <2>2. AutoReplied' = AutoReplied /\ \A n \in Msgs : Scheduled(n)' => Scheduled(n)
    BY <2>1 DEF AutoReplied, Scheduled
  <2> QED BY <1>0, <2>1, <2>2, ReplyKept
<1>8. ASSUME NEW m \in Msgs, MessageSent(m)
      PROVE  ReplyInv'
  <2>1. /\ now' = now /\ UNCHANGED replyVars /\ stage' = [stage EXCEPT ![m] = "done"]
        /\ stage[m] # "autoReply"
        /\ confirmed' = [confirmed EXCEPT ![m] = @ \cup {stage[m]}]
    BY <1>8 DEF MessageSent
  <2>2. AutoReplied' = AutoReplied /\ \A n \in Msgs : Scheduled(n)' => Scheduled(n)
    BY <1>0, <2>1 DEF AutoReplied, Scheduled
  <2> QED BY <1>0, <2>1, <2>2, ReplyKept DEF replyVars
<1>9. ASSUME NEW m \in Msgs, AutoReplySent(m)
      PROVE  ReplyInv'
  BY <1>0, <1>9, ReplySent DEF AutoReplySent
<1>10. CASE Tick \/ UNCHANGED vars
  <2>1. AutoReplied' = AutoReplied /\ \A n \in Msgs : Scheduled(n)' => Scheduled(n)
    BY <1>10 DEF Tick, vars, AutoReplied, Scheduled
  <2> QED BY <1>0, <1>10, <2>1, ReplyKept DEF Tick, vars, replyVars
<1> QED BY <1>2, <1>3, <1>4, <1>5, <1>6, <1>7, <1>8, <1>9, <1>10 DEF Next, Receive, Handle

\* Every auto-reply was scheduled below the cap and a cooldown after what its
\* contact had been sent by then, however many were waiting: for any messages,
\* contacts, delays, cooldown and cap.
THEOREM RepliesBounded == Spec => []AutoRepliesBounded
<1>1. Init => AnswerInv /\ ReplyInv
  <2> SUFFICES ASSUME Init PROVE AnswerInv /\ ReplyInv
    OBVIOUS
  <2>1. AnswerInv
    BY DEF Init, AnswerInv, AnswerOK, Sending
  <2>2. AutoReplied = {} /\ \A n \in Msgs : ~Scheduled(n) /\ checkedAt[n] = 0
    BY DEF Init, AutoReplied, Scheduled
  <2>3. Cardinality({}) = 0
    BY FS_EmptySet
  <2>4. ReplyInv
    BY <2>2, <2>3 DEF Init, ReplyInv
  <2> QED BY <2>1, <2>4
<1>2. ReplyInv => AutoRepliesBounded
  <2> SUFFICES ASSUME ReplyInv, NEW n \in AutoReplied PROVE ReplyBounded(n)
    BY DEF AutoRepliesBounded, ReplyBounded, Before
  <2> QED BY DEF AutoReplied, ReplyInv, Scheduled
<1> QED BY <1>1, <1>2, AnswerNext, ReplyNext, GatewayTypeCorrect, PTL DEF Spec
-----------------------------------------------------------------------------
(* Handling comes to an end.  A handler only ever goes forward through its *)
(* stages, and in each of them it has what takes it on.                    *)

\* How far each stage is from the arrival; only a response that fails is
\* followed by another send.
Order ==
  [at \in Stages |->
     CASE at = "new" -> 0
       [] at = "storing" -> 1
       [] at \in {"bot", "timer"} -> 2
       [] at \in {"notice", "autoReply", "response"} -> 3
       [] at = "degradation" -> 4
       [] at = "done" -> 5]

(* No handler goes back: a step leaves a message where it is or brings it  *)
(* nearer to its end, so that it takes at most five, is asked of a bot and *)
(* scheduled at most once, and is done for good (gateway.ts handleMessage, *)
(* whose catch block sends but never retries).                             *)
StagesAdvance == \A m \in Msgs : stage'[m] = stage[m] \/ Order[stage[m]] < Order[stage'[m]]

LEMMA StageOrder ==
  /\ Order["new"] = 0 /\ Order["storing"] = 1 /\ Order["bot"] = 2 /\ Order["timer"] = 2
  /\ Order["notice"] = 3 /\ Order["autoReply"] = 3 /\ Order["response"] = 3
  /\ Order["degradation"] = 4 /\ Order["done"] = 5
BY DEF Order, Stages, Sending

LEMMA AdvanceStep == TypeOK /\ [Next]_vars => StagesAdvance
<1> SUFFICES ASSUME TypeOK, [Next]_vars PROVE StagesAdvance
  OBVIOUS
<1>0. stage \in [Msgs -> Stages]
  BY DEF TypeOK
<1>1. ASSUME NEW m \in Msgs, Receive(m) PROVE StagesAdvance
  <2>1. /\ stage[m] = "new" /\ stage'[m] \in {"storing", "notice", "done"}
        /\ \A w \in Msgs \ {m} : stage'[w] = stage[w]
    BY <1>0, <1>1 DEF Receive, ReceiveReadOnly, ReceiveAllowed, ReceiveRefused, sendOutboundMessage
  <2> QED BY <2>1, StageOrder DEF StagesAdvance
<1>2. ASSUME NEW m \in Msgs, StoreReadOnly(m) \/ StoreAndAsk(m) \/ StoreAndSchedule(m) \/ StoreAndDrop(m)
      PROVE  StagesAdvance
  <2>1. /\ stage[m] = "storing" /\ stage'[m] \in {"bot", "timer", "done"}
        /\ \A w \in Msgs \ {m} : stage'[w] = stage[w]
    BY <1>0, <1>2 DEF StoreReadOnly, StoreAndAsk, StoreAndSchedule, StoreAndDrop
  <2> QED BY <2>1, StageOrder DEF StagesAdvance
<1>3. ASSUME NEW m \in Msgs, TimerFires(m) PROVE StagesAdvance
  <2>1. /\ stage[m] = "timer" /\ stage'[m] \in {"autoReply", "done"}
        /\ \A w \in Msgs \ {m} : stage'[w] = stage[w]
    BY <1>0, <1>3 DEF TimerFires, sendOutboundMessage
  <2> QED BY <2>1, StageOrder DEF StagesAdvance
<1>4. ASSUME NEW m \in Msgs, BotAnswers(m) \/ BotAnswerRefused(m) \/ BotFails(m) PROVE StagesAdvance
  <2>1. /\ stage[m] = "bot" /\ stage'[m] \in {"response", "degradation", "done"}
        /\ \A w \in Msgs \ {m} : stage'[w] = stage[w]
    BY <1>0, <1>4 DEF BotAnswers, BotAnswerRefused, BotFails, sendOutboundMessage
  <2> QED BY <2>1, StageOrder DEF StagesAdvance
<1>5. ASSUME NEW m \in Msgs, MessageSent(m) \/ AutoReplySent(m) \/ SendFailed(m) PROVE StagesAdvance
  <2>1. /\ stage[m] \in Sending /\ stage'[m] = "done"
        /\ \A w \in Msgs \ {m} : stage'[w] = stage[w]
    BY <1>0, <1>5 DEF MessageSent, AutoReplySent, SendFailed, Sending
  <2> QED BY <2>1, StageOrder DEF StagesAdvance, Sending
<1>6. ASSUME NEW m \in Msgs, ResponseFailed(m) PROVE StagesAdvance
  <2>1. /\ stage[m] = "response" /\ stage'[m] \in {"degradation", "done"}
        /\ \A w \in Msgs \ {m} : stage'[w] = stage[w]
    BY <1>0, <1>6 DEF ResponseFailed
  <2> QED BY <2>1, StageOrder DEF StagesAdvance
<1>7. CASE Tick \/ UNCHANGED vars
  BY <1>7 DEF Tick, vars, StagesAdvance
<1> QED BY <1>1, <1>2, <1>3, <1>4, <1>5, <1>6, <1>7 DEF Next, Handle

\* For any messages, failures and interleavings, no handler goes back to a stage
\* it has left, and none leaves its end.
THEOREM HandlingAdvances == Spec => [][StagesAdvance]_vars
BY AdvanceStep, GatewayTypeCorrect, PTL DEF Spec

(* A handler that waits has something to wait for: an auto-reply has a     *)
(* timer that is due at most MaxDelay after the safety gates let it pass,  *)
(* and a handler that sends is in the queue of its own account, so that    *)
(* neither is left waiting when its timer or its limiter is served         *)
(* (gateway.ts:288 and sendOutboundMessage).                               *)
HandlersHeld ==
  \A m \in Msgs :
    /\ stage[m] = "timer" => timer[m] > 0 /\ timer[m] <= checkedAt[m] + MaxDelay
    /\ stage[m] \in Sending =>
         \E i \in 1..Len(outbox[AccountOf[m]]) : outbox[AccountOf[m]][i] = m

TimerInv ==
  /\ now > 0
  /\ \A m \in Msgs :
       stage[m] = "timer" => timer[m] > 0 /\ timer[m] <= checkedAt[m] + MaxDelay

LEMMA TimerNext == TypeOK /\ TimerInv /\ [Next]_vars => TimerInv'
<1> SUFFICES ASSUME TypeOK, TimerInv, [Next]_vars PROVE TimerInv'
  OBVIOUS
<1>0. /\ stage \in [Msgs -> Stages] /\ timer \in [Msgs -> Nat] /\ checkedAt \in [Msgs -> Nat]
      /\ now \in Nat /\ {MinDelay, MaxDelay} \subseteq Nat
  BY GatewayAssumption DEF TypeOK
<1>1. ASSUME NEW m \in Msgs, StoreAndSchedule(m) PROVE TimerInv'
  <2>1. PICK d \in MinDelay..MaxDelay : timer' = [timer EXCEPT ![m] = now + d]
    BY <1>1 DEF StoreAndSchedule
  <2>2. /\ checkedAt' = [checkedAt EXCEPT ![m] = now] /\ now' = now
        /\ stage' = [stage EXCEPT ![m] = "timer"]
    BY <1>1 DEF StoreAndSchedule
  <2>3. timer'[m] > 0 /\ timer'[m] <= checkedAt'[m] + MaxDelay
    BY <1>0, <2>1, <2>2 DEF TimerInv
  <2>4. \A w \in Msgs \ {m} : /\ stage'[w] = stage[w] /\ timer'[w] = timer[w]
                              /\ checkedAt'[w] = checkedAt[w]
    BY <1>0, <2>1, <2>2
  <2> QED BY <2>2, <2>3, <2>4 DEF TimerInv
<1>2. ASSUME NEW m \in Msgs, TimerFires(m) PROVE TimerInv'
  <2>1. /\ stage'[m] # "timer" /\ UNCHANGED <<now, checkedAt>>
        /\ \A w \in Msgs \ {m} : stage'[w] = stage[w] /\ timer'[w] = timer[w]
    BY <1>0, <1>2 DEF TimerFires, sendOutboundMessage
  <2> QED BY <2>1 DEF TimerInv
<1>3. ASSUME UNCHANGED <<now, timer, checkedAt>>,
             \A w \in Msgs : stage'[w] = "timer" => stage[w] = "timer"
      PROVE  TimerInv'
  BY <1>3 DEF TimerInv
<1>4. ASSUME NEW m \in Msgs, Receive(m) PROVE TimerInv'
  <2>1. UNCHANGED <<now, timer, checkedAt>> /\ \A w \in Msgs : stage'[w] # stage[w] => stage'[w] # "timer"
    BY <1>0, <1>4 DEF Receive, ReceiveReadOnly, ReceiveAllowed, ReceiveRefused,
                      sendOutboundMessage, replyVars
  <2> QED BY <1>3, <2>1
<1>5. ASSUME NEW m \in Msgs, \/ StoreReadOnly(m) \/ StoreAndAsk(m) \/ StoreAndDrop(m)
                             \/ BotAnswers(m) \/ BotAnswerRefused(m) \/ BotFails(m)
                             \/ MessageSent(m) \/ AutoReplySent(m) \/ SendFailed(m)
                             \/ ResponseFailed(m)
      PROVE  TimerInv'
  <2>1. UNCHANGED <<now, timer, checkedAt>>
    BY <1>5 DEF StoreReadOnly, StoreAndAsk, StoreAndDrop, BotAnswers, BotAnswerRefused, BotFails,
                MessageSent, AutoReplySent, SendFailed, ResponseFailed, replyVars
  <2>2. \E v \in Stages \ {"timer"} : stage' = [stage EXCEPT ![m] = v]
    <3>1. CASE StoreReadOnly(m) \/ StoreAndAsk(m) \/ StoreAndDrop(m)
      BY <3>1 DEF StoreReadOnly, StoreAndAsk, StoreAndDrop, Stages
    <3>2. CASE BotAnswers(m) \/ BotAnswerRefused(m) \/ BotFails(m)
      BY <3>2 DEF BotAnswers, BotAnswerRefused, BotFails, sendOutboundMessage, Stages, Sending
    <3>3. CASE MessageSent(m) \/ AutoReplySent(m) \/ SendFailed(m)
      BY <3>3 DEF MessageSent, AutoReplySent, SendFailed, Stages
    <3>4. CASE ResponseFailed(m)
      BY <3>4 DEF ResponseFailed, Stages, Sending
    <3> QED BY <1>5, <3>1, <3>2, <3>3, <3>4
  <2> QED BY <1>0, <1>3, <2>1, <2>2
<1>6. CASE Tick
  <2>1. now' = now + 1 /\ UNCHANGED <<stage, timer, checkedAt>>
    BY <1>6 DEF Tick, replyVars
  <2> QED BY <1>0, <2>1 DEF TimerInv
<1>7. CASE UNCHANGED vars
  BY <1>3, <1>7 DEF vars
<1> QED BY <1>1, <1>2, <1>4, <1>5, <1>6, <1>7 DEF Next, Handle

\* For any messages, delays and outboxes, every handler that waits for a timer or
\* a send has one.
THEOREM NoHandlerStranded == Spec => []HandlersHeld
<1>1. Init => OutboxInv /\ TimerInv
  <2> SUFFICES ASSUME Init PROVE OutboxInv /\ TimerInv
    OBVIOUS
  <2>1. \A a \in Accounts : Awaiting(a) = {} /\ outbox[a] = <<>>
    BY DEF Init, Awaiting, Sending
  <2>2. QueueOf(<<>>, {})
    BY DEF QueueOf
  <2>3. now = 1 /\ \A m \in Msgs : stage[m] = "new"
    BY DEF Init
  <2>4. OutboxInv
    BY <2>1, <2>2 DEF OutboxInv
  <2>5. TimerInv
    BY <2>3 DEF TimerInv
  <2> QED BY <2>4, <2>5
<1>2. OutboxInv /\ TimerInv => HandlersHeld
  <2> SUFFICES ASSUME OutboxInv, TimerInv, NEW m \in Msgs, stage[m] \in Sending
               PROVE  \E i \in 1..Len(outbox[AccountOf[m]]) : outbox[AccountOf[m]][i] = m
    BY DEF HandlersHeld, TimerInv
  <2>1. AccountOf[m] \in Accounts /\ m \in Awaiting(AccountOf[m])
    BY GatewayAssumption DEF Awaiting
  <2> QED BY <2>1 DEF OutboxInv, QueueOf
<1>3. TypeOK /\ OutboxInv /\ TimerInv /\ [Next]_vars => (OutboxInv /\ TimerInv)'
  BY OutboxNext, TimerNext
<1> QED BY <1>1, <1>2, <1>3, GatewayTypeCorrect, PTL DEF Spec
=============================================================================
