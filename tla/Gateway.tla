------------------------------ MODULE Gateway ------------------------------
(***************************************************************************)
(* Gateway.handleMessage: what happens to an inbound message between the   *)
(* adapter that received it and the adapter that answers it.  Every await  *)
(* (the import of the pipeline store, the bot, the outbound limiter) and   *)
(* the auto-reply timer is a stage of the message, so that the messages of *)
(* all accounts interleave there.                                          *)
(*                                                                         *)
(* The rate limiter is the module RateLimiter.  The outbound limiter of an *)
(* account is what PacedChannel promises of it: a send is refused at once  *)
(* or queued, and queued sends settle in order, sent or failed.            *)
(***************************************************************************)
EXTENDS RateLimiter, Sequences

CONSTANTS
  Accounts,           \* the registered adapters, one per platform:account
  AccountOf,          \* [Msgs -> Accounts]: the adapter that received it
  readOnly,           \* the global switch
  ReadOnlyAccounts,   \* accounts whose permissions have canWrite false
  Routes,             \* sequence of [matches: set of messages, target: bot name]
  DefaultRoute,
  Bots,               \* names in the bot registry
  Replyable,          \* live text messages of somebody else (gates 2 to 5)
  GroupChats,         \* the messages sent to a group
  ChannelOf,          \* [Msgs -> channels]
  enabled, dmOnly, allowGroups, allowContacts,   \* the auto-reply settings
  cooldown, dailyCap,
  MinDelay, MaxDelay, \* the random delay of an auto-reply
  MaxTime             \* time does not pass MaxTime unless a timer is pending

ASSUME GatewayAssumption ==
  /\ AccountOf \in [Msgs -> Accounts]
  /\ ReadOnlyAccounts \subseteq Accounts
  /\ {readOnly, enabled, dmOnly} \subseteq BOOLEAN
  /\ {cooldown, dailyCap, MinDelay, MaxDelay, MaxTime} \subseteq Nat
  /\ MinDelay <= MaxDelay

VARIABLES
  stage,          \* where the handler of each message is
  outbox,         \* [Accounts -> Seq(Msgs)]: sends the outbound limiter accepted
  timer,          \* when the auto-reply of a message is due
  confirmed,      \* the kinds of answer to a message whose send resolved
  unconfirmed,    \* those that reach its chat although their send rejected
  stored,         \* messages handed to the ingest hook and to PostgreSQL
  turns,          \* what a message added to its session
  recorded,       \* outcomes recorded for a message (alerts and analytics)
  autoReplyLog,   \* [Senders -> time of the last auto-reply, 0 for none]
  autoReplyCount,
  checkedAt,      \* when a message passed the safety gates (for properties)
  repliedAt       \* when its auto-reply was recorded (for properties)

vars == <<now, limiterVars, stage, outbox, timer, confirmed, unconfirmed, stored, turns,
          recorded, autoReplyLog, autoReplyCount, checkedAt, repliedAt>>

answerVars == <<confirmed, unconfirmed>>
replyVars == <<timer, autoReplyLog, autoReplyCount, checkedAt, repliedAt>>

\* Stages in which the handler awaits the outbound limiter, named for what
\* it sends: the slow-down notice, the auto-reply, the bot's response and
\* the degradation message.
Sending == {"notice", "autoReply", "response", "degradation"}
Stages == {"new", "storing", "timer", "bot", "done"} \cup Sending

-----------------------------------------------------------------------------
Init ==
  /\ now = 1
  /\ LimiterInit
  /\ stage = [m \in Msgs |-> "new"]
  /\ outbox = [a \in Accounts |-> <<>>]
  /\ timer = [m \in Msgs |-> 0]
  /\ confirmed = [m \in Msgs |-> {}]
  /\ unconfirmed = [m \in Msgs |-> {}]
  /\ stored = {}
  /\ turns = [m \in Msgs |-> {}]
  /\ recorded = [m \in Msgs |-> {}]
  /\ autoReplyLog = [s \in Senders |-> 0]
  /\ autoReplyCount = 0
  /\ checkedAt = [m \in Msgs |-> 0]
  /\ repliedAt = [m \in Msgs |-> 0]

\* Faulty: only the global switch is looked at.
isGloballyReadOnly(m) == readOnly

isAccountReadOnly(m) == readOnly \/ AccountOf[m] \in ReadOnlyAccounts

\* First matching route wins, otherwise the default route.
routeMessage(m) ==
  LET hits == {i \in DOMAIN Routes : m \in Routes[i].matches}
  IN  IF hits = {} THEN DefaultRoute
      ELSE Routes[CHOOSE i \in hits : \A j \in hits : i <= j].target

HasBot(m) == routeMessage(m) \in Bots

\* limiter.send called by the handler of m: the send is accepted and m
\* waits in stage kind, or it is refused on a cap and m goes to stage other.
sendOutboundMessage(m, kind, other) ==
  \/ /\ outbox' = [outbox EXCEPT ![AccountOf[m]] = Append(@, m)]
     /\ stage' = [stage EXCEPT ![m] = kind]
  \/ /\ UNCHANGED outbox
     /\ stage' = [stage EXCEPT ![m] = other]

-----------------------------------------------------------------------------
(* Gates 6 to 8 of checkAutoReplySafety.                                   *)

AllowedChat(m) ==
  IF m \in GroupChats
  THEN ~dmOnly /\ ChannelOf[m] \in allowGroups
  ELSE /\ allowContacts # {} => SenderOf[m] \in allowContacts
       /\ allowContacts # {} \/ allowGroups # {}

\* Faulty: the cooldown ends one tick early.
CooledDownEarly(s) ==
  autoReplyLog[s] = 0 \/ now - autoReplyLog[s] >= cooldown - 1

CooledDown(s) == autoReplyLog[s] = 0 \/ now - autoReplyLog[s] >= cooldown

BelowCap == autoReplyCount < dailyCap

checkAutoReplySafety(m) ==
  /\ enabled
  /\ m \in Replyable
  /\ AllowedChat(m)
  /\ CooledDown(SenderOf[m])
  /\ BelowCap

-----------------------------------------------------------------------------
\* handleMessage up to the import of the pipeline store, on either path.
ReceiveReadOnly(m) ==
  /\ stage[m] = "new"
  /\ isAccountReadOnly(m)
  /\ stage' = [stage EXCEPT ![m] = "storing"]
  /\ UNCHANGED <<now, limiterVars, outbox, answerVars, stored, turns, recorded, replyVars>>

ReceiveAllowed(m) ==
  /\ stage[m] = "new"
  /\ ~isAccountReadOnly(m)
  /\ checkAllowed(m)
  /\ stage' = [stage EXCEPT ![m] = "storing"]
  /\ UNCHANGED <<now, outbox, answerVars, stored, turns, recorded, replyVars>>

\* The handler answers that the sender is too fast, and awaits the send.
ReceiveRefused(m) ==
  /\ stage[m] = "new"
  /\ ~isAccountReadOnly(m)
  /\ checkRefused(m)
  /\ sendOutboundMessage(m, "notice", "done")
  /\ UNCHANGED <<now, answerVars, stored, turns, recorded, replyVars>>

\* The pipeline store is imported and called; read-only handling ends here.
StoreReadOnly(m) ==
  /\ stage[m] = "storing"
  /\ isAccountReadOnly(m)
  /\ stored' = stored \cup {m}
  /\ stage' = [stage EXCEPT ![m] = "done"]
  /\ UNCHANGED <<now, limiterVars, outbox, answerVars, turns, recorded, replyVars>>

\* Routed to a bot: the session is resumed and the bot called.
StoreAndAsk(m) ==
  /\ stage[m] = "storing"
  /\ ~isAccountReadOnly(m)
  /\ HasBot(m)
  /\ stored' = stored \cup {m}
  /\ turns' = [turns EXCEPT ![m] = @ \cup {"user"}]
  /\ stage' = [stage EXCEPT ![m] = "bot"]
  /\ UNCHANGED <<now, limiterVars, outbox, answerVars, recorded, replyVars>>

\* No bot: the auto-reply timer is set when every safety gate lets m pass.
StoreAndSchedule(m) ==
  /\ stage[m] = "storing"
  /\ ~isAccountReadOnly(m)
  /\ ~HasBot(m)
  /\ checkAutoReplySafety(m)
  /\ stored' = stored \cup {m}
  /\ stage' = [stage EXCEPT ![m] = "timer"]
  /\ checkedAt' = [checkedAt EXCEPT ![m] = now]
  /\ \E d \in MinDelay..MaxDelay : timer' = [timer EXCEPT ![m] = now + d]
  /\ UNCHANGED <<now, limiterVars, outbox, answerVars, turns, recorded,
                 autoReplyLog, autoReplyCount, repliedAt>>

StoreAndDrop(m) ==
  /\ stage[m] = "storing"
  /\ ~isAccountReadOnly(m)
  /\ ~HasBot(m)
  /\ ~checkAutoReplySafety(m)
  /\ stored' = stored \cup {m}
  /\ stage' = [stage EXCEPT ![m] = "done"]
  /\ UNCHANGED <<now, limiterVars, outbox, answerVars, turns, recorded, replyVars>>

\* Faulty: a timer that is served late does not fire.
TimerFiresOnTheDot(m) ==
  /\ stage[m] = "timer"
  /\ now = timer[m]
  /\ timer' = [timer EXCEPT ![m] = 0]
  /\ sendOutboundMessage(m, "autoReply", "done")
  /\ UNCHANGED <<now, limiterVars, answerVars, stored, turns, recorded,
                 autoReplyLog, autoReplyCount, checkedAt, repliedAt>>

TimerFires(m) ==
  /\ stage[m] = "timer"
  /\ now >= timer[m]
  /\ timer' = [timer EXCEPT ![m] = 0]
  /\ sendOutboundMessage(m, "autoReply", "done")
  /\ UNCHANGED <<now, limiterVars, answerVars, stored, turns, recorded,
                 autoReplyLog, autoReplyCount, checkedAt, repliedAt>>

\* The bot answers: the session and the monitors hear of it before the send.
BotAnswers(m) ==
  /\ stage[m] = "bot"
  /\ turns' = [turns EXCEPT ![m] = @ \cup {"assistant"}]
  /\ recorded' = [recorded EXCEPT ![m] = @ \cup {"success"}]
  /\ outbox' = [outbox EXCEPT ![AccountOf[m]] = Append(@, m)]
  /\ stage' = [stage EXCEPT ![m] = "response"]
  /\ UNCHANGED <<now, limiterVars, answerVars, stored, replyVars>>

\* The limiter refuses the response, which the catch takes for a failure.
BotAnswerRefused(m) ==
  /\ stage[m] = "bot"
  /\ turns' = [turns EXCEPT ![m] = @ \cup {"assistant"}]
  /\ recorded' = [recorded EXCEPT ![m] = @ \cup {"success", "failure"}]
  /\ sendOutboundMessage(m, "degradation", "done")
  /\ UNCHANGED <<now, limiterVars, answerVars, stored, replyVars>>

BotFails(m) ==
  /\ stage[m] = "bot"
  /\ recorded' = [recorded EXCEPT ![m] = @ \cup {"failure"}]
  /\ sendOutboundMessage(m, "degradation", "done")
  /\ UNCHANGED <<now, limiterVars, answerVars, stored, turns, replyVars>>

-----------------------------------------------------------------------------
(* The outbound limiter settles its oldest send, and the handler that      *)
(* awaited it goes on.                                                     *)

IsNext(m) == outbox[AccountOf[m]] # <<>> /\ Head(outbox[AccountOf[m]]) = m

Settled(m) == outbox' = [outbox EXCEPT ![AccountOf[m]] = Tail(@)]

\* Faulty: a hook that throws after the send sends the handler to its catch.
MessageSentHookThrows(m) ==
  /\ IsNext(m)
  /\ stage[m] \in Sending \ {"autoReply"}
  /\ confirmed' = [confirmed EXCEPT ![m] = @ \cup {stage[m]}]
  /\ IF stage[m] = "response"
     THEN /\ outbox' = [outbox EXCEPT ![AccountOf[m]] = Append(Tail(@), m)]
          /\ stage' = [stage EXCEPT ![m] = "degradation"]
     ELSE Settled(m) /\ stage' = [stage EXCEPT ![m] = "done"]
  /\ UNCHANGED <<now, limiterVars, unconfirmed, stored, turns, recorded, replyVars>>

MessageSent(m) ==
  /\ IsNext(m)
  /\ stage[m] \in Sending \ {"autoReply"}
  /\ confirmed' = [confirmed EXCEPT ![m] = @ \cup {stage[m]}]
  /\ Settled(m)
  /\ stage' = [stage EXCEPT ![m] = "done"]
  /\ UNCHANGED <<now, limiterVars, unconfirmed, stored, turns, recorded, replyVars>>

\* Only now, with the reply sent, is the cooldown started and the cap charged.
AutoReplySent(m) ==
  /\ IsNext(m)
  /\ stage[m] = "autoReply"
  /\ confirmed' = [confirmed EXCEPT ![m] = @ \cup {"autoReply"}]
  /\ Settled(m)
  /\ stage' = [stage EXCEPT ![m] = "done"]
  /\ autoReplyLog' = [autoReplyLog EXCEPT ![SenderOf[m]] = now]
  /\ autoReplyCount' = autoReplyCount + 1
  /\ repliedAt' = [repliedAt EXCEPT ![m] = now]
  /\ UNCHANGED <<now, limiterVars, unconfirmed, stored, turns, recorded, timer, checkedAt>>

\* sendText rejects.  The platform may have sent the message, or do so later,
\* all the same: Signal's RPC is given up after 10 s, and an answer to it that
\* is empty or no JSON counts as a failure.
Rejected(m) ==
  /\ unconfirmed' \in {unconfirmed, [unconfirmed EXCEPT ![m] = @ \cup {stage[m]}]}
  /\ UNCHANGED confirmed

SendFailed(m) ==
  /\ IsNext(m)
  /\ stage[m] \in Sending \ {"response"}
  /\ Settled(m)
  /\ Rejected(m)
  /\ stage' = [stage EXCEPT ![m] = "done"]
  /\ UNCHANGED <<now, limiterVars, stored, turns, recorded, replyVars>>

\* The send of the response rejects: the catch records a failure and sends the
\* degradation message, also when the response has reached the chat.
ResponseFailed(m) ==
  /\ IsNext(m)
  /\ stage[m] = "response"
  /\ Rejected(m)
  /\ recorded' = [recorded EXCEPT ![m] = @ \cup {"failure"}]
  /\ \/ /\ outbox' = [outbox EXCEPT ![AccountOf[m]] = Append(Tail(@), m)]
        /\ stage' = [stage EXCEPT ![m] = "degradation"]
     \/ /\ Settled(m)
        /\ stage' = [stage EXCEPT ![m] = "done"]
  /\ UNCHANGED <<now, limiterVars, stored, turns, replyVars>>

-----------------------------------------------------------------------------
Tick ==
  /\ now < MaxTime \/ \E m \in Msgs : stage[m] = "timer" /\ now < timer[m]
  /\ now' = now + 1
  /\ UNCHANGED <<limiterVars, stage, outbox, answerVars, stored, turns, recorded,
                 replyVars>>

Receive(m) == ReceiveReadOnly(m) \/ ReceiveAllowed(m) \/ ReceiveRefused(m)

\* What the event loop, the bots and the outbound limiters do for a message.
Handle(m) ==
  \/ StoreReadOnly(m)
  \/ StoreAndAsk(m)
  \/ StoreAndSchedule(m)
  \/ StoreAndDrop(m)
  \/ TimerFires(m)
  \/ BotAnswers(m)
  \/ BotAnswerRefused(m)
  \/ BotFails(m)
  \/ MessageSent(m)
  \/ AutoReplySent(m)
  \/ SendFailed(m)
  \/ ResponseFailed(m)

Next ==
  \/ \E m \in Msgs : Receive(m) \/ Handle(m)
  \/ Tick

Spec == Init /\ [][Next]_vars

\* Timers and settled promises are served, the bot call returns (the runtime
\* gives up after its turns and its provider's timeout), and an accepted send
\* is settled (EverySendSettles of OutboundLimiter).
Fairness == WF_vars(Tick) /\ \A m \in Msgs : WF_vars(Handle(m))

FairSpec == Spec /\ Fairness

-----------------------------------------------------------------------------
TypeOK ==
  /\ now \in Nat
  /\ LimiterTypeOK
  /\ stage \in [Msgs -> Stages]
  /\ outbox \in [Accounts -> Seq(Msgs)]
  /\ timer \in [Msgs -> Nat]
  /\ confirmed \in [Msgs -> SUBSET Sending]
  /\ unconfirmed \in [Msgs -> SUBSET Sending]
  /\ stored \subseteq {m \in Msgs : stage[m] \notin {"new", "storing"}}
  /\ turns \in [Msgs -> SUBSET {"user", "assistant"}]
  /\ recorded \in [Msgs -> SUBSET {"success", "failure"}]
  /\ autoReplyLog \in [Senders -> Nat]
  /\ autoReplyCount \in Nat
  /\ checkedAt \in [Msgs -> Nat]
  /\ repliedAt \in [Msgs -> Nat]

\* Nothing is sent, scheduled or asked of a bot for a message of a read-only
\* account (the read-only fast path: zero outbound signals of any kind).
ReadOnlySilent ==
  \A m \in Msgs : readOnly \/ AccountOf[m] \in ReadOnlyAccounts =>
    /\ stage[m] \in {"new", "storing", "done"}
    /\ confirmed[m] = {} /\ unconfirmed[m] = {}
    /\ m \notin passed

\* A chat gets at most one answer to a message, whichever of the bot, the
\* limiter and the platform fails, with one exception that the code cannot
\* exclude: a response whose send rejected although it arrived is followed by
\* the degradation message.  No message is answered while it waits in the
\* outbox of another account or twice in one.  And alerts and analytics agree
\* with what the gateway was told: a message that a bot was asked about has a
\* failure recorded exactly if its handler is through without a confirmed
\* response, or is sending the degradation message.
AnsweredOnce ==
  \A m \in Msgs :
    LET answers == confirmed[m] \cup unconfirmed[m]
    IN /\ confirmed[m] \cap unconfirmed[m] = {}
       /\ \/ Cardinality(answers) <= 1
          \/ answers = {"response", "degradation"} /\ "response" \in unconfirmed[m]
       /\ answers # {} =>
            \/ stage[m] = "done"
            \/ stage[m] = "degradation" /\ unconfirmed[m] = {"response"}
       /\ stage[m] \in Sending =>
            Cardinality({p \in Accounts \X (1..Cardinality(Msgs)) :
                           p[2] <= Len(outbox[p[1]]) /\ outbox[p[1]][p[2]] = m}) = 1
       /\ "user" \in turns[m] =>
            ("failure" \in recorded[m] <=>
               \/ stage[m] = "degradation"
               \/ stage[m] = "done" /\ "response" \notin confirmed[m])

\* The messages whose auto-reply the code knows to be sent: one that arrived
\* though its send rejected starts no cooldown and is not counted.
AutoReplied == {m \in Msgs : "autoReply" \in confirmed[m]}

\* Cooldown and cap are read when the message arrives; the cooldown starts
\* and the count goes up when its reply is sent, up to 15 seconds and a queue
\* later.  So after an auto-reply to a contact no other is scheduled for a
\* cooldown, but one that was scheduled before may still follow; and every
\* reply was scheduled while fewer than dailyCap replies had been sent.
AutoRepliesBounded ==
  \A n \in AutoReplied :
    LET before == {m \in AutoReplied : repliedAt[m] < checkedAt[n]}
    IN /\ Cardinality(before) < dailyCap
       /\ \A m \in before :
            SenderOf[m] = SenderOf[n] => checkedAt[n] >= repliedAt[m] + cooldown

\* Every received message is dealt with, whatever fails on the way: as done
\* is for good, it is enough that the gateway always comes to rest again.
EveryMessageHandled == []<>(\A m \in Msgs : stage[m] \in {"new", "done"})

=============================================================================
