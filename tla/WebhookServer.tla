--------------------------- MODULE WebhookServer ---------------------------
(***************************************************************************)
(* The REST surface (webhook-server.ts) as bin/exe-gateway.ts wires it:    *)
(* calls of the API and webhooks of the platforms arrive concurrently, are *)
(* authorized, resolved to an account and sent or handled, while shutdown  *)
(* may run.  An account has two outbound limiters, one of this server and  *)
(* one of the gateway that answers what a webhook brought; each is taken   *)
(* as what OutboundLimiter is shown to implement: a first-in first-out     *)
(* channel with a least delay between sends, which may refuse at its cap.  *)
(***************************************************************************)
EXTENDS Integers, Sequences, FiniteSets, SequencesExt

CONSTANTS
  Calls,              \* HTTP requests
  Asks,               \* [Calls -> SUBSET Ask]: what each request may be
  Registered,         \* the configured accounts in the order of their registration
  readOnly,           \* config.readOnly
  authTokenHash,      \* BOOLEAN: a token is configured
  signatureSecrets,   \* the platforms with a configured webhook secret
  dbAvailable,        \* conversation storage is there
  Cap,                \* sends of a limiter until it refuses
  MinDelay,           \* least time between two sends of a limiter
  MaxTime             \* time does not pass MaxTime

Accounts == {<<a.platform, a.name>> : a \in ToSet(Registered)}
Ask == [route : {"send", "webhook", "query", "socket", "limits", "open", "challenge",
                   "inbound", "none"},
        platform : STRING, account : STRING, bearer : BOOLEAN,
        signature : {"none", "wrong", "valid"}]

ASSUME WebhookAssumption == MinDelay \in Nat /\ Asks \in [Calls -> SUBSET Ask]

VARIABLES
  now,
  process,            \* "up", then shutdown(): "disconnected", "closed", "exited"
  call,               \* [Calls -> [pc, ask, via, status]]
  limiter,            \* [Accounts \X Sides -> [queue, sends]]
  sent,               \* what the platforms confirmed, in order: [call, via, at]
  unconfirmed         \* the calls whose message went out although no send resolved

outcomes == <<sent, unconfirmed>>
vars == <<now, process, call, limiter, outcomes>>

Sides == {"api", "gateway"}
Limiters == Accounts \X Sides
NoAccount == <<"none", "none">>
Reset == -1           \* the connection was closed without an answer
NoAsk == [route |-> "none", platform |-> "none", account |-> "none",
          bearer |-> FALSE, signature |-> "none"]

Init ==
  /\ now = 0
  /\ process = "up"
  /\ call = [c \in Calls |-> [pc |-> "new", ask |-> NoAsk, via |-> NoAccount, status |-> 0]]
  /\ limiter = [l \in Limiters |-> [queue |-> <<>>, sends |-> <<>>]]
  /\ sent = <<>>
  /\ unconfirmed = {}

-----------------------------------------------------------------------------
(* Wiring: onPlatform and registerAdapter for each account, in order.      *)

\* onPlatform keeps one handler per platform, that of the last account.
handlers(platform) ==
  LET ofPlatform == SelectSeq(Registered, LAMBDA a : a.platform = platform)
  IN IF ofPlatform = <<>> THEN NoAccount
     ELSE <<platform, ofPlatform[Len(ofPlatform)].name>>

\* platformConfigs: only WhatsApp accounts keep their own readOnly; the generic
\* webhook may never write.
canWrite(account) ==
  /\ ~readOnly
  /\ account[1] # "webhook"
  /\ \A i \in DOMAIN Registered :
       ~ /\ account = <<"whatsapp", Registered[i].name>>
         /\ Registered[i].platform = "whatsapp"
         /\ Registered[i].readOnly

\* resolveOutbound: the account asked for, the default one, or the only one.
resolveOutbound(q) ==
  LET ofPlatform == {a \in Accounts : a[1] = q.platform}
  IN IF q.account # "none"
     THEN ofPlatform \cap {<<q.platform, q.account>>}
     ELSE IF <<q.platform, "default">> \in ofPlatform
          THEN {<<q.platform, "default">>}
          ELSE {a \in ofPlatform : ofPlatform = {a}}

\* verifyAuth; without a configured token every call is let through.
Authorized(q) == authTokenHash => q.bearer

\* What the check of a platform's signature says of the headers and the body.
verifySignature(q) ==
  IF q.platform \notin signatureSecrets THEN 503
  ELSE IF q.signature = "valid" THEN 200 ELSE 401

\* verifyWebhookRequest: three platforms sign, the others use the API's token.
verifyWebhookRequest(q) ==
  IF q.platform \in {"whatsapp", "telegram", "discord"} THEN verifySignature(q)
  ELSE IF Authorized(q) THEN 200 ELSE 401

\* The challenge of WhatsApp is answered to who knows the verify token.
verificationStatus(q) == IF q.signature = "valid" THEN 200 ELSE 403

-----------------------------------------------------------------------------
(* Requests.                                                               *)

Listening == process \in {"up", "disconnected"}

\* Call c is over; an answer reaches a client that has none yet.
answer(c, status) ==
  call' = [call EXCEPT ![c].pc = "end", ![c].status = IF @ = 0 THEN status ELSE @]

\* handleRequest up to the first await: the route, its authorization, and for
\* /api/send the read-only switch.  What needs no body is answered at once.
Arrive(c, q) ==
  LET Received(pc, status) ==
        call' = [call EXCEPT ![c] = [pc |-> pc, ask |-> q, via |-> NoAccount, status |-> status]]
  IN /\ Listening
     /\ call[c].pc = "new"
     /\ \/ q.route = "none" /\ Received("end", 404)
        \/ q.route = "open" /\ Received("end", 200)
        \/ q.route = "challenge" /\ Received("end", verificationStatus(q))
        \/ q.route = "webhook" /\ handlers(q.platform) = NoAccount /\ Received("end", 200)
        \/ q.route = "webhook" /\ handlers(q.platform) # NoAccount /\ Received("reading", 0)
        \/ q.route \in {"send", "query", "socket", "limits"} /\ ~Authorized(q) /\ Received("end", 401)
        \/ q.route = "send" /\ Authorized(q) /\ readOnly /\ Received("end", 403)
        \/ q.route = "send" /\ Authorized(q) /\ ~readOnly /\ Received("reading", 0)
        \/ q.route = "limits" /\ Authorized(q) /\ Received("end", 200)
        \/ q.route = "query" /\ Authorized(q) /\ ~dbAvailable /\ Received("end", 503)
        \/ q.route = "query" /\ Authorized(q) /\ dbAvailable /\ Received("asking", 0)
        \/ q.route = "socket" /\ Authorized(q) /\ resolveOutbound(q) = {} /\ Received("end", 400)
        \/ q.route = "socket" /\ Authorized(q) /\ resolveOutbound(q) # {} /\ Received("asking", 0)
     /\ UNCHANGED <<now, process, limiter, outcomes>>

\* The database or the WhatsApp socket answers, has no such row, or fails.
QueryAnswered(c, status) ==
  /\ call[c].pc = "asking"
  /\ answer(c, status)
  /\ UNCHANGED <<now, process, limiter, outcomes>>

\* The body was too large, broken off or no JSON, or lacks "to" or "text".
BadBody(c) ==
  /\ call[c].pc = "reading"
  /\ \E status \in {200, 400, 500} :
       /\ status = 200 <=> call[c].ask.route = "webhook"
       /\ answer(c, status)
  /\ UNCHANGED <<now, process, limiter, outcomes>>

\* Call c joins the queue of limiter l.
enqueue(c, l) ==
  /\ limiter' = [limiter EXCEPT ![l].queue = Append(@, c)]
  /\ call' = [call EXCEPT ![c].pc = "queued", ![c].via = l[1]]

\* handleApiSend after the body: 400 without an account, 429 at the cap.
ResolveFails(c) ==
  /\ call[c].pc = "reading" /\ call[c].ask.route = "send"
  /\ resolveOutbound(call[c].ask) = {}
  /\ answer(c, 400)
  /\ UNCHANGED <<now, process, limiter, outcomes>>

AtCap(l) == Len(limiter[l].sends) >= Cap

LimitReached(c) ==
  /\ call[c].pc = "reading" /\ call[c].ask.route = "send"
  /\ \E a \in resolveOutbound(call[c].ask) : AtCap(<<a, "api">>)
  /\ answer(c, 429)
  /\ UNCHANGED <<now, process, limiter, outcomes>>

SendRequested(c) ==
  /\ call[c].pc = "reading" /\ call[c].ask.route = "send"
  /\ \E a \in resolveOutbound(call[c].ask) :
       /\ ~AtCap(<<a, "api">>)
       /\ enqueue(c, <<a, "api">>)
  /\ UNCHANGED <<now, process, outcomes>>

\* handleWebhookPost after the body: refused, or answered 200 and then handled
\* by the adapter of the platform's handler.
WebhookRefused(c) ==
  LET status == verifyWebhookRequest(call[c].ask)
  IN /\ call[c].pc = "reading" /\ call[c].ask.route = "webhook"
     /\ status # 200
     /\ answer(c, status)
     /\ UNCHANGED <<now, process, limiter, outcomes>>

WebhookAcknowledged(c) ==
  /\ call[c].pc = "reading" /\ call[c].ask.route = "webhook"
  /\ verifyWebhookRequest(call[c].ask) = 200
  /\ call' = [call EXCEPT ![c].pc = "handling", ![c].status = 200,
                          ![c].via = handlers(call[c].ask.platform)]
  /\ UNCHANGED <<now, process, limiter, outcomes>>

\* A message of the account arrives over the adapter's own connection.
Inbound(c, q) ==
  /\ process = "up"
  /\ call[c].pc = "new"
  /\ q.route = "inbound"
  /\ call' = [call EXCEPT ![c] = [pc |-> "handling", ask |-> q, status |-> 200,
                                  via |-> <<q.platform, q.account>>]]
  /\ UNCHANGED <<now, process, limiter, outcomes>>

\* WhatsApp's injectMessage ignores what a webhook brings.
Ignored(c) ==
  /\ call[c].pc = "handling"
  /\ call[c].ask.route = "webhook" /\ call[c].via[1] = "whatsapp"
  /\ answer(c, 200)
  /\ UNCHANGED <<now, process, limiter, outcomes>>

\* The gateway has handled the message that was brought: nothing is to be answered, the
\* account may not write, the limiter refuses, the handler threw, or the bot's
\* answer joins the queue of the gateway's own limiter.
Handled(c) ==
  /\ call[c].pc = "handling"
  /\ call[c].ask.route = "webhook" => call[c].via[1] # "whatsapp"
  /\ \/ /\ answer(c, 200)
        /\ UNCHANGED limiter
     \/ /\ canWrite(call[c].via)
        /\ ~AtCap(<<call[c].via, "gateway">>)
        /\ enqueue(c, <<call[c].via, "gateway">>)
  /\ UNCHANGED <<now, process, outcomes>>

\* Faulty: the delay is a tick too short.
PacedShort(l) == \A i \in DOMAIN limiter[l].sends : now >= limiter[l].sends[i] + MinDelay - 1

\* The least delay since the last send of the limiter is over.
Paced(l) == \A i \in DOMAIN limiter[l].sends : now >= limiter[l].sends[i] + MinDelay

\* adapter.sendText for the head of a limiter's queue succeeds.
Send(l) ==
  /\ limiter[l].queue # <<>>
  /\ Paced(l)
  /\ process # "exited"
  /\ limiter' = [limiter EXCEPT ![l] = [queue |-> Tail(@.queue), sends |-> Append(@.sends, now)]]
  /\ sent' = Append(sent, [call |-> Head(limiter[l].queue), via |-> l[1], at |-> now])
  /\ answer(Head(limiter[l].queue), 200)
  /\ UNCHANGED <<now, process, unconfirmed>>

\* Faulty: the error is logged and the call answered as sent.
SendFailsSilently(l) ==
  /\ process # "exited"
  /\ limiter[l].queue # <<>>
  /\ Paced(l)
  /\ limiter' = [limiter EXCEPT ![l].queue = Tail(@)]
  /\ answer(Head(limiter[l].queue), 200)
  /\ UNCHANGED <<now, process, outcomes>>

\* sendText throws, as most do once the adapters are disconnected: 500.  The
\* message may be out all the same, as when the daemon's answer to "send" comes
\* after 10 s or cannot be read (signal.ts:183).  An error that speaks of a limit
\* reached is answered 429; it is taken for the platform's refusal.  The limiter
\* records no send.
SendFails(l) ==
  LET c == Head(limiter[l].queue)
  IN /\ process # "exited"
     /\ limiter[l].queue # <<>>
     /\ Paced(l)
     /\ limiter' = [limiter EXCEPT ![l].queue = Tail(@)]
     /\ \/ answer(c, 500) /\ unconfirmed' \in {unconfirmed, unconfirmed \cup {c}}
        \/ answer(c, 429) /\ UNCHANGED unconfirmed
     /\ UNCHANGED <<now, process, sent>>

-----------------------------------------------------------------------------
(* shutdown(): gateway.stop, server.stop, then the process ends.           *)

StopGateway ==
  /\ process = "up"
  /\ process' = "disconnected"
  /\ UNCHANGED <<now, call, limiter, outcomes>>

\* Faulty: connections are left as they are.
StopServerOnly ==
  /\ process = "disconnected"
  /\ process' = "closed"
  /\ UNCHANGED <<now, call, limiter, outcomes>>

\* The calls whose message may be with its platform already.
UnderWay ==
  {c \in Calls : \E l \in Limiters :
     limiter[l].queue # <<>> /\ Paced(l) /\ Head(limiter[l].queue) = c}

\* closeAllConnections: who has no answer yet will not get one.
StopServer ==
  /\ process = "disconnected"
  /\ process' = "closed"
  /\ call' = [c \in Calls |-> IF call[c].pc # "new" /\ call[c].status = 0
                              THEN [call[c] EXCEPT !.status = Reset] ELSE call[c]]
  /\ UNCHANGED <<now, limiter, outcomes>>

\* A send that was under way then may reach its platform.
Exit ==
  /\ process = "closed"
  /\ process' = "exited"
  /\ call' = [c \in Calls |-> IF call[c].pc # "new"
                              THEN [call[c] EXCEPT !.pc = "end"] ELSE call[c]]
  /\ limiter' = [l \in DOMAIN limiter |-> [queue |-> <<>>, sends |-> limiter[l].sends]]
  /\ \E onTheWay \in SUBSET UnderWay : unconfirmed' = unconfirmed \cup onTheWay
  /\ UNCHANGED <<now, sent>>

Tick ==
  /\ now < MaxTime \/ \E l \in Limiters : limiter[l].queue # <<>> /\ ~Paced(l)
  /\ now' = now + 1
  /\ UNCHANGED <<process, call, limiter, outcomes>>

Handler(c) ==
  \/ BadBody(c) \/ ResolveFails(c) \/ LimitReached(c) \/ SendRequested(c)
  \/ WebhookRefused(c) \/ WebhookAcknowledged(c) \/ Ignored(c) \/ Handled(c)
  \/ \E status \in {200, 404, 500} : QueryAnswered(c, status)

LimiterRuns(l) == Send(l) \/ SendFails(l)

Next ==
  \/ \E c \in Calls : \E q \in Asks[c] : Arrive(c, q) \/ Inbound(c, q)
  \/ \E c \in Calls : Handler(c)
  \/ \E l \in Limiters : LimiterRuns(l)
  \/ StopGateway \/ StopServer \/ Exit
  \/ Tick

Spec == Init /\ [][Next]_vars

\* The server answers bodies that were sent, the database and the platforms
\* answer in the end, the limiters' timers fire.  Nothing makes clients call or
\* the process stop.
Fairness ==
  /\ \A c \in Calls : WF_vars(Handler(c))
  /\ \A l \in Limiters : WF_vars(LimiterRuns(l))
  /\ WF_vars(Tick)

FairSpec == Spec /\ Fairness

-----------------------------------------------------------------------------
Deliveries(c) == {i \in DOMAIN sent : sent[i].call = c}

\* The status of /api/send tells what the gateway knows (webhook-server.ts:460-535):
\* 200 that the message went out through the account that was asked for, 4xx
\* that nothing went out, and 500 that nothing was confirmed: the message may be
\* out.  In no case does it go out twice, whatever waited in which queue
\* meanwhile and whichever send rejected after it was carried out.
AnswerTellsOutcome ==
  \A c \in Calls :
    LET q == call[c].ask
    IN /\ Cardinality(Deliveries(c)) <= (IF c \in unconfirmed THEN 0 ELSE 1)
       /\ q.route = "send" /\ call[c].status = 200 =>
            \E i \in Deliveries(c) : sent[i].via \in resolveOutbound(q)
       /\ call[c].status >= 400 => Deliveries(c) = {}
       /\ call[c].status \in 400..499 => c \notin unconfirmed

\* The two limiters of an account (webhook-server.ts:115, gateway.ts:141) let
\* at most two messages out within the least delay, not the one of README.md:21
\* ("Each account gets its own session and rate limiter"): the first and the
\* third of any three are that far apart.  Only sends that resolved count: what
\* went out by a rejecting one is not recorded and delays nothing.
PacedByTwo ==
  \A i, j, k \in DOMAIN sent :
    i < j /\ j < k /\ sent[i].via = sent[j].via /\ sent[j].via = sent[k].via =>
      sent[k].at >= sent[i].at + MinDelay

\* Whoever calls gets an answer or a closed connection, also when the process is
\* shut down while the message waits in a limiter's queue.
EveryCallAnswered ==
  \A c \in Calls : call[c].pc # "new" ~> call[c].status # 0
=============================================================================
