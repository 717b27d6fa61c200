# A formal model of exe-gateway

exe-gateway (`src/`) connects messaging platforms (WhatsApp, Telegram, Discord,
Slack, e-mail, iMessage, Signal, webchat, webhooks) to bots and to a REST API.
It is one Node.js process: every handler runs to its next `await` without being
interrupted, and everything hard about it happens between two awaits. These
TLA+ modules model the parts that decide what is sent to whom, when, what is
written down about it, and what survives a failure. TLC checks them on small
instances; TLAPS proves the most important facts for every value of the
constants.

## 1. Inventory of the system

File names are relative to `src/src/`.

| Component | State | Operations | What makes it correct |
|---|---|---|---|
| Outbound limiter (`outbound-limiter.ts`) | queue, processing flag, log of sends, last send per recipient and overall | `send`, `processQueue`, `getStats` | one message in flight, none stranded, minimum spacing, caps, every send settles in order |
| Gateway handler (`gateway.ts`, `router.ts`) | adapters, one limiter per account, auto-reply log and count | `handleMessage`, auto-reply timer | read-only accounts stay silent, one confirmed answer per message, outcomes recorded as the gateway knows them, auto-reply gates |
| Inbound rate limiter (`rate-limiter.ts`) | global and per-sender windows | `check` | no window of any position holds more than the limit |
| Circuit breaker, retry (`reliability.ts`) | state, records, time of last change | `canRequest`, `recordSuccess`, `recordFailure`, `reset` | no new request while open, probing when half-open |
| Failover (`failover.ts`) | a breaker per provider | `execute`, `getProviderHealth`, `resetAll` | providers in order, each skipped only for a reason, every request settles |
| Session store (`session-store.ts`) | sessions by key, loaded keys, rows in PostgreSQL | `getOrCreate`, `addMessage`, `close`, `expireIdleSessions`, load, persist | histories keep order, answers join their question |
| Bot runtime (`bot-runtime.ts`, `permission-guard.ts`) | history per chat, a breaker | `processMessage`, tool loop, trimming, `clearHistory` | each turn asks with the call's own dialogue; results answer their tool uses under the message's own permissions; new calls fail fast |
| WhatsApp adapter (`adapters/whatsapp.ts`) | socket, abort controller, attempts, timers | `connect`, close and open events, backoff, `disconnect` | one connection; while it should run it reconnects |
| Telegram adapter (`adapters/telegram.ts`) | offset, polling flag, loops | `connect`, `pollLoop`, `disconnect` | no update is confirmed before it is handled; those that can be handled get through |
| iMessage adapter (`adapters/imessage.ts`) | last row, interval | `connect`, polls, `disconnect` | no row is passed over, none handed over twice without overlap |
| Signal adapter (`adapters/signal.ts`) | controller, stream loops | `connect`, `startEventStream`, envelopes, `disconnect` | the stream lives as long as the connection |
| Webchat adapter (`adapters/webchat.ts`) | pending responses, timers | requests, `sendText`, `disconnect` | each request answered once |
| Webhook server (`webhook-server.ts`) | handlers, adapters, its own limiters | routes, `start`, `stop` | the status tells what the gateway knows; every client gets an answer or a closed connection |
| WebSocket relay (`ws-relay.ts`) | clients with flags and timers | connections, auth, heartbeat, `stop` | only silent clients are dropped, and they are |
| API keys, proxy, metering (`api-keys.ts`, `llm-proxy.ts`, `metering.ts`) | validation cache, request windows, keys and usage rows | `validateApiKey`, `createApiKey`, `revokeApiKey`, `handleProxyRequest`, `logUsage`, `getUsageSummary` | a revoked key stops working; nothing is billed that the upstream did not send |
| Alerts (`alerts.ts`) | events of a window, active alerts | `recordEvent`, `evaluate`, `clearAlert` | alerts follow the window |
| Analytics (`analytics.ts`) | events in memory, daily rows | `record`, `flushDailyStats`, `prune` | no total exceeds what happened |
| Conversation store (`conversation-store.ts`, `pipeline-store.ts`, `contact-*.ts`) | rows of contacts, threads, messages | `storeInboundMessage`, `storeConversation`, import | one row per message, in the thread of its chat |
| Customer store (`customer-store.ts`) | identities in memory and database | `resolve`, `resolveAsync` | one identity per sender |
| CRM bridge (`crm-bridge.ts`, `contact-sync.ts`) | persons and activities in the CRM | three pushes, `ensureCRMContact` | a second person of a contact only by overlap or a misleading answer |
| Entry point (`bin/exe-gateway.ts`) | the process | wiring, `shutdown` | what it wires up is what the parts assume |
| The rest (`config.ts`, `db.ts`, `hooks.ts`, `bots/`, `providers/`, the other adapters) | none to speak of | parsing, I/O, wiring | — |

How they interact: an adapter calls `Gateway.handleMessage`, which asks the
rate limiter, hands the message to the ingest hook, the pipeline store and the
customer store, routes it, and either calls a bot (through the session store)
or schedules an auto-reply. Every answer goes through the account's outbound
limiter and from there back to the adapter; its outcome is told to the alerts
and the analytics. The webhook server calls adapters through limiters of its
own and hands what webhooks bring to the adapters. A bot calls a provider
behind a circuit breaker; the failover cascade is a library for embedders, of
which the gateway itself uses only the health report.

The hard parts are listed with their lines under `hazards` in `PROJECT.json`:
values read before an await and used after it (slots, caps, cooldowns, session
ids, histories, validated keys), find-then-create without a lock, two actors at
one queue or one history, exceptions in the middle of a sequence, timers that
outlive their reason, write-behind that is unordered and fallible, and
restarts. A call that rejects is not one that had no effect: Signal's `send` is
given up after 10 s and an unreadable answer to it throws (`signal.ts:183-193`),
a mutation of the CRM that times out after 30 s may be executed later
(`crm-bridge.ts:84`), and a client that disconnects from the proxy ends nothing
(`llm-proxy.ts:172-204`). The modules keep what happened apart from what the
gateway was told.

## 2. Plan

Done: the outbound limiter with its abstract channel, the gateway with the rate
limiter, the failover with its breakers, the session store, the bot runtime, the
WhatsApp connection, the four receiving adapters, the webhook server, the
metered proxy, and the modules that write down or watch what happens (alerts,
relay, analytics, conversations, customers, CRM). Every invariant and every
action property the passing runs check is proved for all values of the
constants, and so is what the liveness properties rest on: that whoever waits has
somebody or something that will wake it (§5).

Next: the parts of §6 that keep state.

## 3. Modules

An action is what the code does from one await to the next. Random delays,
outcomes of platforms, bots, databases and services are choices. Time is a
counter of ticks; `Tick` is an action like any other, so a timer may be served
late but not early. Each module with time caps it by a constant (`MaxTime`,
`AlertMaxTime`, ...). Definitions whose comment begins with "Faulty" are
plausible bugs; no specification uses them, and each is listed under `mutants`
in `PROJECT.json` with the property that must catch it. Variables whose comment
begins with "history" are for the properties; no guard reads them.

### Sending

**PacedChannel** is what `OutboundLimiter.send` promises: accepted messages
settle in order, exactly once, and sends are spaced. It has no queue, worker or
timer.

**OutboundLimiter** models `outbound-limiter.ts`. `stage[m]` says where each
call of `send` is; `waiting`, `presence`, `typing` and `sending` are the four
awaits of the worker. `RunQueue` is one turn of `processQueue`'s loop up to its
first await; it is part of `SendStarted`, `Sent` and `Failed`, because the code
runs it in the same step. The log is a set of messages with their times in
`sentAt`. A send that rejects is not in it, whether or not the platform delivered.
`Burst` bounds the calls that the callers leave unsettled: it stands
for the environment (the gateway awaits each send of a handler, but has many
handlers). Time starts late enough that "never sent" (0, the epoch) is
long ago. `Channel` maps the flight and the queue to the channel's `pending`.

**RateLimiter** models `check`: both windows pruned by the same rule (a record
exactly one window old still counts), the global one first. A window is a set
of messages, each with its own timestamp.

**Gateway** extends it with `handleMessage`. The stages of a message are its
awaits: `storing` (the dynamic import), `bot`, the four sends, and the auto-reply
timer. The routing table is a sequence of sets of messages. The account's
limiter is represented by what `PacedChannel` promises: a send is refused at
once or appended to `outbox`, and the head settles, sent or failed. `confirmed`
has the answers whose send resolved, `unconfirmed` those that reach the chat although it
rejected (`Rejected`). The `try` block is modelled with its real extent: the success
is recorded before the send, so a response whose send rejects has both outcomes
recorded, and the degradation message follows it whether it arrived or not
(`ResponseFailed`). Hooks
(ingest, event, conversation turn) are assumed to be async functions that do
not throw synchronously; one that does would make the catch answer again, which
is the mutant `MessageSentHookThrows`.

**CircuitBreaker** gives each method of the class as an operator from a breaker
to the breaker it leaves. **Failover** lets concurrent requests share breakers:
`cascade` is the loop of `execute` up to the next await, `Rejected`, `TimedOut`
and `Retry` are `retryWithBackoff` around `Promise.race`. `getProviderHealth`,
which may half-open a circuit by asking for its state, and `resetAll` come at any
time. What a provider says after its timeout is dropped by `Promise.race` and
needs no action.

**WebhookServer** models the routes of `webhook-server.ts` wired as
`bin/exe-gateway.ts` does. `Arrive` is `handleRequest` up to its first await
(route, authorization, read-only switch), the later actions are what each
route does with the body, with the answer of the database and with the
account's limiter. An account has two limiters, `"api"` and `"gateway"`, each
taken as the paced channel that OutboundLimiter is shown to implement; a webhook
is answered first and handled then, and its answer goes out through the
gateway's limiter. `sent` has what the platforms confirmed, `unconfirmed` the calls
whose message went out by a send that rejected (`SendFails`) or that the end of the
process overtook (`Exit`). `StopGateway`, `StopServer` and `Exit` are `shutdown`.

### Conversations

**BotRuntime** models concurrent calls of `processMessage`; its actions end at the
awaits of `createMessage` and of `toolExecutor`. JavaScript arrays are shared and
replaced, so they have an identity: `arrays` holds every history made so far,
`conversations` is the Map, and `history[m]` is the array a call holds. Trimming
and clearing change the map and leave the array to those that hold it.
`turnEnds` is the part of a turn after its last tool; it is part of
`ModelUsesTools` (when every tool is denied) and of `ToolEnds`. Tool uses and
results name each other by id and are sets of calls with an outcome; allowed
tools run in the order of their ids. What a model answers with is a choice from
`ToolRequests`, or no tool, or a rejection. `clearHistory` and `getCircuitState`
are public and have no caller under `src/`; an embedder may call them at any time.
The permission guard is part of the module. A call that has ended clears its
locals, which nothing reads any more.

**SessionStore** models the store with its client, the gateway's handler: the
user's message is added in the step that finds or creates the session
(`ResumeSession`, `CreateSession`), the answer in a later one by id. A persist
is a snapshot in `writes`, which arrives in any order, or fails. Equal snapshots
on their way are one. The background load is `LoadReads` and then `Loaded`,
`NothingLoaded` or `LoadFails`. `Restart` forgets memory, loads and writes on
their way. `added` records what was ever added to a session, for the properties.
The PostgreSQL tables are external; their rows are the snapshots written.

### Receiving

**WhatsAppConnection** models `connect`, the handler of `connection.update`,
`reconnectWithProxyCheck` and `disconnect` of the WhatsApp adapter, with the
process around it (`Start`, `disconnect` from `shutdown`, `Exit`, `Restart` by
systemd). A member of `Conns` is one call of `connect` with the socket and timers
that come of it; names are used again, so nothing bounds how often an account
reconnects. Timers fire at any time; the delay is kept because the next one is
computed from the count of attempts. A socket that `disconnect` closes still
reports its close, which reconnects (see the findings). Sockets, proxy and
network are external.

**TelegramPoller**: updates are numbers in the order of Telegram's queue, and
Telegram, which is external, drops those before the offset of a call of
`getUpdates`. A member of `Loops` is one run of `pollLoop` with the batch it is
handing over; `disconnect` only clears a flag, so after a reconnect two loops
may share `pollOffset`. `Poison` are updates whose handler always throws.
`TelegramRestart` begins with offset 0 against the queue as Telegram keeps it.

**IMessagePoller**: a member of `Polls` is one callback of the interval with the
rows its query returned; rows are numbers. `TakeRow` moves `lastMessageRowId`
before the handler is called, as the loop does. `ConnectedIMessage` assigns the row
id that was read even over rows a poll has taken meanwhile.

**SignalStream**: a member of `Streams` is one run of `startEventStream`, which
looks at `abortController` as it is now, null after `disconnect`; only the fetch
holds the controller's signal. An envelope becomes as many calls of the handler
as its kind makes (`messages`), one after the other, in a task nobody awaits;
contacts and groups are imported beside it. `EventStreamEnds` turns the loop at
once, `StreamFails` after a pause; `rejoined` records that `ConnectedSignal` found
a loop that had not ended.

**WebChat**: `ConnectChat` and `DisconnectChat` are the adapter's. `Accepted`
registers resolver and timer and calls the handler; `sendText` and `TimedOut` resolve
the promise, the response is written only when the handler has returned too
(`HandlerResolves`, `Respond`). `BodyAborted` is the rejection nobody handles; it
ends the process.

### Keys and money

**LlmProxy**: `CreateApiKey`, `FindRevoked`/`FindNone`, `UpdateRevoked`,
`ClearCache` are the awaits of creating and revoking; `Receive`, `LookUp`,
`CacheCustomer` those of `validateApiKey`. `pc[r]` is where a call of
`handleProxyRequest` is; `tokens[r]` has what the handler counted and, for the
properties, what the upstream sent, and `client[r]` what the client got. A client may
leave at any time (`ClientLeaves`): writing to it does not throw and nothing
listens for its close, so the handler reads on and counts. A stream brings its usage in events that may be
split over two chunks, in which case the code skips them. `MaxLookup` bounds how
long a row that was read stays on its way. `UsageSummary` is `getUsageSummary`
with its grouping.

### Writing down and watching

**ConversationStore**: a delivery is one `storeInboundMessage`, which nobody
awaits; each query is a step, any may fail. A thread or message row is named by
the delivery that created it. **CustomerStore**: `resolve` answers from memory
and starts `resolveDB`; `CreateCustomer` is the transaction together with the
fallback that runs although it committed, whose rejection (`FallbackRejects`)
ends the process. **CrmBridge**: a push is find, create, append; the CRM,
external, executes a request and answers, answers with errors, or the answer is
lost. A creation that timed out (`CreateTimesOut`) stays with the CRM, which executes
or drops it at any later time (`ExecutedLate`); until then its push counts as at work
(`AtWork`). **Analytics**: the totals of a day and group; a flush takes them all before
its first row is awaited and replaces one row after the other. **Alerts**:
`recordEvent`, which lets go of what is before the window from the front of the
array, `evaluate` and its early return, alerts fired by hand.
**WsRelay**: clients with the deadline of their authentication, the heartbeat and
one timer per ping.

## 4. Runs

| Run | Shows |
|---|---|
| `outbound_limiter` | TypeOK, SingleFlight, SpacedSends, CapWithinBurst; EverySendSettles; OutboundLimiter implements PacedChannel |
| `gateway` | ReadOnlySilent, AnsweredOnce, SlidingWindows; EveryMessageHandled, over every failure of bot, limiter and platform |
| `auto_reply` | AutoRepliesBounded: what cooldown and cap do guarantee, though both are read before and written after a delay and a queue |
| `failover` | CascadeInOrder, OpenMeansQuiet; SkippedOnlyWhenOpen, ExecuteSettles |
| `whatsapp_connection` | OneConnection, SendsUseOpenSocket; Reconnects |
| `session_store` | HistoryInOrder, AnswerJoinsQuestion across load, trimming, timeouts, failing writes and a restart |
| `bot_runtime` | CallSeesItself, ToolsAnswered, FirstTurnsBeforeOpen, AnsweredBounded while calls of one chat share history and breaker |
| `llm_proxy` | RevocationLapses: how long a revoked key still works; BilledAsServed: billed once and never for more than the upstream sent, nor than a client that stayed has got, whatever breaks or is split and whoever leaves |
| `webhook_server` | AnswerTellsOutcome, PacedByTwo (what two limiters of one account guarantee); EveryCallAnswered through shutdown |
| `adapters` | AckAfterHandled, UpdatesGetThrough (Telegram), RowsHanded (iMessage), StreamsKeepUp (Signal: DoubledOnlyByReconnect and StreamFollowsConnection), ChatsAnswered (webchat: ResolvedOnce and EveryChatAnswered) |
| `records` | StoredOnceInPlace, IdentityKept, OnePersonPerContact (find-then-create), DailyTotals, AlertsFollowWindow, OnlySilentDropped |
| `question_kept` | violation: the background load drops a question the bot is working on |

`adapters` and `records` each check several components that share nothing. A
behaviour runs one of them, chosen in the initial state, and the others keep
their initial values, so the run is the sum of its parts and not their product.
The properties are those of the components' own modules, which the two MC modules
extend; `StreamsKeepUp` and `ChatsAnswered` join a safety and a liveness property of
the part that runs.

Properties that bound a defect say exactly how far it goes. The caps of the
outbound limiter hold up to the callers' burst; two limiters let two messages
out where one would let one; a degradation message follows a response only if its
send rejected although it arrived; a second person or thread, a row handed over twice,
an envelope delivered twice, a daily row that shrinks is there only after the
overlap that the module's history variable recorded, and TLC would show any other
way to get it.

Bounds, and why they suffice to meet the interesting cases:

* `outbound_limiter`: four messages, three to one recipient; an hour of four and
  a day of seven ticks with caps of one and two, so that both caps are reached and
  records leave the hour and then the day; Burst = 3, so that two wait while one
  is sent and their order matters. The minimum delay per recipient exceeds
  the global one, as in every platform's table.
* `gateway`: four messages, two senders, two accounts; global limit two and sender
  limit one with a window of one tick reach both refusals; one route to a bot
  shadowing one that has none; an auto-reply cap of one.
* `auto_reply`: three messages, a direct contact and a group, cooldown and cap
  of two, every interleaving of arrival, timer, send and time. The rate limiter
  is set so that it never refuses.
* `failover`: two requests, tiers of one and two providers. One failure opens a
  circuit (minimumRequests 1, threshold 50 %), which half-opens after two ticks;
  within four ticks circuits open, half-open, close and re-open.
* `whatsapp_connection`: two names for connections, enough for a second one beside
  the first; delays in units of five seconds; attempts counted to seven, one more
  than the delay depends on.
* `bot_runtime`: two messages of one group, one read-only; two turns; a model that
  asks for a tool of each level or for one that is in no list; a history of three
  entries, so that one call trims while the other is in its dialogue (a call of
  two turns alone adds four); one failure opens the circuit, which half-opens
  after one tick. The initial call of a chat, a cleared one and a trimmed one
  all occur, and arrays that are out of the map are added to.
* `session_store`: two messages of one customer and bot (one session key; keys do
  not interact), two session ids, two writes on their way, one restart, an idle
  timeout of two within three ticks, trimming from the third message on.
  `MaxWrites` is the connection pool: the store's own steps wait for room,
  which removes interleavings and adds none. `question_kept` trims later and
  times out never, so that only the load can lose the question.
* `llm_proxy`: two keys of one prefix and one customer, one of them limited to one
  request per window; one streamed call with two deltas and one plain, of which one
  names a model the table does not have; an entry lives one tick and a lookup may take
  one, within three ticks, so that an entry made after the revocation is used and
  expires.
* `webhook_server`: three accounts on two platforms, one of them read-only; one
  call may be of any route, with a wrong token, a wrong signature or an account that
  is not there, and two compete for one account through both limiters; a delay of
  two ticks within two, so that a third message must wait; a cap of one; shutdown at
  any moment.
* `adapters`: two loops and three updates in batches of two, one of which poisons
  the queue, and two faults; two polls over four rows in batches of two; two streams,
  two connects and one break, a receipt that is two messages and an envelope that is
  none; two chats, a timer of two ticks, two texts of the bot.
* `records`: three deliveries — a message, its redelivery and another one of the
  same chat, in a group or in none, or the same id in another account and another
  chat; three resolutions of one sender with two rejections; three pushes to
  two contacts; two days, two groups, two flushes and one restart; four events in a
  window of two with a minimum of two; one client through several heartbeats.

Deadlock is checked in `whatsapp_connection`, which never stops. Elsewhere it
is not, because the systems are bounded by their messages, calls and `MaxTime`,
after which they have nothing left to do.

Fairness. `Tick`: the clock runs. `WorkerStep(m)` of the limiter: the event loop
serves settled promises and due timers, and the platform's calls return — the
code has no timeout on them, so this is an assumption on the platform clients.
`Handle(m)` of the gateway: likewise, and the bot's call returns, which the
provider's own timeout and the turn limit justify; that an accepted send settles
is EverySendSettles of the limiter. `Timer(r)` of the failover: timers fire;
providers may stay silent for ever. `Served(c)` of the WhatsApp adapter: promises
and timers are served; that a socket which is made again and again at last opens,
and a proxy that is probed again and again at last answers (`Opened`, `Recovered`,
strong fairness), is an assumption on the network, without which nothing reconnects.
`Handler(c)` and `LimiterRuns(l)` of the webhook server: bodies arrive or break
off, the database and the platform settle. `LoopRuns(l)` of Telegram,
`StreamRuns(s)` of Signal and `ChatRuns(c)` of webchat: requests, handlers and
timers settle, and `close()` of the HTTP server resolves once its requests have
ended; nobody is assumed to call `connect` or `disconnect`. No fairness is assumed
of arrivals, and none in the other modules, which make no liveness claim
(persistence may always fail; a tool's executor has no timeout).

## 5. Proofs

The proofs hold for all values of the constants that satisfy the named
assumptions of the component's module. Each rests on an inductive invariant; the
properties themselves are rarely inductive, because they speak of what was sent,
stored or told and not of the step that is under way.

**OutboundLimiterProofs**
* `TypeCorrect`: `Spec => []TypeOK`, from `QueueCorrect`. TypeOK is not inductive by
  itself: the turn of the queue needs that what is queued is exactly what has stage
  `queued`, each once (`QueueInv`), or a message could be started while it is in
  flight.
* `OneInFlight`: `Spec => [](SingleFlight /\ NoneStranded)`, from `TypeInv`: a
  message starts only where the flag is false, or in the step that settles the one
  in flight. `NoneStranded`, that an idle worker leaves an empty queue, is what
  the liveness of the run rests on.
* `SendsAreSpaced`: `Spec => []SpacedSends`. The slot is computed from the last
  sends before the sleep; the invariant says that a message past its slot is later
  than the last sends by the minimum delays (`SlotInv`), which holds only
  because nobody else records a send meanwhile (`OneInFlight`), and that the last
  sends bound all earlier ones (`LastInv`).
* `CapsHold`: `Spec => []CapWithinBurst`. The inductive invariant counts the messages
  sent within the window together with those outstanding: they are at most cap
  plus Burst - 1 whenever one is outstanding (`Room`); pruning never removes a
  record that is still inside a window (`LogInv`).
* `LimiterIsChannel`: `Spec => ImplementsChannel`, the refinement the run checks on
  one instance. The channel's pending messages are the one in flight, if any, and
  then the queue (`Pending`); a turn of the loop moves the first message of the
  queue into flight and so changes nothing of what is pending (`RunQueuePending`).
  A send is far enough from the earlier ones by `SlotInv` and `LastInv`; the steps
  of the worker between two settlements are stutters (`ChannelWaits`).

**CircuitBreakerProofs** has the lemmas on the breaker's methods, for a call at any
time: each leaves an open circuit only if it was open before, or opened now
(`OpensNow`). They look at a breaker's state and time of last change, never at
what its records hold. Failover and BotRuntime both rest on them.

**FailoverProofs**
* `CascadeKeepsOrder`: `Spec => []CascadeInOrder`. It is inductive together with
  the types and with "a request in progress is at a provider of its tier"
  (`OrderInv`); `CascadeOrder` shows it of one run of the loop.
* `OpenCircuitsAreQuiet`: `Spec => []OpenMeansQuiet`. By the lemmas on the breaker,
  no request started later than now, and one that is let through leaves the
  circuit closed or half-open (`AskedShape`).
* `SkipsAreJustified`: `Spec => []SkippedOnlyWhenOpen`: by `SkipsForReason`, of one
  run of the loop, what is passed over has an open circuit at that moment.
* `NobodyHeldUp`: `Spec => []DeadlineNear`, and `RequestsAdvance`: `Spec =>
  [][RequestsForward]_vars`, for ExecuteSettles. A request that waits has a timer
  due within the longer of its tier's timeout and the delay of the retry, and every
  step it takes raises `Stage`, which counts providers and attempts up to
  3 * Count + 3. That a retry raises it needs "in a backoff only the first attempt
  is made" (`LocalsInv`).

**GatewayProofs**
* `GatewayTypeCorrect`: `Spec => []TypeOK`.
* `ReadOnlyIsSilent`: `Spec => []ReadOnlySilent`, inductive with the types: of the
  handler's steps only two are taken for a message of a read-only account.
* `WindowsSlide`: `Spec => []SlidingWindows`. The property speaks of every position
  of the window, the limiter's arrays only of the present one, and they are pruned
  only when a check happens to look at them. The invariant (`WindowInv`) says that
  the arrays contain at least every message that still counts and that those are no
  more than the limits; messages let in now extend the present window only
  (`SlidingNext`).
* `OneAnswer`: `Spec => []AnsweredOnce`. What was confirmed, or arrived without, and
  recorded of a message determines, with its turn, where it stands (`AnswerInv`); the settlement of a
  send is the settlement of that message's send because an account's outbox holds
  exactly the messages that wait for it, each once (`OutboxInv`).
* `RepliesBounded`: `Spec => []AutoRepliesBounded`. The count is the number of
  auto-replies whose send resolved, a contact's entry in the log is not before any of them, and a
  reply that is scheduled was so when both allowed it (`ReplyInv`); the property
  follows when it is sent, however late.
* `HandlingAdvances`: `Spec => [][StagesAdvance]_vars`, and `NoHandlerStranded`: `Spec
  => []HandlersHeld`, for EveryMessageHandled. Each step of a handler raises the
  `Order` of its stage, so it takes at most five and "done" is for good, as the
  comment of that property says; and a handler that waits has a timer
  (`TimerInv`) or a place in its account's outbox (`OutboxInv`).

**BotRuntimeProofs**
* `OfferedIffAllowed`: for disjoint lists of tools the two layers of the permission
  check agree; disjointness is the hypothesis, and the lists of `types.ts` are.
* `NewCallsFailFast`: `Spec => []FirstTurnsBeforeOpen`, from the types and from "no
  call started later than now, and one that is under way is in a turn" (`FastInv`).
* `CallsSeeThemselves`: `Spec => []CallSeesItself`, and `ToolsAnsweredAlways`:
  `Spec => []ToolsAnswered`. They are inductive together (`DataInv`). A step of
  one call changes every array only by adding entries of its own at the end, and
  makes new arrays only from entries of old ones (`Kept`), which is why the
  dialogue of the others survives it (`OthersKept`) — this is where cutting an
  array in place would fail. During a turn the calls left, blocked and done
  are together exactly the uses in the history, each id once (`InTurn`).
* `HistoryIsBounded`: `Spec => []AnsweredBounded`. A call becomes an answered one in
  the step that trims its chat's array, and then all its entries count at once;
  this adds to no other chat's count, because no two chats share an array (`Apart`)
  and a chat's array has entries of its own calls only (`OwnChat`).

**WebhookServerProofs**
* `StatusTellsOutcome`: `Spec => []AnswerTellsOutcome`. The invariant (`CallInv`) gives
  the status a call may have at each step (`CallOK`), says that a call that waits
  is in exactly one place of one queue (`Queued`), so that a settlement is
  its own, that what was sent was sent for a call that ended as that allows
  (`Delivered`), and that what went out unconfirmed belongs to a call that has ended
  without a 4xx and was not also sent (`Unknown`). A 500 says only that nothing was
  confirmed. An error whose text says "limit reached" is answered 429 also when it is
  the platform's; that such a refusal is one, the model takes on trust.
* `TwoPerDelay`: `Spec => []PacedByTwo`. It speaks of confirmed sends, the only ones a
  limiter records. Two messages of an account less than the
  delay apart came through different limiters (`Apart`): each limiter keeps
  its own times apart, so of three messages two came through one.
* `EveryCallHeld`: `Spec => []NobodyForgotten`, for EveryCallAnswered. What happens to
  one call leaves the place of the others alone (`OthersWait`): who is behind it in a
  queue stays in it, and who leaves a queue leaves with a status. A call of the API
  is queued only for a registered account, so its limiter exists.

**EdgeProofs** has the adapters and the proxy, which share nothing.
* `OneConnectionHolds`: `WhatsAppSpec => []OneConnection`, and `SendsFindOpenSocket`:
  `WhatsAppSpec => []SendsUseOpenSocket`. They are inductive together (`IInv`): because
  only one connection is under way, the event that opens or closes a socket is one
  of the socket the adapter holds.
* `AccountNeverAbandoned`: `WhatsAppSpec => []NeverAbandoned`, for Reconnects. The other
  half of `OneConnection`: a connection gives its place up only to the one it starts
  (`connectAfter`), and the backoff never exceeds its limit (`BackoffBounded`).
* `TelegramTypeCorrect`: `TelegramSpec => []TelegramTypeOK`, with "a loop that hands
  updates over is inside its batch".
* `AcknowledgedIsHandled`: `TelegramSpec => []AckAfterHandled`, for any number of
  loops of old connections and any restarts. The invariant (`PassedIsHandled`):
  whatever an offset passes is handled — the adapter's, the one each running loop
  asked with, and what Telegram was told. An older loop may set the offset
  back, which passes less; it cannot set it forward over updates it did not hand over.
* `ConnectedPolls`: `TelegramSpec => []SomebodyPolls`, for UpdatesGetThrough: the loop
  that a connection started ends only where it finds the adapter disconnected.
* `NoRowPassedOver`: `IMessageSpec => []RowsHanded`. What the last row passes was
  handed over, or is before the next row of a batch at hand (`Behind`), although a
  poll that was overtaken sets it back and a reconnect sets it forward; without
  overlap there is one poll, whose rows are all after what was handed over (`Alone`).
* `DeliveredOnceUnlessRejoined`: `SignalSpec => []DoubledOnlyByReconnect`. Until a
  reconnect finds one alive there is at most one loop (`OneLoop`), so an envelope
  has at most one task, which owes what the handler has not had yet (`Owes`).
* `ConnectedReads`: `SignalSpec => []SomebodyReads`, the same of the event stream,
  for StreamFollowsConnection.
* `ChatsResolvedOnce`: `ChatSpec => []ResolvedOnce`: a request whose handler is under
  way or has returned has a resolver exactly as long as it has no answer
  (`ResolverFits`). That a forgotten request cannot happen is what the liveness
  property rests on.
* `RevocationTakesEffect`: `Spec => []RevocationLapses`. The invariant (`KeyInv`)
  follows the row a validation read: while it is on its way it was read before the
  key was revoked and not long ago (`Carried`), so the entry made from it ends a
  bounded time after the revocation (`Cached`), and whoever was let through by
  either was so before that end (`Passed`). All three are the same statement,
  `Within`, with different distances, and are kept by time, new keys and revocations
  alike (`KeysChange`).
* `RowsAsServed`: `Spec => [](\A u \in usageLogs : RowServed(u))`, and
  `MeteredAsServed`: `Spec => []BilledAsServed`. What the handler has counted of a
  stream is what the upstream sent, unless an event was split (`Counted`); a client
  that has not left has got all of it and one that has is not told of
  (`ClientInv`); and a request that is not yet logged has no row (`MeterInv`). So each
  row is one of a finished call of its customer and counts no more than the upstream sent
  for that call, exactly as much without a split, though its client may have left. The
  summary sums twice, the rows of a model and then the models, and the module
  sums with `MapThenSumSet`, a fold whose value is the value of a recursive function
  on the subsets of a set. Three facts make it a sum (section "Sums over finite sets"):
  such a function exists for every finite set (`SumExists`) and is the only one
  (`SumUnique`), because a least subset on which two differ would be without its
  chosen element one on which they differ too (`LeastSubset`: strict inclusion is
  well-founded on finite sets); and a sum of numbers is the number of units
  that make it up (`SumIsCount`). Then comparing sums is comparing sizes of sets: each
  unit of a bill, numbered within its model and its row, is given a unit of the
  call it was logged for (`TallyInjects`), and no two get the same, as a call has
  one row. The sizes are defined because at every moment only finitely many calls have
  begun (`Begun`), however many there may be.

**RecordsProofs** has what is written down and what watches.
* `HistoryStaysInOrder` and `AnswersFollowQuestions`: `Spec => []HistoryInOrder` and
  `Spec => []AnswerJoinsQuestion` of the session store, from one invariant
  (`SessionInv`). Each copy of a session — in memory, on its way to the
  database, stored, or read by a load that is under way — is a part, in order, of
  the log of what was added under its id (`Recorded`), and ids are not used twice;
  so it does not matter which copy overwrites which. A question is in the log of its
  session before its answer can be (`QuestionsLogged`).
* `MessagesStoredOnce`: `ConversationSpec => []StoredOnceInPlace`, and
  `PersonsAreUnique`: `CrmSpec => []OnePersonPerContact`. Find-then-create without a
  lock: a delivery (a push) that is about to create knows of every row that was there
  when it looked, so a row it does not know of came by one that overlapped it
  (`ConversationInv`, `PersonInv`). The overlap is recorded, which is what the
  properties name; a push whose creation timed out overlaps all that begin before the
  CRM has executed or dropped it.
* `CustomersKept`: `CustomerSpec => IdentityKept`, by the steps: the database draws a
  sender's customer once, and memory, once it has it, does not leave it.
* `TotalsNeverInflate`: `AnalyticsSpec => DailyTotals`. A flush carries no more than
  memory held, and memory no more than was recorded (`Sound`); without overlap a row of
  this session is below what memory and the flush on its way hold, so it
  does not shrink (`OneAtATime`, `Growing`).
* `OnlySilentClientsLost`: `RelaySpec => OnlySilentDropped`. A client that is kept and
  has not answered has only the timer of its last ping before it, and one
  that has was heard since the last heartbeat (`RelayInv`). It needs
  `PongTimeout < HeartbeatInterval`, an assumption of the module that the
  constants of `ws-relay.ts` satisfy: otherwise the next heartbeat finds the client
  before its timer does.
* `AlertsTellWindow`: `AlertSpec => AlertsFollowWindow`. The events kept are the end of
  the log and all before them are out of the window (`AlertInv`), so the window
  counts the same in both: their places differ by the number let go, a bijection.

Out of the prover's reach, and only model-checked: liveness under fairness
(EverySendSettles, EveryMessageHandled, ExecuteSettles, Reconnects,
EveryCallAnswered, UpdatesGetThrough, StreamFollowsConnection,
EveryChatAnswered) and ENABLED. Everything else that the passing runs check is a
theorem. Behind each of the liveness properties there is a theorem that rules
the ways out: nobody waits without a timer, a queue or a loop that goes on
(`OneInFlight`, `NoHandlerStranded`, `NobodyHeldUp`, `AccountNeverAbandoned`,
`EveryCallHeld`, `ConnectedPolls`, `ConnectedReads`, `ChatsResolvedOnce`); of the
handlers of the gateway and the requests of the cascade it is proved too that they
cannot go round in circles. What is left to TLC is that fairness makes those steps
happen.

Two hazards have no property, because the code has nothing to promise: messages that
only a later snapshot had are lost when an older one is written last (`HistoryInOrder`
says that what remains is in order), and calls that fail leave entries in a
history that only the next answered call trims (`AnsweredBounded` counts the entries
of answered calls).

## 6. Not modelled

`components` in `PROJECT.json` lists every part with its status and its reason.
Left out of modelled modules, because it does not touch their properties:
`setName` and `assignEmployee` of the customer store, `bulkImportContacts` (the
upsert of a contact, repeated), `broadcast` and `handleSubscribe` of the relay
(they choose which authenticated clients an event is written to), `syncGroups`
beyond its messages, listings of keys, usage, messages and statistics,
`getOrCreateAsync` of the session store (it has no caller), `healthCheck`, and
the averages of the analytics. Left out altogether: configuration parsing, vendor
APIs and request translation (`providers/`), prompts and executors of the bot
templates, the thin adapters for Slack, Discord, e-mail and webhooks, and the
second family in `platform-adapters/`, which no entry point constructs: input and
output without state worth a model.

## 7. Findings

`findings` in `PROJECT.json` lists what the modelling met, with its lines. The one
with a run is `question_kept`. The others are disagreements of the code with its
documents, or defects, that the modules keep as they are; where a
property bounds the consequence, the finding or the property names it. The most
consequential: the fallback of the customer store's transaction runs although it
committed, and its rejection ends the process; a flush after a restart erases
what the day had counted; with several accounts of a platform every webhook goes to
the last one; a stopped WhatsApp adapter reconnects, and a Signal adapter that is
reconnected quickly delivers twice; two first messages of a direct chat
can open two threads; a key validated while it is revoked works until its
cache entry ends; overlapping sends overrun the documented caps and replies
the cooldown.

Facts about the code that the models keep and a reader may stumble over: later
turns of a bot's call do not ask the breaker; messages of other calls may stand
between a tool use and its results, and trimming may cut between them; an answer
pushed to an array that was replaced or cleared is lost to the conversation; a
half-open circuit can be closed by a request that began before it opened, and lets
every request pass until an outcome is recorded; `markForSummary` makes a closed
session active again; a message whose response could not be sent counts as a
success and as a failure, and the chat may get it and the degradation message;
tokens are billed to a client that left before it got them; the offset of Telegram's poller may go back when a loop
of an old connection still runs, which repeats updates and loses none.
