------------------------------ MODULE LlmProxy ------------------------------
(***************************************************************************)
(* The metered proxy to Anthropic: API keys with a validation cache and    *)
(* revocation (api-keys.ts), POST /v1/messages (llm-proxy.ts) and the      *)
(* usage log with its summary (metering.ts).  The database, the upstream   *)
(* and the clients are the environment; each await is a place where the    *)
(* actions of other calls can fall.  A call ends with an answer or refused;*)
(* its client may have left long before.                                   *)
(***************************************************************************)
EXTENDS Integers, Sequences, FiniteSets, FiniteSetsExt

CONSTANTS
  Keys,               \* the API keys that may be created
  NoKey,
  keyPrefix,          \* [Keys -> prefixes]; two keys may have the same one
  ownerOf,            \* [Keys -> Customers]: the authUserId of the key
  rateLimitRpm,       \* [Keys -> Int]; a limit <= 0 is no limit
  Customers,
  Requests,           \* the calls of handleProxyRequest
  Revokers,           \* the calls of revokeApiKey
  streams,            \* [Requests -> BOOLEAN]: body.stream
  usageOf,            \* [Requests -> [input, output]]: the tokens the upstream counts
  modelOf,            \* [Requests -> STRING]: the model named in the body
  resolved,           \* [Requests -> STRING]: the model named in the response
  MODEL_PRICING,      \* [a set of models -> [input, output]]
  FALLBACK_PRICING,
  marginPercent,
  CACHE_TTL_MS,
  RATE_LIMIT_WINDOW_MS,
  MaxLookup,          \* a row that was read is cached at most so much later
  MaxTime             \* time does not pass MaxTime

ASSUME LlmProxyAssumption ==
  /\ NoKey \notin Keys
  /\ streams \in [Requests -> BOOLEAN]
  /\ usageOf \in [Requests -> [input : Nat, output : Nat]]
  /\ ownerOf \in [Keys -> Customers]
  /\ rateLimitRpm \in [Keys -> Int]
  /\ {RATE_LIMIT_WINDOW_MS, MaxLookup, MaxTime, marginPercent} \subseteq Nat
  /\ CACHE_TTL_MS \in Nat \ {0}

VARIABLES
  now,
  billingCustomer,    \* the authUserIds that have a row
  revokedAt,          \* billing_api_keys: [keys that have a row -> time or Never]
  cache,              \* [Keys -> expiresAt, 0 when there is no entry]
  revoker,            \* revokeApiKey: [pc, key]
  pc,                 \* [Requests -> Pcs]: where handleProxyRequest is
  key,                \* [Requests -> Keys \cup {NoKey}]: the key it was called with
  readAt, validAt,    \* history: when a row to be cached was read, the key found valid
  tokens,             \* [Requests -> records like NoTokens]
  client,             \* history: [Requests -> what a client that stays has got]
  customerRequestWindows,
  usageLogs           \* billing.usage_logs, a set of rows

vars == <<now, billingCustomer, revokedAt, cache, revoker, pc, key, readAt, validAt,
          tokens, client, customerRequestWindows, usageLogs>>

Never == -1
Pcs == {"new", "lookup", "found", "body", "fetch", "stream", "text", "log", "end", "refused"}

\* What the handler counted, and for the properties what the upstream sent for
\* the call, whether an event was split over chunks, and whether the row was lost.
NoTokens == [inputTokens |-> 0, outputTokens |-> 0, sentIn |-> 0, sentOut |-> 0,
            split |-> FALSE, lost |-> FALSE]

Init ==
  /\ now = 1
  /\ billingCustomer = {}
  /\ revokedAt = [k \in {} |-> Never]
  /\ cache = [k \in Keys |-> 0]
  /\ revoker = [v \in Revokers |-> [pc |-> "new", key |-> NoKey]]
  /\ pc = [r \in Requests |-> "new"] /\ key = [r \in Requests |-> NoKey]
  /\ readAt = [r \in Requests |-> 0] /\ validAt = [r \in Requests |-> Never]
  /\ client = [r \in Requests |-> [gone |-> FALSE, gotIn |-> 0, gotOut |-> 0]]
  /\ tokens = [r \in Requests |-> NoTokens]
  /\ customerRequestWindows = [c \in Customers |-> <<>>]
  /\ usageLogs = {}

Active(k) == k \in DOMAIN revokedAt /\ revokedAt[k] = Never

keyVars == <<billingCustomer, revokedAt, revoker>>
others == <<now, keyVars, client, customerRequestWindows, usageLogs>>
validation == <<key, readAt, validAt>>
callVars == <<pc, validation, tokens, client>>

\* Request r goes on at another place; its key was found valid; it is refused.
goesOn(r, where) == pc' = [pc EXCEPT ![r] = where]
passes(r) == goesOn(r, "body") /\ validAt' = [validAt EXCEPT ![r] = now]
refuses(r) ==
  /\ goesOn(r, "refused")
  /\ key' = [key EXCEPT ![r] = NoKey]
  /\ readAt' = [readAt EXCEPT ![r] = 0] /\ validAt' = [validAt EXCEPT ![r] = Never]
  /\ tokens' = [tokens EXCEPT ![r] = NoTokens]

-----------------------------------------------------------------------------
(* API keys.                                                               *)

\* createApiKey: the customer is provided first; storing the key may then fail.
CreateApiKey(k) ==
  /\ k \notin DOMAIN revokedAt
  /\ billingCustomer' = billingCustomer \cup {ownerOf[k]}
  /\ \/ revokedAt' = [j \in DOMAIN revokedAt \cup {k} |->
                        IF j = k THEN Never ELSE revokedAt[j]]
     \/ revokedAt' = revokedAt
  /\ UNCHANGED <<now, cache, revoker, callVars, customerRequestWindows, usageLogs>>

\* revokeApiKey: findFirst by prefix takes any active key that has it.  When
\* there is none the cache is emptied and the answer is false.
FindRevoked(v, k) ==
  /\ revoker[v].pc = "new"
  /\ Active(k)
  /\ revoker' = [revoker EXCEPT ![v] = [pc |-> "update", key |-> k]]
  /\ UNCHANGED <<now, billingCustomer, revokedAt, cache, callVars, customerRequestWindows, usageLogs>>

FindNone(v, k) ==
  /\ revoker[v].pc = "new"
  /\ \A j \in Keys : keyPrefix[j] = keyPrefix[k] => ~Active(j)
  /\ cache' = [j \in Keys |-> 0]
  /\ revoker' = [revoker EXCEPT ![v].pc = "false"]
  /\ UNCHANGED <<now, billingCustomer, revokedAt, callVars, customerRequestWindows, usageLogs>>

\* The update of revokedAt; it may fail, and then the cache is left as it is.
UpdateRevoked(v) ==
  /\ revoker[v].pc = "update"
  /\ \/ /\ revokedAt' = [revokedAt EXCEPT ![revoker[v].key] = now]
        /\ revoker' = [revoker EXCEPT ![v].pc = "clear"]
     \/ /\ revokedAt' = revokedAt
        /\ revoker' = [revoker EXCEPT ![v].pc = "thrown"]
  /\ UNCHANGED <<now, billingCustomer, cache, callVars, customerRequestWindows, usageLogs>>

ClearCache(v) ==
  /\ revoker[v].pc = "clear"
  /\ cache' = [k \in Keys |-> 0]
  /\ revoker' = [revoker EXCEPT ![v].pc = "true"]
  /\ UNCHANGED <<now, billingCustomer, revokedAt, callVars, customerRequestWindows, usageLogs>>

\* Faulty: an entry that expires now still counts.
ReceiveOnTheDot(r, k) ==
  /\ pc[r] = "new"
  /\ key' = [key EXCEPT ![r] = k]
  /\ IF cache[k] >= now THEN passes(r) ELSE goesOn(r, "lookup") /\ UNCHANGED validAt
  /\ UNCHANGED <<others, cache, readAt, tokens>>

\* validateApiKey up to its first await; a header without exe_sk_ is refused.
ReceiveWithoutKey(r) ==
  /\ pc[r] = "new"
  /\ refuses(r)
  /\ UNCHANGED <<others, cache>>

Receive(r, k) ==
  /\ pc[r] = "new"
  /\ key' = [key EXCEPT ![r] = k]
  /\ IF cache[k] > now THEN passes(r) ELSE goesOn(r, "lookup") /\ UNCHANGED validAt
  /\ UNCHANGED <<others, cache, readAt, tokens>>

\* The query for the key's row is answered, or the database cannot be reached.
LookUp(r) ==
  /\ pc[r] = "lookup"
  /\ \/ /\ Active(key[r])
        /\ goesOn(r, "found")
        /\ readAt' = [readAt EXCEPT ![r] = now]
        /\ UNCHANGED <<key, validAt, tokens>>
     \/ refuses(r)
  /\ UNCHANGED <<others, cache>>

\* validateApiKey goes on with the row it read and caches the customer.
CacheCustomer(r) ==
  /\ pc[r] = "found"
  /\ cache' = [cache EXCEPT ![key[r]] = now + CACHE_TTL_MS]
  /\ passes(r)
  /\ readAt' = [readAt EXCEPT ![r] = 0]
  /\ UNCHANGED <<others, key, tokens>>

-----------------------------------------------------------------------------
(* The request.                                                            *)

\* enforceCustomerRateLimit: the window of a customer is shared by its keys.
Pruned(window) == SelectSeq(window, LAMBDA t : t > now - RATE_LIMIT_WINDOW_MS)

pushed(window) == Append(window, now)

\* The body is read and parsed, and the request is counted and let through.
Admit(r) ==
  LET k == key[r]
      window == Pruned(customerRequestWindows[ownerOf[k]])
      limited == rateLimitRpm[k] > 0
  IN /\ pc[r] = "body"
     /\ limited => Len(window) < rateLimitRpm[k]
     /\ customerRequestWindows' =
          IF limited
          THEN [customerRequestWindows EXCEPT ![ownerOf[k]] = pushed(window)]
          ELSE customerRequestWindows
     /\ goesOn(r, "fetch")
     /\ UNCHANGED <<now, cache, keyVars, validation, tokens, client, usageLogs>>

OverLimit(r) ==
  LET k == key[r]
      window == Pruned(customerRequestWindows[ownerOf[k]])
  IN /\ pc[r] = "body"
     /\ rateLimitRpm[k] > 0
     /\ Len(window) >= rateLimitRpm[k]
     /\ customerRequestWindows' = [customerRequestWindows EXCEPT ![ownerOf[k]] = window]
     /\ refuses(r)
     /\ UNCHANGED <<now, cache, keyVars, client, usageLogs>>

\* readRawBody rejects (4 MB, a broken connection), or the body is not JSON.
BadBody(r) ==
  /\ pc[r] = "body"
  /\ refuses(r)
  /\ UNCHANGED <<others, cache>>

\* 502 when fetch throws; an upstream error is passed on when r does not stream.
UpstreamFails(r) ==
  /\ pc[r] = "fetch"
  /\ refuses(r)
  /\ UNCHANGED <<others, cache>>

UpstreamAnswers(r) ==
  /\ pc[r] = "fetch"
  /\ goesOn(r, IF streams[r] THEN "stream" ELSE "text")
  /\ UNCHANGED <<others, cache, validation, tokens>>

\* The client of r closes its connection; how much it got is no longer told.  Nothing
\* tells the handler, which is somewhere in an await (while it awaits the upstream's
\* first answer, that makes no difference).
ClientLeaves(r) ==
  /\ pc[r] \in {"stream", "text"}
  /\ ~client[r].gone
  /\ client' = [client EXCEPT ![r] = [gone |-> TRUE, gotIn |-> 0, gotOut |-> 0]]
  /\ UNCHANGED <<now, keyVars, cache, pc, validation, tokens, customerRequestWindows, usageLogs>>

\* What the upstream sent for a request and what is counted of it become t, and
\* the client has got it all; for one that is gone the write does not throw.
counts(r, t) ==
  /\ tokens' = [tokens EXCEPT ![r] = t]
  /\ client' = IF client[r].gone THEN client
               ELSE [client EXCEPT ![r] = [gone |-> FALSE, gotIn |-> t.sentIn, gotOut |-> t.sentOut]]
  /\ UNCHANGED <<now, keyVars, cache, validation, customerRequestWindows, usageLogs>>

\* The upstream sends a piece of the stream; its usage is parsed when the data
\* line came in one chunk, and skipped as invalid JSON when it was split.
StartEvent(r, whole) ==
  /\ pc[r] = "stream" /\ UNCHANGED pc
  /\ tokens[r].sentIn = 0
  /\ counts(r, [tokens[r] EXCEPT !.sentIn = usageOf[r].input, !.split = ~whole,
                   !.inputTokens = IF whole THEN usageOf[r].input ELSE 0])

\* Faulty: adds the counts up.
DeltaEventAdded(r, whole) ==
  LET n == tokens[r].sentOut + 1
  IN /\ pc[r] = "stream" /\ UNCHANGED pc
     /\ tokens[r].sentIn > 0
     /\ n <= usageOf[r].output
     /\ counts(r, [tokens[r] EXCEPT !.sentOut = n, !.split = @ \/ ~whole,
                      !.outputTokens = IF whole THEN @ + n ELSE @])

\* message_delta counts the output so far.
DeltaEvent(r, whole) ==
  LET n == tokens[r].sentOut + 1
  IN /\ pc[r] = "stream" /\ UNCHANGED pc
     /\ tokens[r].sentIn > 0
     /\ n <= usageOf[r].output
     /\ counts(r, [tokens[r] EXCEPT !.sentOut = n, !.split = @ \/ ~whole,
                      !.outputTokens = IF whole THEN n ELSE @])

\* Faulty: logs only what got an answer.
StreamEndsWithOutput(r) ==
  /\ pc[r] = "stream"
  /\ goesOn(r, IF tokens[r].outputTokens > 0 THEN "log" ELSE "end")
  /\ UNCHANGED <<others, cache, validation, tokens>>

\* The stream is over, or the upstream broke it off; what was seen is logged,
\* also for a client that is gone: its leaving ends nothing.
StreamEnds(r) ==
  /\ pc[r] = "stream"
  /\ goesOn(r, IF tokens[r].inputTokens > 0 \/ tokens[r].outputTokens > 0 THEN "log" ELSE "end")
  /\ UNCHANGED <<others, cache, validation, tokens>>

\* handleNonStreamingResponse: forwards the answer, then reads its usage, if any.
TextAnswered(r) ==
  LET usage == usageOf[r]
  IN /\ pc[r] = "text"
     /\ goesOn(r, "log")
     /\ counts(r, [tokens[r] EXCEPT !.sentIn = usage.input, !.sentOut = usage.output,
                      !.inputTokens = usage.input, !.outputTokens = usage.output])

TextWithoutUsage(r) ==
  /\ pc[r] = "text"
  /\ goesOn(r, "end")
  /\ UNCHANGED <<others, cache, validation, tokens>>

-----------------------------------------------------------------------------
(* Metering.                                                               *)

\* calculateCost, in millionths of the pricing table's unit.
calculateCost(model, i, o) ==
  LET pricing == IF model \in DOMAIN MODEL_PRICING THEN MODEL_PRICING[model] ELSE FALLBACK_PRICING
  IN i * pricing.input + o * pricing.output

\* logUsage runs beside the answered request: a row, or an error that is printed.
LogUsage(r) ==
  LET c == ownerOf[key[r]]
      model == IF streams[r] THEN modelOf[r] ELSE resolved[r]
      cost == calculateCost(model, tokens[r].inputTokens, tokens[r].outputTokens)
      forgotten == [tokens[r] EXCEPT !.inputTokens = 0, !.outputTokens = 0]
  IN /\ pc[r] = "log"
     /\ goesOn(r, "end")
     /\ \/ /\ c \in billingCustomer
           /\ usageLogs' = usageLogs \cup
                {[request |-> r, customer |-> c, model |-> model, at |-> now,
                  inputTokens |-> tokens[r].inputTokens, outputTokens |-> tokens[r].outputTokens,
                  cost |-> 100 * cost, margin |-> marginPercent * cost]}
           /\ tokens' = [tokens EXCEPT ![r] = forgotten]
        \/ /\ usageLogs' = usageLogs
           /\ tokens' = [tokens EXCEPT ![r] = [forgotten EXCEPT !.lost = TRUE]]
     /\ UNCHANGED <<now, cache, keyVars, validation, client, customerRequestWindows>>

\* getUsageSummary: the rows of a customer and a period, grouped by model, and
\* the totals as the sums over the groups.
UsageSummary(c, since, until) ==
  LET rows == {u \in usageLogs : u.customer = c /\ since <= u.at /\ u.at <= until}
      group(m) == {u \in rows : u.model = m}
      models == {u.model : u \in rows}
      total(Value(_)) == MapThenSumSet(LAMBDA m : MapThenSumSet(Value, group(m)), models)
  IN [requests |-> MapThenSumSet(LAMBDA m : Cardinality(group(m)), models),
      inputTokens |-> total(LAMBDA u : u.inputTokens),
      outputTokens |-> total(LAMBDA u : u.outputTokens),
      charge |-> total(LAMBDA u : u.cost + u.margin)]

-----------------------------------------------------------------------------
Tick ==
  /\ now < MaxTime
  /\ \A r \in Requests : pc[r] = "found" => now < readAt[r] + MaxLookup
  /\ now' = now + 1
  /\ UNCHANGED <<cache, keyVars, callVars, customerRequestWindows, usageLogs>>

Next ==
  \/ \E k \in Keys : CreateApiKey(k)
  \/ \E v \in Revokers, k \in Keys : FindRevoked(v, k) \/ FindNone(v, k)
  \/ \E v \in Revokers : UpdateRevoked(v) \/ ClearCache(v)
  \/ \E r \in Requests : ReceiveWithoutKey(r) \/ (\E k \in Keys : Receive(r, k))
  \/ \E r \in Requests : LookUp(r) \/ CacheCustomer(r)
  \/ \E r \in Requests : Admit(r) \/ OverLimit(r) \/ BadBody(r)
  \/ \E r \in Requests : UpstreamFails(r) \/ UpstreamAnswers(r) \/ ClientLeaves(r)
  \/ \E r \in Requests, whole \in BOOLEAN : StartEvent(r, whole) \/ DeltaEvent(r, whole)
  \/ \E r \in Requests : StreamEnds(r) \/ TextAnswered(r) \/ TextWithoutUsage(r)
  \/ \E r \in Requests : LogUsage(r)
  \/ Tick

Spec == Init /\ [][Next]_vars

-----------------------------------------------------------------------------
\* A key stops working: whatever validateApiKey was doing while the key was
\* revoked (api-keys.ts:41-76, 131-136), a call is let through with it only for
\* the time a cache entry lives after the last lookup that saw it active.
RevocationLapses ==
  \A r \in Requests :
    validAt[r] # Never /\ ~Active(key[r])
      => validAt[r] < revokedAt[key[r]] + MaxLookup + CACHE_TTL_MS

\* A call that is over and whose data lines came whole is metered once, with
\* exactly the tokens the upstream sent for it, also when the stream broke; only
\* a failing database loses the row (llm-proxy.ts:200-223, 250-267).  A client
\* that stayed is metered no more than it got; one that left may be metered for
\* more, since its stream is read to the end.
MeteredOnce(r) ==
  LET rows == {u \in usageLogs : u.request = r}
  IN /\ Cardinality(rows) <= 1
     /\ pc[r] = "end" /\ ~tokens[r].split /\ ~tokens[r].lost /\ tokens[r].sentIn > 0 =>
          \E u \in rows : /\ u.customer = ownerOf[key[r]]
                         /\ u.inputTokens = tokens[r].sentIn
                         /\ u.outputTokens = tokens[r].sentOut
     /\ ~client[r].gone =>
          \A u \in rows : u.inputTokens <= client[r].gotIn /\ u.outputTokens <= client[r].gotOut

\* And what the summary bills a customer for is at most what the upstream sent
\* for its calls, however events were split and answers lost (metering.ts:110-183).
BilledAsServed ==
  /\ \A r \in Requests : MeteredOnce(r)
  /\ \A c \in Customers :
       LET bill == UsageSummary(c, 0, now)
           served == {r \in Requests : key[r] # NoKey /\ ownerOf[key[r]] = c
                                      /\ pc[r] \in {"stream", "text", "log", "end"}}
       IN /\ bill.requests <= Cardinality(served)
          /\ bill.inputTokens <= MapThenSumSet(LAMBDA r : tokens[r].sentIn, served)
          /\ bill.outputTokens <= MapThenSumSet(LAMBDA r : tokens[r].sentOut, served)
=============================================================================
