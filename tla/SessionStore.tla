---------------------------- MODULE SessionStore ----------------------------
(***************************************************************************)
(* SessionStore: conversation sessions in memory, written behind to        *)
(* PostgreSQL and read back on the first access of a customer and bot      *)
(* after a start.  The client is Gateway.handleMessage, which adds the     *)
(* user's message, awaits the bot, and adds the answer to the session id   *)
(* it holds by then for seconds.                                           *)
(*                                                                         *)
(* A persist takes its snapshot a microtask after the handler's step, when *)
(* the Prisma client has been awaited, and is then one of several queries  *)
(* of a connection pool, which may arrive in any order or fail.            *)
(***************************************************************************)
EXTENDS Naturals, Sequences, FiniteSets

CONSTANTS
  Msgs,               \* inbound messages that are handed to a bot
  Keys,               \* customerId:botId
  KeyOf,              \* [Msgs -> Keys]
  Ids,                \* what randomUUID may return
  idleTimeoutMs,
  maxMessages,
  Kept,               \* messages kept by markForSummary (10)
  MaxWrites,          \* most upserts on their way at once (the connection pool)
  MaxTime, MaxCrashes \* bounds of the model

ASSUME SessionAssumption ==
  /\ KeyOf \in [Msgs -> Keys]
  /\ {idleTimeoutMs, maxMessages, Kept, MaxWrites, MaxTime, MaxCrashes} \subseteq Nat
  /\ Kept > 0 /\ maxMessages > 0

VARIABLES
  now,
  sessions,        \* [Keys -> set of at most one session]: the Map
  loadedFromDB,
  loading,         \* [Keys -> "none", "asked" or "read"]: the background load
  found,           \* [Keys -> set of at most one row]: what its query returned
  writes,          \* upserts on their way, each with its snapshot
  db,              \* the rows of gateway.sessions
  usedIds,
  handler,         \* "new", "asking", "done" or "lost"
  sessionOf,       \* [Msgs -> set of at most one id]: the sessionId a handler holds
  added,           \* [Ids -> Seq]: every message added to a session (for properties)
  crashes

vars == <<now, sessions, loadedFromDB, loading, found, writes, db, usedIds, handler,
          sessionOf, added, crashes>>

InMemory == UNION {sessions[k] : k \in Keys}

-----------------------------------------------------------------------------
Init ==
  /\ now = 1
  /\ sessions = [k \in Keys |-> {}]
  /\ loadedFromDB = {}
  /\ loading = [k \in Keys |-> "none"]
  /\ found = [k \in Keys |-> {}]
  /\ writes = {}
  /\ db = {}
  /\ usedIds = {}
  /\ handler = [m \in Msgs |-> "new"]
  /\ sessionOf = [m \in Msgs |-> {}]
  /\ added = [i \in Ids |-> <<>>]
  /\ crashes = 0

\* Faulty: the history is trimmed one message late.
markForSummaryLate(s) ==
  LET n == Len(s.messages)
  IN  [s EXCEPT !.messages = IF n > Kept + 1 THEN SubSeq(@, n - Kept + 1, n) ELSE @,
                !.status = "active"]

\* The most recent Kept messages; the session is active again, even a closed one.
markForSummary(s) ==
  LET n == Len(s.messages)
  IN  [s EXCEPT !.messages = IF n > Kept THEN SubSeq(@, n - Kept + 1, n) ELSE @,
                !.status = "active"]

withMessage(s, e) ==
  LET longer == [s EXCEPT !.messages = Append(@, e), !.messageCount = @ + 1,
                          !.lastMessageAt = now]
  IN  IF longer.messageCount >= maxMessages THEN markForSummary(longer) ELSE longer

Idle(s) == now - s.lastMessageAt >= idleTimeoutMs

Usable(s) == s.status = "active" /\ ~Idle(s)

\* The sessions closed because getOrCreate found them idle.
expired(k) == {[s EXCEPT !.status = "closed"] : s \in {t \in sessions[k] : t.status = "active" /\ Idle(t)}}

newSession(id, k) ==
  [id |-> id, key |-> k, messages |-> <<>>, messageCount |-> 0,
   lastMessageAt |-> now, status |-> "active"]

\* The first access of a key since the start has the row loaded in the background.
startLoad(k) ==
  /\ loadedFromDB' = loadedFromDB \cup {k}
  /\ loading' = IF k \in loadedFromDB THEN loading ELSE [loading EXCEPT ![k] = "asked"]

\* handleMessage: getOrCreate finds a session in use, and the user's message
\* is added to it.
ResumeSession(m) ==
  LET k == KeyOf[m] IN
  /\ handler[m] = "new"
  /\ \E s \in sessions[k] :
       /\ Usable(s)
       /\ sessions' = [sessions EXCEPT ![k] = {withMessage(s, <<"user", m>>)}]
       /\ sessionOf' = [sessionOf EXCEPT ![m] = {s.id}]
       /\ added' = [added EXCEPT ![s.id] = Append(@, <<"user", m>>)]
  /\ writes' = writes \cup sessions'[k]
  /\ startLoad(k)
  /\ handler' = [handler EXCEPT ![m] = "asking"]
  /\ UNCHANGED <<now, found, db, usedIds, crashes>>

\* handleMessage: getOrCreate closes an idle session and creates one.
CreateSession(m) ==
  LET k == KeyOf[m] IN
  /\ handler[m] = "new"
  /\ \A s \in sessions[k] : ~Usable(s)
  /\ \E id \in Ids \ usedIds :
       /\ sessions' = [sessions EXCEPT ![k] = {withMessage(newSession(id, k), <<"user", m>>)}]
       /\ sessionOf' = [sessionOf EXCEPT ![m] = {id}]
       /\ added' = [added EXCEPT ![id] = <<<<"user", m>>>>]
       /\ usedIds' = usedIds \cup {id}
  /\ writes' = writes \cup expired(k) \cup sessions'[k]
  /\ startLoad(k)
  /\ handler' = [handler EXCEPT ![m] = "asking"]
  /\ UNCHANGED <<now, found, db, crashes>>

\* Faulty: the answer goes to the customer's session of the moment.
AddAnswerByKey(m) ==
  /\ handler[m] = "asking"
  /\ \E s \in sessions[KeyOf[m]] :
       /\ sessions' = [sessions EXCEPT ![s.key] = {withMessage(s, <<"assistant", m>>)}]
       /\ writes' = writes \cup sessions'[s.key]
       /\ added' = [added EXCEPT ![s.id] = Append(@, <<"assistant", m>>)]
  /\ handler' = [handler EXCEPT ![m] = "done"]
  /\ UNCHANGED <<now, loadedFromDB, loading, found, db, usedIds, sessionOf, crashes>>

\* handleMessage, the bot having answered: addMessage finds the session by id.
AddAnswer(m) ==
  /\ handler[m] = "asking"
  /\ \E s \in InMemory :
       /\ s.id \in sessionOf[m]
       /\ sessions' = [sessions EXCEPT ![s.key] = {withMessage(s, <<"assistant", m>>)}]
       /\ writes' = writes \cup sessions'[s.key]
       /\ added' = [added EXCEPT ![s.id] = Append(@, <<"assistant", m>>)]
  /\ handler' = [handler EXCEPT ![m] = "done"]
  /\ UNCHANGED <<now, loadedFromDB, loading, found, db, usedIds, sessionOf, crashes>>

\* addMessage does not find the session any more, and returns; or the bot failed.
DropAnswer(m) ==
  /\ handler[m] = "asking"
  /\ handler' = [handler EXCEPT ![m] = "done"]
  /\ UNCHANGED <<now, sessions, loadedFromDB, loading, found, writes, db, usedIds, sessionOf,
                 added, crashes>>

-----------------------------------------------------------------------------
(* The rest of the store's interface.                                      *)

close(k) ==
  /\ \E s \in sessions[k] : sessions' = [sessions EXCEPT ![k] = {[s EXCEPT !.status = "closed"]}]
  /\ writes' = writes \cup sessions'[k]
  /\ UNCHANGED <<now, loadedFromDB, loading, found, db, usedIds, handler, sessionOf, added, crashes>>

expireIdleSessions ==
  /\ sessions' = [k \in Keys |-> IF expired(k) # {} THEN expired(k) ELSE sessions[k]]
  /\ writes' = writes \cup UNION {expired(k) : k \in Keys}
  /\ UNCHANGED <<now, loadedFromDB, loading, found, db, usedIds, handler, sessionOf, added, crashes>>

\* The token counts are left out; the session is persisted again.
recordTokens(k) ==
  /\ writes' = writes \cup sessions[k]
  /\ UNCHANGED <<now, sessions, loadedFromDB, loading, found, db, usedIds, handler, sessionOf,
                 added, crashes>>

-----------------------------------------------------------------------------
(* The database.                                                           *)

\* findFirst: an active row of the key with the latest message, if there is one.
Latest(k) ==
  LET rows == {r \in db : r.key = k /\ r.status = "active"}
  IN  {r \in rows : \A q \in rows : q.lastMessageAt <= r.lastMessageAt}

LoadReads(k) ==
  /\ loading[k] = "asked"
  /\ loading' = [loading EXCEPT ![k] = "read"]
  /\ \/ \E r \in Latest(k) : found' = [found EXCEPT ![k] = {r}]
     \/ Latest(k) = {} /\ UNCHANGED found
  /\ UNCHANGED <<now, sessions, loadedFromDB, writes, db, usedIds, handler, sessionOf,
                 added, crashes>>

\* The query failed, which is logged and not tried again.
LoadFails(k) ==
  /\ loading[k] = "asked"
  /\ loading' = [loading EXCEPT ![k] = "none"]
  /\ UNCHANGED <<now, sessions, loadedFromDB, found, writes, db, usedIds, handler, sessionOf,
                 added, crashes>>

\* Faulty: what is in memory by now is put in front of what was loaded.
LoadedMerged(k) ==
  /\ loading[k] = "read"
  /\ \E r \in found[k] :
       /\ ~Idle(r)
       /\ sessions' = [sessions EXCEPT ![k] =
            {[r EXCEPT !.messages = s.messages \o @] : s \in sessions[k]}]
  /\ loading' = [loading EXCEPT ![k] = "none"]
  /\ found' = [found EXCEPT ![k] = {}]
  /\ UNCHANGED <<now, loadedFromDB, writes, db, usedIds, handler, sessionOf, added, crashes>>

\* The loaded session takes the place of whatever was created meanwhile.
Loaded(k) ==
  /\ loading[k] = "read"
  /\ \E r \in found[k] :
       /\ ~Idle(r)
       /\ sessions' = [sessions EXCEPT ![k] = {r}]
  /\ loading' = [loading EXCEPT ![k] = "none"]
  /\ found' = [found EXCEPT ![k] = {}]
  /\ UNCHANGED <<now, loadedFromDB, writes, db, usedIds, handler, sessionOf, added, crashes>>

\* No row, or an idle one, whose status is written back.
NothingLoaded(k) ==
  /\ loading[k] = "read"
  /\ \A r \in found[k] : Idle(r)
  /\ writes' = writes \cup {[r EXCEPT !.status = "closed"] : r \in found[k]}
  /\ loading' = [loading EXCEPT ![k] = "none"]
  /\ found' = [found EXCEPT ![k] = {}]
  /\ UNCHANGED <<now, sessions, loadedFromDB, db, usedIds, handler, sessionOf, added, crashes>>

Written(w) ==
  /\ db' = {r \in db : r.id # w.id} \cup {w}
  /\ writes' = writes \ {w}
  /\ UNCHANGED <<now, sessions, loadedFromDB, loading, found, usedIds, handler, sessionOf,
                 added, crashes>>

WriteFails(w) ==
  /\ writes' = writes \ {w}
  /\ UNCHANGED <<now, sessions, loadedFromDB, loading, found, db, usedIds, handler, sessionOf,
                 added, crashes>>

\* The gateway dies and starts again: what is in memory or on its way is lost.
Restart ==
  /\ crashes < MaxCrashes
  /\ crashes' = crashes + 1
  /\ sessions' = [k \in Keys |-> {}]
  /\ loadedFromDB' = {}
  /\ loading' = [k \in Keys |-> "none"]
  /\ found' = [k \in Keys |-> {}]
  /\ writes' = {}
  /\ handler' = [m \in Msgs |-> IF handler[m] = "asking" THEN "lost" ELSE handler[m]]
  /\ UNCHANGED <<now, db, usedIds, sessionOf, added>>

Tick ==
  /\ now < MaxTime
  /\ now' = now + 1
  /\ UNCHANGED <<sessions, loadedFromDB, loading, found, writes, db, usedIds, handler,
                 sessionOf, added, crashes>>

StoreStep ==
  \/ \E m \in Msgs : ResumeSession(m) \/ CreateSession(m) \/ AddAnswer(m) \/ DropAnswer(m)
  \/ \E k \in Keys : close(k) \/ recordTokens(k)
  \/ expireIdleSessions
  \/ \E k \in Keys : LoadReads(k) \/ LoadFails(k) \/ Loaded(k) \/ NothingLoaded(k)

Next ==
  \/ StoreStep /\ Cardinality(writes') <= MaxWrites
  \/ \E w \in writes : Written(w) \/ WriteFails(w)
  \/ Restart
  \/ Tick

Spec == Init /\ [][Next]_vars

-----------------------------------------------------------------------------
\* Wherever a session is kept - in memory, in a query, in a row - it holds
\* messages that were added to it, in the order in which they were added, none
\* twice, however snapshots overtake each other and are loaded again; and no
\* more of them than the limits allow, although messageCount counts on when
\* the history is trimmed.
InOrder(messages, whole) ==
  /\ \A i \in DOMAIN messages : \E j \in DOMAIN whole : whole[j] = messages[i]
  /\ \A i, j \in DOMAIN messages : i < j =>
       \E p, q \in DOMAIN whole : p < q /\ whole[p] = messages[i] /\ whole[q] = messages[j]

HistoryInOrder ==
  \A s \in InMemory \cup writes \cup db :
    /\ InOrder(s.messages, added[s.id])
    /\ Len(s.messages) < maxMessages \/ Len(s.messages) <= Kept

\* The bot's answer is added to the session its question was added to, or to
\* none: never to the session that a load or an idle timeout has put in its
\* place while the bot was thinking.
AnswerJoinsQuestion ==
  \A id \in Ids : \A i \in DOMAIN added[id] :
    added[id][i][1] = "assistant" =>
      \E j \in 1..(i - 1) : added[id][j] = <<"user", added[id][i][2]>>

\* The session a handler works on holds the question that is being answered
\* (checked where no session is idle or trimmed).
QuestionKept ==
  \A m \in Msgs : handler[m] = "asking" =>
    \A s \in sessions[KeyOf[m]] : s.id \in sessionOf[m] =>
      \E i \in DOMAIN s.messages : s.messages[i] = <<"user", m>>
=============================================================================
