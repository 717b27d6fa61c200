----------------------------- MODULE BotRuntime -----------------------------
(***************************************************************************)
(* BotRuntime: concurrent calls of processMessage ask the model, run the   *)
(* tools it requests and ask again.  A call keeps the array getHistory     *)
(* returned across its awaits; trimHistory puts a copy in the map and      *)
(* clearHistory takes the array out, so a call may be adding to an array   *)
(* that is no longer the conversation.  Arrays therefore have an identity, *)
(* their index in `arrays'.  A string or block a message holds is          *)
(* represented by the call, the turn and the tool calls it is about.       *)
(***************************************************************************)
EXTENDS CircuitBreaker, FiniteSets

CONSTANTS
  Messages,           \* the calls of processMessage
  Chats,
  sessionKey,         \* [Messages -> Chats]
  permissions,        \* [Messages -> SUBSET Levels]: of the message's adapter
  READ_TOOLS, WRITE_TOOLS, EXECUTE_TOOLS,
  tools,              \* the tools the bot is configured with
  ToolRequests,       \* the lists of tool names a model may answer with
  maxTurns,
  MAX_HISTORY,
  MaxTime             \* bound of the clock

ASSUME BotRuntimeAssumption ==
  /\ sessionKey \in [Messages -> Chats]
  /\ permissions \in [Messages -> SUBSET {"canRead", "canWrite", "canExecute"}]
  /\ ToolRequests \subseteq Seq(STRING) \ {<<>>}
  /\ {maxTurns, MAX_HISTORY} \subseteq Nat \ {0}
  /\ MaxTime \in Nat

VARIABLES
  now,
  breaker,
  arrays,             \* every history array made so far
  conversations,      \* the map: index of the chat's array, 0 when it has none
  phase,              \* "new", "asking", "executing", or how the call ended
  history,            \* the array the call holds, 0 when it holds none
  turns,
  todo,               \* the allowed tool calls that are left to execute
  blocked,            \* the tool calls of the turn that are not allowed
  toolResults,
  startedAt           \* when the breaker let the call through (for properties)

callVars == <<phase, history, turns, todo, blocked, toolResults, startedAt>>
vars == <<now, breaker, arrays, conversations, callVars>>

Pending == {"asking", "executing"}
Phases == Pending \cup {"new", "failedFast", "answered", "failed", "exhausted"}

-----------------------------------------------------------------------------
\* The permission guard.

classifyTool(t) ==
  CASE t \in EXECUTE_TOOLS -> "canExecute"
    [] t \in WRITE_TOOLS \ EXECUTE_TOOLS -> "canWrite"
    [] t \in READ_TOOLS \ (WRITE_TOOLS \cup EXECUTE_TOOLS) -> "canRead"
    [] OTHER -> "unknown"

checkToolPermission(t, granted) == classifyTool(t) \in granted

filterToolsForPermissions(granted) ==
  {t \in tools : \/ "canRead" \in granted /\ t \in READ_TOOLS
                 \/ "canWrite" \in granted /\ t \in WRITE_TOOLS
                 \/ "canExecute" \in granted /\ t \in EXECUTE_TOOLS}

\* guardToolUseBlocks: the tool calls of a response that are allowed.  The
\* others are blocked.
guardToolUseBlocks(m, calls) ==
  {c \in calls : checkToolPermission(c.tool, permissions[m])}

\* The blocks of a response.  Results name their block by its id, so a list
\* of blocks or results is the set of its calls, each with its outcome:
\* "asked", "result", "error" or "denied".
toolUseBlocks(request) ==
  {[id |-> i, tool |-> request[i], outcome |-> "asked"] : i \in DOMAIN request}

with(outcome, calls) == {[c EXCEPT !.outcome = outcome] : c \in calls}

-----------------------------------------------------------------------------
\* The conversation.

Entry(kind, m, turn, calls) == [kind |-> kind, of |-> m, turn |-> turn, calls |-> calls]

push(heap, i, e) == [heap EXCEPT ![i] = Append(@, e)]

latest(h) == SubSeq(h, Len(h) - MAX_HISTORY + 1, Len(h))

TooLong(heap, c) == conversations[c] # 0 /\ Len(heap[conversations[c]]) > MAX_HISTORY

\* Faulty: the array is cut where it is, also for the calls that hold it.
trimHistoryInPlace(heap, c) ==
  /\ arrays' = IF TooLong(heap, c) THEN [heap EXCEPT ![conversations[c]] = latest(@)] ELSE heap
  /\ UNCHANGED conversations

\* Faulty: the entry that is too many stays.
trimHistoryLate(heap, c) ==
  \/ /\ TooLong(heap, c) /\ Len(heap[conversations[c]]) > MAX_HISTORY + 1
     /\ arrays' = Append(heap, latest(heap[conversations[c]]))
     /\ conversations' = [conversations EXCEPT ![c] = Len(heap) + 1]
  \/ /\ ~(TooLong(heap, c) /\ Len(heap[conversations[c]]) > MAX_HISTORY + 1)
     /\ arrays' = heap
     /\ UNCHANGED conversations

\* The end of an answered call, whose entries have left `heap': the
\* chat's array in the map, which need not be the one the call holds, is
\* replaced by a copy of its end when it is too long.
trimHistory(heap, c) ==
  \/ /\ TooLong(heap, c)
     /\ arrays' = Append(heap, latest(heap[conversations[c]]))
     /\ conversations' = [conversations EXCEPT ![c] = Len(heap) + 1]
  \/ /\ ~TooLong(heap, c)
     /\ arrays' = heap
     /\ UNCHANGED conversations

-----------------------------------------------------------------------------
Init ==
  /\ now = 0
  /\ breaker = NewBreaker(0)
  /\ arrays = <<>>
  /\ conversations = [c \in Chats |-> 0]
  /\ phase = [m \in Messages |-> "new"]
  /\ history = [m \in Messages |-> 0]
  /\ turns = [m \in Messages |-> 0]
  /\ todo = [m \in Messages |-> {}]
  /\ blocked = [m \in Messages |-> {}]
  /\ toolResults = [m \in Messages |-> {}]
  /\ startedAt = [m \in Messages |-> 0]

\* The locals of a turn that is over, and of a call that is over.
turnOver(m) ==
  /\ todo' = [todo EXCEPT ![m] = {}]
  /\ blocked' = [blocked EXCEPT ![m] = {}]
  /\ toolResults' = [toolResults EXCEPT ![m] = {}]

ended(m, how) ==
  /\ phase' = [phase EXCEPT ![m] = how]
  /\ history' = [history EXCEPT ![m] = 0]
  /\ turns' = [turns EXCEPT ![m] = 0]
  /\ turnOver(m)
  /\ startedAt' = [startedAt EXCEPT ![m] = 0]

FailFast(m) ==
  /\ phase[m] = "new"
  /\ ~canRequest(breaker, now)
  /\ breaker' = afterCanRequest(breaker, now)
  /\ ended(m, "failedFast")
  /\ UNCHANGED <<now, arrays, conversations>>

\* Up to the first createMessage; getHistory makes the array of a new chat.
Ask(m) ==
  LET c == sessionKey[m]
      known == conversations[c] # 0
      heap == IF known THEN arrays ELSE Append(arrays, <<>>)
      i == IF known THEN conversations[c] ELSE Len(heap)
  IN  /\ phase[m] = "new"
      /\ canRequest(breaker, now)
      /\ breaker' = afterCanRequest(breaker, now)
      /\ arrays' = push(heap, i, Entry("question", m, 0, {}))
      /\ conversations' = [conversations EXCEPT ![c] = i]
      /\ history' = [history EXCEPT ![m] = i]
      /\ phase' = [phase EXCEPT ![m] = "asking"]
      /\ turns' = [turns EXCEPT ![m] = 1]
      /\ startedAt' = [startedAt EXCEPT ![m] = now]
      /\ UNCHANGED <<now, todo, blocked, toolResults>>

\* createMessage rejects, and processMessage with it.
ModelFails(m) ==
  /\ phase[m] = "asking"
  /\ breaker' = recordFailure(breaker, now)
  /\ ended(m, "failed")
  /\ UNCHANGED <<now, arrays, conversations>>

\* The response requests no tool.
ModelAnswers(m) ==
  /\ phase[m] = "asking"
  /\ breaker' = recordSuccess(breaker, now)
  /\ trimHistory(push(arrays, history[m], Entry("answer", m, turns[m], {})), sessionKey[m])
  /\ ended(m, "answered")
  /\ UNCHANGED now

LastTurn(m) == turns[m] = maxTurns

\* The rest of a turn once no allowed tool is left: the results go to the
\* history in `heap', and the model is asked again unless this was the last turn.
turnEnds(m, heap, results) ==
  /\ arrays' = push(heap, history[m], Entry("results", m, turns[m], results))
  /\ \/ /\ LastTurn(m)
        /\ ended(m, "exhausted")
     \/ /\ ~LastTurn(m)
        /\ phase' = [phase EXCEPT ![m] = "asking"]
        /\ turns' = [turns EXCEPT ![m] = @ + 1]
        /\ turnOver(m)
        /\ UNCHANGED <<history, startedAt>>

\* The response requests tools: the first allowed one is called, or, when
\* there is none, the model is told so at once.
ModelUsesTools(m) ==
  \E request \in ToolRequests :
    LET calls == toolUseBlocks(request)
        allowed == guardToolUseBlocks(m, calls)
        heap == push(arrays, history[m], Entry("use", m, turns[m], calls))
    IN  /\ phase[m] = "asking"
        /\ breaker' = recordSuccess(breaker, now)
        /\ UNCHANGED <<now, conversations>>
        /\ \/ /\ allowed = {}
              /\ turnEnds(m, heap, with("denied", calls))
           \/ /\ allowed # {}
              /\ arrays' = heap
              /\ phase' = [phase EXCEPT ![m] = "executing"]
              /\ todo' = [todo EXCEPT ![m] = allowed]
              /\ blocked' = [blocked EXCEPT ![m] = calls \ allowed]
              /\ UNCHANGED <<history, turns, toolResults, startedAt>>

\* Faulty: an error leaves the loop, and with it the tools after it.
ToolEndsLoop(m) ==
  \E c \in todo[m], outcome \in {"result", "error"} :
    LET results == toolResults[m] \cup with(outcome, {c})
    IN  /\ phase[m] = "executing"
        /\ \A d \in todo[m] : c.id <= d.id
        /\ UNCHANGED <<now, breaker, conversations>>
        /\ \/ /\ todo[m] # {c} /\ outcome # "error"
              /\ todo' = [todo EXCEPT ![m] = @ \ {c}]
              /\ toolResults' = [toolResults EXCEPT ![m] = results]
              /\ UNCHANGED <<arrays, phase, history, turns, blocked, startedAt>>
           \/ /\ todo[m] = {c} \/ outcome = "error"
              /\ turnEnds(m, arrays, results \cup with("denied", blocked[m]))

\* toolExecutor resolves or rejects for the tool under way, the first of todo.
ToolEnds(m) ==
  \E c \in todo[m], outcome \in {"result", "error"} :
    LET results == toolResults[m] \cup with(outcome, {c})
    IN  /\ phase[m] = "executing"
        /\ \A d \in todo[m] : c.id <= d.id
        /\ UNCHANGED <<now, breaker, conversations>>
        /\ \/ /\ todo[m] # {c}
              /\ todo' = [todo EXCEPT ![m] = @ \ {c}]
              /\ toolResults' = [toolResults EXCEPT ![m] = results]
              /\ UNCHANGED <<arrays, phase, history, turns, blocked, startedAt>>
           \/ /\ todo[m] = {c}
              /\ turnEnds(m, arrays, results \cup with("denied", blocked[m]))

\* clearHistory and getCircuitState are called by the runtime's owner.
clearHistory(c) ==
  /\ conversations[c] # 0
  /\ conversations' = [conversations EXCEPT ![c] = 0]
  /\ UNCHANGED <<now, breaker, arrays, callVars>>

getCircuitState ==
  /\ breaker' = halfOpened(pruneRecords(breaker, now), now)
  /\ UNCHANGED <<now, arrays, conversations, callVars>>

Tick ==
  /\ now < MaxTime
  /\ now' = now + 1
  /\ UNCHANGED <<breaker, arrays, conversations, callVars>>

Next ==
  \/ \E m \in Messages :
       \/ FailFast(m)
       \/ Ask(m)
       \/ ModelFails(m)
       \/ ModelAnswers(m)
       \/ ModelUsesTools(m)
       \/ ToolEnds(m)
  \/ \E c \in Chats : clearHistory(c)
  \/ getCircuitState
  \/ Tick

Spec == Init /\ [][Next]_vars

-----------------------------------------------------------------------------
ToolCalls == [id : Nat, tool : STRING, outcome : {"asked", "result", "error", "denied"}]

Entries ==
  [kind : {"question", "use", "results", "answer"},
   of : Messages,
   turn : 0..maxTurns,
   calls : SUBSET ToolCalls]

\* The place of an entry in the dialogue of its call: question, use and
\* results of the first turn, use and results of the second, ...
step(e) == CASE e.kind = "question" -> 1
             [] e.kind = "use"      -> 2 * e.turn
             [] e.kind = "results"  -> 2 * e.turn + 1
             [] e.kind = "answer"   -> 2 * e.turn

\* The entries of m in the array h are the first n of its dialogue, in order.
Dialogue(h, m, n) ==
  LET own == {i \in DOMAIN h : h[i].of = m}
  IN  /\ {step(h[i]) : i \in own} = 1..n
      /\ \A i, j \in own : i < j => step(h[i]) < step(h[j])

\* How much of its dialogue a call has had.
spoken(m) == IF phase[m] = "asking" THEN 2 * turns[m] - 1 ELSE 2 * turns[m]

\* What the model is asked with contains the call's own dialogue, whole and
\* in order, whatever the other calls of the chat add to the array or trim
\* from the map.
CallSeesItself ==
  \A m \in Messages :
    phase[m] \in Pending => Dialogue(arrays[history[m]], m, spoken(m))

Contents(h) == {h[i] : i \in DOMAIN h}

\* The calls of e have one outcome each, and ran if and only if they may.
Decided(e) ==
  \A c \in e.calls :
    /\ c.outcome # "asked"
    /\ c.outcome = "denied" <=> ~checkToolPermission(c.tool, permissions[e.of])
    /\ \A d \in e.calls : c.id = d.id => c = d

SameTurn(e, f) == e.of = f.of /\ e.turn = f.turn

\* The results of a turn answer exactly the tool uses of that turn, each with
\* one outcome, and a tool ran if and only if the message's own permissions
\* allow it, whosever calls with other permissions share the conversation.
ToolsAnswered ==
  \A n \in DOMAIN arrays : \A e \in Contents(arrays[n]) :
    e.kind = "results" =>
      /\ Decided(e)
      /\ \A u \in Contents(arrays[n]) :
           u.kind = "use" /\ SameTurn(u, e) => u.calls = with("asked", e.calls)

\* Failing fast: the calls in their first turn while the circuit is open
\* were all let through before it opened.
FirstTurnsBeforeOpen ==
  breaker.state = "open" =>
    \A m \in Messages : phase[m] \in Pending /\ turns[m] = 1
                          => startedAt[m] <= breaker.lastStateChange

\* The places of h with an entry of an answered call.
answeredIn(h) == {i \in DOMAIN h : phase[h[i].of] = "answered"}

\* Whatever array an answered call held, the chat's conversation keeps at
\* most MAX_HISTORY entries of answered calls.
AnsweredBounded ==
  \A c \in Chats :
    conversations[c] # 0 =>
      Cardinality(answeredIn(arrays[conversations[c]])) <= MAX_HISTORY
=============================================================================
