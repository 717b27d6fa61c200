-------------------------- MODULE BotRuntimeProofs --------------------------
(***************************************************************************)
(* For any messages, chats, permissions, tools and bounds: the model is    *)
(* offered what the guard allows, every call sees its own dialogue, tool   *)
(* uses are answered under the message's own permissions, new calls fail   *)
(* fast while the circuit is open, and a conversation keeps so much of     *)
(* answered calls as trimming allows.                                      *)
(***************************************************************************)
EXTENDS BotRuntime, CircuitBreakerProofs, FiniteSetTheorems, SequenceTheorems

Disjoint ==
  /\ READ_TOOLS \cap WRITE_TOOLS = {}
  /\ READ_TOOLS \cap EXECUTE_TOOLS = {}
  /\ WRITE_TOOLS \cap EXECUTE_TOOLS = {}

Levels == {"canRead", "canWrite", "canExecute"}

\* The two layers of the permission check agree: the model is offered exactly
\* those tools of the bot that the guard would let it use.  They classify
\* differently when a tool is in two lists, so the lists must be disjoint.
THEOREM OfferedIffAllowed ==
  ASSUME Disjoint, NEW granted \in SUBSET Levels
  PROVE  filterToolsForPermissions(granted) = {t \in tools : checkToolPermission(t, granted)}
<1>1. ASSUME NEW t
      PROVE  checkToolPermission(t, granted) <=>
               \/ "canRead" \in granted /\ t \in READ_TOOLS
               \/ "canWrite" \in granted /\ t \in WRITE_TOOLS
               \/ "canExecute" \in granted /\ t \in EXECUTE_TOOLS
  <2>1. CASE t \in EXECUTE_TOOLS
    BY <2>1 DEF Disjoint, checkToolPermission, classifyTool
  <2>2. CASE t \in WRITE_TOOLS
    BY <2>2 DEF Disjoint, checkToolPermission, classifyTool
  <2>3. CASE t \in READ_TOOLS
    BY <2>3 DEF Disjoint, checkToolPermission, classifyTool
  <2>4. CASE t \notin READ_TOOLS \cup WRITE_TOOLS \cup EXECUTE_TOOLS
    <3>1. classifyTool(t) = "unknown"
      BY <2>4 DEF classifyTool
    <3>2. "unknown" \notin granted
      BY DEF Levels
    <3> QED
      BY <2>4, <3>1, <3>2 DEF checkToolPermission
  <2> QED
    BY <2>1, <2>2, <2>3, <2>4
<1> QED
  BY <1>1 DEF filterToolsForPermissions

-----------------------------------------------------------------------------
(* New calls fail fast.                                                    *)

FastInv ==
  /\ now \in Nat
  /\ Shape(breaker)
  /\ startedAt \in [Messages -> Nat]
  /\ turns \in [Messages -> Nat]
  /\ phase \in [Messages -> Phases]
  /\ \A m \in Messages : startedAt[m] <= now
  /\ \A m \in Messages : phase[m] \in Pending => turns[m] > 0
  /\ FirstTurnsBeforeOpen

\* A method of the breaker is called and no call enters its first turn.
LEMMA MethodsFast ==
  ASSUME FastInv, now' = now, Shape(breaker'), OpensNow(breaker, breaker', now),
         startedAt' \in [Messages -> Nat], \A m \in Messages : startedAt'[m] <= now,
         turns' \in [Messages -> Nat], phase' \in [Messages -> Phases],
         \A m \in Messages : phase'[m] \in Pending => turns'[m] > 0,
         \A m \in Messages : phase'[m] \in Pending /\ turns'[m] = 1 =>
           phase[m] \in Pending /\ turns[m] = 1 /\ startedAt'[m] = startedAt[m]
  PROVE  FastInv'
<1>1. FirstTurnsBeforeOpen'
  BY DEF FastInv, FirstTurnsBeforeOpen, OpensNow
<1>2. Shape(breaker)'
  BY DEF Shape
<1> QED
  BY <1>1, <1>2 DEF FastInv

LEMMA EndedFast ==
  ASSUME FastInv, now' = now, NEW m \in Messages, Shape(breaker'),
         OpensNow(breaker, breaker', now), NEW how \in Phases \ Pending, ended(m, how)
  PROVE  FastInv'
<1>1. /\ startedAt' = [startedAt EXCEPT ![m] = 0]
      /\ turns' = [turns EXCEPT ![m] = 0]
      /\ phase' = [phase EXCEPT ![m] = how]
  BY DEF ended
<1>2. /\ startedAt' \in [Messages -> Nat] /\ \A q \in Messages : startedAt'[q] <= now
      /\ turns' \in [Messages -> Nat] /\ phase' \in [Messages -> Phases]
  BY <1>1 DEF FastInv
<1>3. \A q \in Messages : phase'[q] \in Pending =>
        phase'[q] = phase[q] /\ turns'[q] = turns[q] /\ startedAt'[q] = startedAt[q]
  BY <1>1 DEF FastInv
<1> QED
  BY <1>2, <1>3, MethodsFast DEF FastInv

LEMMA TurnEndsFast ==
  ASSUME FastInv, now' = now, NEW m \in Messages, phase[m] \in Pending, Shape(breaker'),
         OpensNow(breaker, breaker', now), NEW heap, NEW results, turnEnds(m, heap, results)
  PROVE  FastInv'
<1>1. CASE ended(m, "exhausted")
  BY <1>1, EndedFast DEF Phases, Pending
<1>2. CASE /\ phase' = [phase EXCEPT ![m] = "asking"]
           /\ turns' = [turns EXCEPT ![m] = @ + 1]
           /\ UNCHANGED <<history, startedAt>>
  BY <1>2, MethodsFast DEF FastInv, Phases, Pending
<1> QED
  BY <1>1, <1>2 DEF turnEnds

LEMMA FastInit == Init => FastInv
<1> SUFFICES ASSUME Init PROVE FastInv
  OBVIOUS
<1>1. breaker = [state |-> "closed", records |-> <<>>, lastStateChange |-> 0]
  BY DEF Init, NewBreaker
<1>2. Shape(breaker)
  BY <1>1 DEF Shape, CircuitStates
<1> QED
  BY <1>1, <1>2 DEF Init, FastInv, FirstTurnsBeforeOpen, Phases, Pending

LEMMA FastNext == FastInv /\ [Next]_vars => FastInv'
<1> SUFFICES ASSUME FastInv, [Next]_vars PROVE FastInv'
  OBVIOUS
<1>0. /\ now \in Nat /\ Shape(breaker) /\ OpensNow(breaker, breaker, now)
      /\ Shape(recordSuccess(breaker, now)) /\ OpensNow(breaker, recordSuccess(breaker, now), now)
      /\ Shape(recordFailure(breaker, now)) /\ OpensNow(breaker, recordFailure(breaker, now), now)
      /\ Shape(afterCanRequest(breaker, now))
      /\ OpensNow(breaker, afterCanRequest(breaker, now), now)
      /\ canRequest(breaker, now) => afterCanRequest(breaker, now).state # "open"
  <2>1. now \in Nat /\ Shape(breaker)
    BY DEF FastInv
  <2>2. OpensNow(breaker, breaker, now)
    BY DEF OpensNow
  <2> QED
    BY <2>1, <2>2, SuccessShape, FailureShape, AskedShape
<1>1. ASSUME NEW m \in Messages, FailFast(m) PROVE FastInv'
  BY <1>0, <1>1, EndedFast DEF FailFast, Phases, Pending
<1>2. ASSUME NEW m \in Messages, Ask(m) PROVE FastInv'
  <2>1. /\ breaker' = afterCanRequest(breaker, now) /\ now' = now /\ canRequest(breaker, now)
        /\ phase' = [phase EXCEPT ![m] = "asking"]
        /\ turns' = [turns EXCEPT ![m] = 1]
        /\ startedAt' = [startedAt EXCEPT ![m] = now]
    BY <1>2 DEF Ask
  <2>2. breaker'.state # "open" /\ Shape(breaker)'
    BY <1>0, <2>1 DEF Shape
  <2> QED
    BY <1>0, <2>1, <2>2 DEF FastInv, FirstTurnsBeforeOpen, Phases, Pending
<1>3. ASSUME NEW m \in Messages, ModelFails(m) PROVE FastInv'
  BY <1>0, <1>3, EndedFast DEF ModelFails, Phases, Pending
<1>4. ASSUME NEW m \in Messages, ModelAnswers(m) PROVE FastInv'
  BY <1>0, <1>4, EndedFast DEF ModelAnswers, Phases, Pending
<1>5. ASSUME NEW m \in Messages, ModelUsesTools(m) PROVE FastInv'
  <2>1. breaker' = recordSuccess(breaker, now) /\ now' = now /\ phase[m] \in Pending
    BY <1>5 DEF ModelUsesTools, Pending
  <2>2. CASE \E heap, results : turnEnds(m, heap, results)
    BY <1>0, <2>1, <2>2, TurnEndsFast
  <2>3. CASE phase' = [phase EXCEPT ![m] = "executing"] /\ UNCHANGED <<turns, startedAt>>
    BY <1>0, <2>1, <2>3, MethodsFast DEF FastInv, Phases, Pending
  <2> QED
    BY <1>5, <2>2, <2>3 DEF ModelUsesTools
<1>6. ASSUME NEW m \in Messages, ToolEnds(m) PROVE FastInv'
  <2>1. breaker' = breaker /\ now' = now /\ phase[m] \in Pending
    BY <1>6 DEF ToolEnds, Pending
  <2>2. CASE \E heap, results : turnEnds(m, heap, results)
    BY <1>0, <2>1, <2>2, TurnEndsFast
  <2>3. CASE UNCHANGED <<phase, turns, startedAt>>
    BY <1>0, <2>1, <2>3, MethodsFast DEF FastInv
  <2> QED
    BY <1>6, <2>2, <2>3 DEF ToolEnds
<1>7. ASSUME NEW c \in Chats, clearHistory(c) PROVE FastInv'
  BY <1>0, <1>7, MethodsFast DEF clearHistory, callVars, FastInv
<1>8. CASE getCircuitState
  <2>1. breaker' = afterCanRequest(breaker, now)
    BY <1>8 DEF getCircuitState, afterCanRequest
  <2> QED
    BY <1>0, <1>8, <2>1, MethodsFast DEF getCircuitState, callVars, FastInv
<1>9. CASE Tick
  BY <1>9 DEF Tick, callVars, FastInv, FirstTurnsBeforeOpen, Shape
<1>10. CASE UNCHANGED vars
  BY <1>10 DEF vars, callVars, FastInv, FirstTurnsBeforeOpen, Shape
<1> QED
  BY <1>1, <1>2, <1>3, <1>4, <1>5, <1>6, <1>7, <1>8, <1>9, <1>10 DEF Next

\* While the circuit is open, the only calls in their first turn are those
\* let through before it opened.
THEOREM NewCallsFailFast == Spec => []FirstTurnsBeforeOpen
<1>1. FastInv => FirstTurnsBeforeOpen
  BY DEF FastInv
<1> QED
  BY <1>1, FastInit, FastNext, PTL DEF Spec

-----------------------------------------------------------------------------
(* Histories: what pushing, copying and trimming do to the dialogues.      *)

Heap == Seq(Seq(Entries))

AnsweredIn(S) ==
  \A e \in S :
    e.kind = "results" =>
      /\ Decided(e)
      /\ \A u \in S : u.kind = "use" /\ SameTurn(u, e) => u.calls = with("asked", e.calls)

LEMMA EntryType ==
  ASSUME NEW kind \in {"question", "use", "results", "answer"}, NEW m \in Messages,
         NEW t \in 0..maxTurns, NEW calls \in SUBSET ToolCalls
  PROVE  /\ Entry(kind, m, t, calls) \in Entries
         /\ Entry(kind, m, t, calls).kind = kind /\ Entry(kind, m, t, calls).of = m
         /\ Entry(kind, m, t, calls).turn = t /\ Entry(kind, m, t, calls).calls = calls
BY DEF Entry, Entries

LEMMA StepType ==
  ASSUME NEW e \in Entries
  PROVE  step(e) \in Nat
<1>1. e.turn \in Nat /\ e.kind \in {"question", "use", "results", "answer"}
  BY BotRuntimeAssumption DEF Entries
<1> QED
  BY <1>1 DEF step

LEMMA SeqShape ==
  ASSUME NEW S, NEW s \in Seq(S)
  PROVE  Len(s) \in Nat /\ DOMAIN s = 1..Len(s) /\ \A i \in 1..Len(s) : s[i] \in S
OBVIOUS

LEMMA AppendShape ==
  ASSUME NEW S, NEW s \in Seq(S), NEW e \in S
  PROVE  /\ Append(s, e) \in Seq(S) /\ Len(Append(s, e)) = Len(s) + 1
         /\ DOMAIN Append(s, e) = 1..(Len(s) + 1)
         /\ Append(s, e)[Len(s) + 1] = e
         /\ \A i \in 1..Len(s) : Append(s, e)[i] = s[i]
OBVIOUS

LEMMA PutShape ==
  ASSUME NEW S, NEW s \in Seq(S), NEW i \in 1..Len(s), NEW e \in S
  PROVE  /\ [s EXCEPT ![i] = e] \in Seq(S) /\ Len([s EXCEPT ![i] = e]) = Len(s)
         /\ [s EXCEPT ![i] = e][i] = e
         /\ \A k \in 1..Len(s) : k # i => [s EXCEPT ![i] = e][k] = s[k]
BY ExceptSeq

LEMMA ContentsAppend ==
  ASSUME NEW h \in Seq(Entries), NEW e \in Entries
  PROVE  Contents(Append(h, e)) = Contents(h) \cup {e}
<1> DEFINE g == Append(h, e)
<1>1. /\ DOMAIN h = 1..Len(h) /\ Len(h) \in Nat
      /\ DOMAIN g = 1..(Len(h) + 1)
      /\ \A i \in 1..Len(h) : g[i] = h[i]
      /\ g[Len(h) + 1] = e
  BY SeqShape, AppendShape
<1> HIDE DEF g
<1>2. \A i \in DOMAIN g : i \in DOMAIN h \/ i = Len(h) + 1
  BY <1>1
<1>3. \A i \in DOMAIN h : i \in DOMAIN g
  BY <1>1
<1>4. Contents(g) = Contents(h) \cup {e}
  BY <1>1, <1>2, <1>3 DEF Contents
<1> QED
  BY <1>4 DEF g

LEMMA HeapShape ==
  ASSUME NEW heap \in Heap
  PROVE  Len(heap) \in Nat /\ DOMAIN heap = 1..Len(heap) /\ \A i \in 1..Len(heap) : heap[i] \in Seq(Entries)
BY SeqShape DEF Heap

LEMMA HeapPut ==
  ASSUME NEW heap \in Heap, NEW i \in 1..Len(heap), NEW h \in Seq(Entries),
         NEW bs, bs = [heap EXCEPT ![i] = h]
  PROVE  /\ bs \in Heap /\ Len(bs) = Len(heap) /\ bs[i] = h
         /\ \A k \in 1..Len(heap) : k # i => bs[k] = heap[k]
<1> DEFINE S == Seq(Entries)
<1>1. heap \in Seq(S) /\ h \in S /\ Heap = Seq(S)
  BY DEF Heap
<1> HIDE DEF S
<1> QED
  BY <1>1, PutShape

LEMMA HeapAppend ==
  ASSUME NEW heap \in Heap, NEW h \in Seq(Entries)
  PROVE  /\ Append(heap, h) \in Heap /\ Len(Append(heap, h)) = Len(heap) + 1
         /\ Append(heap, h)[Len(heap) + 1] = h
         /\ \A k \in 1..Len(heap) : Append(heap, h)[k] = heap[k]
<1> DEFINE S == Seq(Entries)
<1>1. heap \in Seq(S) /\ h \in S /\ Heap = Seq(S)
  BY DEF Heap
<1> HIDE DEF S
<1> QED
  BY <1>1, AppendShape

LEMMA DialogueKept ==
  ASSUME NEW h \in Seq(Entries), NEW e \in Entries, NEW m, e.of # m, NEW n \in Nat,
         Dialogue(h, m, n)
  PROVE  Dialogue(Append(h, e), m, n)
<1> DEFINE g == Append(h, e)
           own == {i \in DOMAIN h : h[i].of = m}
<1>1. /\ DOMAIN h = 1..Len(h) /\ Len(h) \in Nat
      /\ DOMAIN g = 1..(Len(h) + 1)
      /\ \A i \in 1..Len(h) : g[i] = h[i]
      /\ g[Len(h) + 1] = e
  OBVIOUS
<1> HIDE DEF g
<1>2. {i \in DOMAIN g : g[i].of = m} = own
  BY <1>1
<1>3. \A i \in own : g[i] = h[i]
  BY <1>1
<1>4. {step(g[i]) : i \in own} = {step(h[i]) : i \in own}
  BY <1>3
<1>5. Dialogue(g, m, n)
  BY <1>2, <1>3, <1>4 DEF Dialogue
<1> QED
  BY <1>5 DEF g

LEMMA DialogueGrows ==
  ASSUME NEW h \in Seq(Entries), NEW e \in Entries, NEW n \in Nat,
         Dialogue(h, e.of, n), step(e) = n + 1
  PROVE  Dialogue(Append(h, e), e.of, n + 1)
<1> DEFINE g == Append(h, e)
           own == {i \in DOMAIN h : h[i].of = e.of}
           last == Len(h) + 1
<1>1. /\ DOMAIN h = 1..Len(h) /\ Len(h) \in Nat
      /\ DOMAIN g = 1..last
      /\ \A i \in 1..Len(h) : g[i] = h[i]
      /\ g[last] = e
  OBVIOUS
<1> HIDE DEF g
<1>2. {i \in DOMAIN g : g[i].of = e.of} = own \cup {last}
  BY <1>1
<1>3. \A i \in own : g[i] = h[i] /\ i < last /\ i # last /\ i \in Nat
  BY <1>1
<1>4. {step(h[i]) : i \in own} = 1..n /\ \A i, j \in own : i < j => step(h[i]) < step(h[j])
  BY DEF Dialogue
<1>5. {step(g[i]) : i \in own \cup {last}} = 1..(n + 1)
  <2>1. {step(g[i]) : i \in own \cup {last}} = {step(h[i]) : i \in own} \cup {step(e)}
    BY <1>1, <1>3
  <2>2. 1..n \cup {n + 1} = 1..(n + 1)
    OBVIOUS
  <2> QED
    BY <1>4, <2>1, <2>2
<1>6. \A i \in own : step(g[i]) \in 1..n /\ step(g[i]) < step(g[last])
  BY <1>1, <1>3, <1>4
<1>7. \A i, j \in own \cup {last} : i < j => step(g[i]) < step(g[j])
  <2> TAKE i, j \in own \cup {last}
  <2> HAVE i < j
  <2>1. CASE j = last
    BY <1>1, <1>3, <1>6, <2>1
  <2>2. CASE j \in own /\ i \in own
    BY <1>3, <1>4, <2>2
  <2>3. CASE j \in own /\ i = last
    BY <1>1, <1>3, <2>3
  <2> QED
    BY <2>1, <2>2, <2>3
<1>8. Dialogue(g, e.of, n + 1)
  BY <1>2, <1>5, <1>7 DEF Dialogue
<1> QED
  BY <1>8 DEF g

\* The first entry of a call that has none.
LEMMA DialogueStarts ==
  ASSUME NEW h \in Seq(Entries), NEW m, \A e \in Contents(h) : e.of # m
  PROVE  Dialogue(h, m, 0)
<1>1. {i \in DOMAIN h : h[i].of = m} = {}
  BY DEF Contents
<1> QED
  BY <1>1 DEF Dialogue

SameDialogues(g, h, m) ==
  \A q \in Messages : \A n \in Nat : q # m /\ Dialogue(g, q, n) => Dialogue(h, q, n)

OnlyAdds(g, h, m) == \A e \in Contents(h) : e \in Contents(g) \/ e.of = m

Copied(heap, h, m) ==
  \A e \in Contents(h) : e.of = m \/ \E k \in 1..Len(heap) : e \in Contents(heap[k])

\* bs is what is left of heap when call m has added its entries and
\* some arrays have been copied in part: all other dialogues are as before.
Kept(heap, bs, m) ==
  /\ bs \in Heap
  /\ Len(heap) <= Len(bs)
  /\ \A i \in 1..Len(heap) : SameDialogues(heap[i], bs[i], m) /\ OnlyAdds(heap[i], bs[i], m)
  /\ \A i \in 1..Len(bs) : Copied(heap, bs[i], m)

LEMMA OnlyAddsCopied ==
  ASSUME NEW heap, NEW k \in 1..Len(heap), NEW h, NEW m, OnlyAdds(heap[k], h, m)
  PROVE  Copied(heap, h, m)
BY DEF OnlyAdds, Copied

LEMMA KeptTwice ==
  ASSUME NEW heap \in Heap, NEW bs \in Heap, NEW cs, NEW m, Kept(heap, bs, m), Kept(bs, cs, m)
  PROVE  Kept(heap, cs, m)
<1>1. cs \in Heap
  BY DEF Kept
<1>2. Len(heap) \in Nat /\ Len(bs) \in Nat /\ Len(cs) \in Nat
  BY <1>1, HeapShape
<1>3. Len(heap) <= Len(bs) /\ Len(bs) <= Len(cs)
  BY DEF Kept
<1>4. Len(heap) <= Len(cs) /\ \A i \in 1..Len(heap) : i \in 1..Len(bs)
  BY <1>2, <1>3
<1>5. ASSUME NEW i \in 1..Len(heap)
      PROVE  SameDialogues(heap[i], cs[i], m) /\ OnlyAdds(heap[i], cs[i], m)
  <2>1. /\ SameDialogues(heap[i], bs[i], m) /\ OnlyAdds(heap[i], bs[i], m)
        /\ SameDialogues(bs[i], cs[i], m) /\ OnlyAdds(bs[i], cs[i], m)
    BY <1>4 DEF Kept
  <2> QED
    BY <2>1 DEF SameDialogues, OnlyAdds
<1>6. ASSUME NEW i \in 1..Len(cs)
      PROVE  Copied(heap, cs[i], m)
  <2>1. Copied(bs, cs[i], m) /\ \A k \in 1..Len(bs) : Copied(heap, bs[k], m)
    BY DEF Kept
  <2> QED
    BY <2>1 DEF Copied
<1> QED
  BY <1>1, <1>4, <1>5, <1>6 DEF Kept

LEMMA PushKeeps ==
  ASSUME NEW heap \in Heap, NEW i \in 1..Len(heap), NEW e \in Entries,
         NEW bs, bs = push(heap, i, e)
  PROVE  /\ Kept(heap, bs, e.of)
         /\ Len(bs) = Len(heap)
         /\ bs[i] = Append(heap[i], e)
         /\ \A k \in 1..Len(heap) : k # i => bs[k] = heap[k]
<1>1. Len(heap) \in Nat /\ \A k \in 1..Len(heap) : heap[k] \in Seq(Entries)
  BY HeapShape
<1>2. PICK g \in Seq(Entries) : g = Append(heap[i], e)
  BY <1>1, AppendShape
<1>3. /\ bs \in Heap /\ Len(bs) = Len(heap)
      /\ bs[i] = Append(heap[i], e) /\ \A k \in 1..Len(heap) : k # i => bs[k] = heap[k]
  <2>1. bs = [heap EXCEPT ![i] = g]
    BY <1>2 DEF push
  <2>0. g \in Seq(Entries)
    BY <1>2
  <2>2. bs \in Heap
    <3>1. \A f \in Seq(Entries) : [heap EXCEPT ![i] = f] \in Heap
      BY HeapPut
    <3> QED
      BY <2>0, <2>1, <3>1
  <2>3. Len(bs) = Len(heap)
    BY <1>2, <2>1, HeapPut
  <2>4. bs[i] = g /\ \A k \in 1..Len(heap) : k # i => bs[k] = heap[k]
    BY <1>2, <2>1, HeapPut
  <2> QED
    BY <1>2, <2>2, <2>3, <2>4
<1>4. ASSUME NEW k \in 1..Len(heap)
      PROVE  SameDialogues(heap[k], bs[k], e.of) /\ OnlyAdds(heap[k], bs[k], e.of)
  <2>1. CASE k = i
    <3>1. Contents(bs[k]) = Contents(heap[k]) \cup {e}
      BY <1>1, <1>3, <2>1, ContentsAppend
    <3>2. OnlyAdds(heap[k], bs[k], e.of)
      BY <3>1 DEF OnlyAdds
    <3>3. SameDialogues(heap[k], bs[k], e.of)
      BY <1>1, <1>3, <2>1, DialogueKept DEF SameDialogues
    <3> QED
      BY <3>2, <3>3
  <2>2. CASE k # i
    BY <1>3, <2>2 DEF SameDialogues, OnlyAdds
  <2> QED
    BY <2>1, <2>2
<1>5. \A k \in 1..Len(bs) : Copied(heap, bs[k], e.of)
  BY <1>3, <1>4, OnlyAddsCopied
<1>6. Len(heap) <= Len(bs)
  BY <1>1, <1>3
<1>7. Kept(heap, bs, e.of)
  BY <1>3, <1>4, <1>5, <1>6 DEF Kept
<1> QED
  BY <1>3, <1>7

\* A new array with entries that some array has.
LEMMA CopyKeeps ==
  ASSUME NEW heap \in Heap, NEW h \in Seq(Entries), NEW m, Copied(heap, h, m)
  PROVE  Kept(heap, Append(heap, h), m)
<1> DEFINE bs == Append(heap, h)
<1>0. Len(heap) \in Nat
  BY HeapShape
<1>1. /\ bs \in Heap /\ Len(bs) = Len(heap) + 1
      /\ bs[Len(heap) + 1] = h /\ \A k \in 1..Len(heap) : bs[k] = heap[k]
  BY HeapAppend
<1> HIDE DEF bs
<1>2. \A i \in 1..Len(bs) : i \in 1..Len(heap) \/ i = Len(heap) + 1
  BY <1>0, <1>1
<1>3. Len(heap) <= Len(bs)
  BY <1>0, <1>1
<1>4. \A i \in 1..Len(heap) : SameDialogues(heap[i], bs[i], m) /\ OnlyAdds(heap[i], bs[i], m)
  BY <1>1 DEF SameDialogues, OnlyAdds
<1>5. \A i \in 1..Len(bs) : Copied(heap, bs[i], m)
  BY <1>1, <1>2, <1>4, OnlyAddsCopied
<1>6. Kept(heap, bs, m)
  BY <1>1, <1>3, <1>4, <1>5 DEF Kept
<1> QED
  BY <1>6 DEF bs

-----------------------------------------------------------------------------
(* Tool calls and their answers.                                           *)

Outcomes == {"asked", "result", "error", "denied"}

\* A call with another outcome.
As(c, o) == [c EXCEPT !.outcome = o]

LEMMA AsFacts ==
  ASSUME NEW c \in ToolCalls, NEW o \in Outcomes
  PROVE  /\ As(c, o) \in ToolCalls
         /\ As(c, o).id = c.id /\ As(c, o).tool = c.tool /\ As(c, o).outcome = o
         /\ As(As(c, o), "asked") = As(c, "asked")
         /\ c.outcome = o => As(c, o) = c
BY DEF As, ToolCalls, Outcomes

LEMMA WithIs == \A o, A : with(o, A) = {As(c, o) : c \in A}
BY DEF with, As

LEMMA WithFacts ==
  ASSUME NEW A \in SUBSET ToolCalls, NEW o \in Outcomes
  PROVE  /\ with(o, A) \in SUBSET ToolCalls
         /\ \A c \in with(o, A) : c.outcome = o /\ \E a \in A : a.id = c.id /\ a.tool = c.tool
         /\ with("asked", with(o, A)) = with("asked", A)
         /\ (\A a \in A : a.outcome = o) => with(o, A) = A
<1>1. with(o, A) = {As(c, o) : c \in A}
  BY WithIs
<1>2. \A c \in A : /\ As(c, o) \in ToolCalls
                   /\ As(c, o).id = c.id /\ As(c, o).tool = c.tool /\ As(c, o).outcome = o
                   /\ As(As(c, o), "asked") = As(c, "asked")
                   /\ c.outcome = o => As(c, o) = c
  BY AsFacts
<1>3. with(o, A) \in SUBSET ToolCalls
  BY <1>1, <1>2
<1>4. \A c \in with(o, A) : c.outcome = o /\ \E a \in A : a.id = c.id /\ a.tool = c.tool
  BY <1>1, <1>2
<1>5. with("asked", with(o, A)) = with("asked", A)
  <2>1. with("asked", with(o, A)) = {As(c, "asked") : c \in with(o, A)}
    BY WithIs
  <2>2. with("asked", A) = {As(c, "asked") : c \in A}
    BY WithIs
  <2>3. \A d \in with(o, A) : \E c \in A : As(d, "asked") = As(c, "asked")
    BY <1>1, <1>2
  <2>4. \A c \in A : \E d \in with(o, A) : As(d, "asked") = As(c, "asked")
    BY <1>1, <1>2
  <2>5. ASSUME NEW x \in with("asked", with(o, A)) PROVE x \in with("asked", A)
    <3>1. PICK d \in with(o, A) : x = As(d, "asked")
      BY <2>1
    <3>2. PICK c \in A : As(d, "asked") = As(c, "asked")
      BY <2>3
    <3> QED
      BY <2>2, <3>1, <3>2
  <2>6. ASSUME NEW x \in with("asked", A) PROVE x \in with("asked", with(o, A))
    <3>1. PICK c \in A : x = As(c, "asked")
      BY <2>2
    <3>2. PICK d \in with(o, A) : As(d, "asked") = As(c, "asked")
      BY <2>4
    <3> QED
      BY <2>1, <3>1, <3>2
  <2> QED
    BY <2>5, <2>6
<1>6. (\A a \in A : a.outcome = o) => with(o, A) = A
  BY <1>1, <1>2
<1> QED
  BY <1>3, <1>4, <1>5, <1>6

LEMMA WithUnion ==
  ASSUME NEW A, NEW B, NEW o
  PROVE  with(o, A \cup B) = with(o, A) \cup with(o, B)
BY DEF with

\* The ids of a set of calls tell them apart.
Distinct(A) == \A c, d \in A : c.id = d.id => c = d

LEMMA WithDistinct ==
  ASSUME NEW A \in SUBSET ToolCalls, NEW o \in Outcomes, Distinct(A)
  PROVE  Distinct(with(o, A))
<1> SUFFICES ASSUME NEW c \in with(o, A), NEW d \in with(o, A), c.id = d.id
             PROVE  c = d
  BY DEF Distinct
<1>1. PICK a \in A : c = As(a, o)
  BY WithIs
<1>2. PICK b \in A : d = As(b, o)
  BY WithIs
<1>3. a.id = c.id /\ b.id = d.id
  BY <1>1, <1>2, AsFacts
<1> QED
  BY <1>1, <1>2, <1>3 DEF Distinct

LEMMA BlocksType ==
  ASSUME NEW request \in ToolRequests
  PROVE  /\ toolUseBlocks(request) \in SUBSET ToolCalls
         /\ Distinct(toolUseBlocks(request))
         /\ \A c \in toolUseBlocks(request) : c.outcome = "asked"
<1>1. request \in Seq(STRING)
  BY BotRuntimeAssumption
<1>2. \A i \in DOMAIN request : i \in Nat /\ request[i] \in STRING
  BY <1>1
<1> QED
  BY <1>2 DEF toolUseBlocks, ToolCalls, Distinct

LEMMA AnsweredPart ==
  ASSUME NEW S, NEW T \in SUBSET S, AnsweredIn(S)
  PROVE  AnsweredIn(T)
BY DEF AnsweredIn

LEMMA AnsweredMore ==
  ASSUME NEW S, NEW e, AnsweredIn(S),
         e.kind = "use" => \A f \in S : f.kind = "results" => ~SameTurn(e, f),
         e.kind = "results" =>
           /\ Decided(e)
           /\ \A u \in S : u.kind = "use" /\ SameTurn(u, e) => u.calls = with("asked", e.calls)
  PROVE  AnsweredIn(S \cup {e})
BY DEF AnsweredIn

AllAnswered(heap) == \A n \in 1..Len(heap) : AnsweredIn(Contents(heap[n]))

LEMMA AnsweredArrays ==
  ASSUME NEW heap \in Heap, heap = arrays
  PROVE  ToolsAnswered <=> AllAnswered(heap)
BY HeapShape DEF ToolsAnswered, AllAnswered, AnsweredIn

LEMMA DialogueBounds ==
  ASSUME NEW h, NEW m, NEW n \in Nat, Dialogue(h, m, n)
  PROVE  \A f \in Contents(h) : f.of = m => step(f) \in 1..n
BY DEF Dialogue, Contents

-----------------------------------------------------------------------------
(* The invariant, call by call.                                            *)

Turn(m) == todo[m] \cup blocked[m] \cup toolResults[m]

InTurn(m) ==
  /\ todo[m] # {}
  /\ Distinct(Turn(m))
  /\ \A c \in todo[m] : c.outcome = "asked" /\ checkToolPermission(c.tool, permissions[m])
  /\ \A c \in blocked[m] : c.outcome = "asked" /\ ~checkToolPermission(c.tool, permissions[m])
  /\ \A c \in toolResults[m] :
       c.outcome \in {"result", "error"} /\ checkToolPermission(c.tool, permissions[m])
  /\ \A u \in Contents(arrays[history[m]]) :
       u.kind = "use" /\ u.of = m /\ u.turn = turns[m] => u.calls = with("asked", Turn(m))

Speaks(m) ==
  /\ history[m] \in 1..Len(arrays)
  /\ turns[m] \in 1..maxTurns
  /\ Dialogue(arrays[history[m]], m, spoken(m))

Silent(m) == \A n \in 1..Len(arrays) : \A e \in Contents(arrays[n]) : e.of # m

Idle(m) == todo[m] = {} /\ blocked[m] = {} /\ toolResults[m] = {}

CallInv(m) ==
  /\ phase[m] \in Pending => Speaks(m)
  /\ phase[m] = "executing" => InTurn(m)
  /\ phase[m] # "executing" => Idle(m)
  /\ phase[m] = "new" => Silent(m)

LocalsType ==
  /\ phase \in [Messages -> Phases]
  /\ history \in [Messages -> Nat]
  /\ turns \in [Messages -> Nat]
  /\ todo \in [Messages -> SUBSET ToolCalls]
  /\ blocked \in [Messages -> SUBSET ToolCalls]
  /\ toolResults \in [Messages -> SUBSET ToolCalls]

HeapInv ==
  /\ arrays \in Heap
  /\ conversations \in [Chats -> Nat]
  /\ \A c \in Chats : conversations[c] <= Len(arrays)
  /\ AllAnswered(arrays)

DataInv == LocalsType /\ HeapInv /\ \A m \in Messages : CallInv(m)

\* The locals of call q do not change.
Still(q) ==
  /\ phase'[q] = phase[q] /\ history'[q] = history[q] /\ turns'[q] = turns[q]
  /\ todo'[q] = todo[q] /\ blocked'[q] = blocked[q] /\ toolResults'[q] = toolResults[q]

\* What another call does to the arrays does not disturb the call q.
LEMMA OthersKept ==
  ASSUME DataInv, NEW m, Kept(arrays, arrays', m),
         NEW q \in Messages, q # m, Still(q)
  PROVE  CallInv(q)'
<1>0. CallInv(q) /\ turns[q] \in Nat
  BY DEF DataInv, LocalsType
<1>1. Len(arrays) \in Nat /\ Len(arrays') \in Nat /\ Len(arrays) <= Len(arrays')
  BY HeapShape DEF DataInv, HeapInv, Kept
<1>2. ASSUME phase[q] \in Pending
      PROVE  /\ Speaks(q)'
             /\ OnlyAdds(arrays[history[q]], arrays'[history[q]], m)
  <2>1. history[q] \in 1..Len(arrays) /\ turns[q] \in 1..maxTurns
        /\ Dialogue(arrays[history[q]], q, spoken(q))
    BY <1>0, <1>2 DEF CallInv, Speaks
  <2>2. spoken(q) \in Nat /\ spoken(q)' = spoken(q)
    BY <2>1, BotRuntimeAssumption DEF spoken, Still
  <2>3. /\ SameDialogues(arrays[history[q]], arrays'[history[q]], m)
        /\ OnlyAdds(arrays[history[q]], arrays'[history[q]], m)
    BY <2>1 DEF Kept
  <2>4. Dialogue(arrays'[history[q]], q, spoken(q))
    BY <2>1, <2>2, <2>3 DEF SameDialogues
  <2>5. history[q] \in 1..Len(arrays')
    BY <1>1, <2>1
  <2> QED
    BY <2>1, <2>2, <2>3, <2>4, <2>5 DEF Speaks, Still
<1>3. ASSUME phase[q] = "executing"
      PROVE  InTurn(q)'
  <2>1. InTurn(q) /\ OnlyAdds(arrays[history[q]], arrays'[history[q]], m)
    BY <1>0, <1>2, <1>3 DEF CallInv, Pending
  <2>2. Turn(q)' = Turn(q)
    BY DEF Turn, Still
  <2>3. \A u \in Contents(arrays'[history[q]]) :
          u.kind = "use" /\ u.of = q /\ u.turn = turns[q] => u.calls = with("asked", Turn(q))
    BY <2>1 DEF InTurn, OnlyAdds
  <2> QED
    BY <2>1, <2>2, <2>3 DEF InTurn, Still, Distinct
<1>4. ASSUME phase[q] = "new"
      PROVE  Silent(q)'
  <2>1. Silent(q)
    BY <1>0, <1>4 DEF CallInv
  <2>2. \A n \in 1..Len(arrays') : Copied(arrays, arrays'[n], m)
    BY DEF Kept
  <2> QED
    BY <2>1, <2>2 DEF Silent, Copied
<1>5. phase[q] # "executing" => Idle(q)'
  BY <1>0 DEF CallInv, Idle, Still
<1> QED
  BY <1>2, <1>3, <1>4, <1>5 DEF CallInv, Still

\* A step of call m keeps the invariant if it leaves the other calls alone.
LEMMA StepKeeps ==
  ASSUME DataInv, NEW m \in Messages, Kept(arrays, arrays', m),
         \A q \in Messages : q # m => Still(q),
         LocalsType', HeapInv', CallInv(m)'
  PROVE  DataInv'
<1>1. \A q \in Messages : q # m => CallInv(q)'
  BY OthersKept
<1> QED
  BY <1>1 DEF DataInv

LEMMA SameKept ==
  ASSUME NEW heap \in Heap, NEW m
  PROVE  Kept(heap, heap, m)
<1>1. Len(heap) \in Nat
  BY HeapShape
<1>2. \A i \in 1..Len(heap) : SameDialogues(heap[i], heap[i], m) /\ OnlyAdds(heap[i], heap[i], m)
  BY DEF SameDialogues, OnlyAdds
<1> QED
  BY <1>1, <1>2, OnlyAddsCopied DEF Kept

\* A step that changes no array and no local keeps the invariant.
LEMMA QuietStep ==
  ASSUME DataInv, arrays' = arrays,
         UNCHANGED <<phase, history, turns, todo, blocked, toolResults>>, HeapInv'
  PROVE  DataInv'
<1>1. PICK m : m \notin Messages
  BY NoSetContainsEverything
<1>2. Kept(arrays, arrays', m)
  BY SameKept DEF DataInv, HeapInv
<1>3. \A q \in Messages : CallInv(q)'
  <2> SUFFICES ASSUME NEW q \in Messages PROVE CallInv(q)'
    OBVIOUS
  <2>1. Still(q) /\ q # m
    BY <1>1 DEF Still
  <2> QED
    BY <1>2, <2>1, OthersKept
<1>4. LocalsType'
  BY DEF DataInv, LocalsType
<1> QED
  BY <1>3, <1>4 DEF DataInv

LEMMA PushAnswered ==
  ASSUME NEW heap \in Heap, NEW i \in 1..Len(heap), NEW e \in Entries,
         NEW bs, bs = push(heap, i, e),
         AllAnswered(heap), AnsweredIn(Contents(heap[i]) \cup {e})
  PROVE  AllAnswered(bs)
<1>1. /\ Len(bs) = Len(heap) /\ bs[i] = Append(heap[i], e)
      /\ \A k \in 1..Len(heap) : k # i => bs[k] = heap[k]
  BY PushKeeps
<1>2. Contents(bs[i]) = Contents(heap[i]) \cup {e}
  BY <1>1, HeapShape, ContentsAppend
<1> QED
  BY <1>1, <1>2 DEF AllAnswered

LEMMA EndedKeeps ==
  ASSUME DataInv, NEW m \in Messages, Kept(arrays, arrays', m), HeapInv',
         NEW how \in Phases \ (Pending \cup {"new"}), ended(m, how)
  PROVE  DataInv'
<1>1. /\ phase' = [phase EXCEPT ![m] = how]
      /\ history' = [history EXCEPT ![m] = 0]
      /\ turns' = [turns EXCEPT ![m] = 0]
      /\ todo' = [todo EXCEPT ![m] = {}]
      /\ blocked' = [blocked EXCEPT ![m] = {}]
      /\ toolResults' = [toolResults EXCEPT ![m] = {}]
  BY DEF ended, turnOver
<1>2. LocalsType
  BY DEF DataInv
<1>3. LocalsType'
  BY <1>1, <1>2 DEF LocalsType
<1>4. \A q \in Messages : q # m => Still(q)
  BY <1>1, <1>2 DEF LocalsType, Still
<1>5. phase'[m] = how /\ todo'[m] = {} /\ blocked'[m] = {} /\ toolResults'[m] = {}
  BY <1>1, <1>2 DEF LocalsType
<1>6. how \notin Pending /\ how # "new" /\ how # "executing"
  BY DEF Pending
<1>7. CallInv(m)'
  BY <1>5, <1>6 DEF CallInv, Idle
<1> QED
  BY <1>3, <1>4, <1>7, StepKeeps

\* The results of a turn go to the history `heap', whose last entry of the
\* call is the tool uses they answer.
LEMMA TurnEndsKeeps ==
  ASSUME DataInv, NEW m \in Messages, phase[m] \in Pending,
         NEW heap \in Heap, Kept(arrays, heap, m), Len(heap) = Len(arrays), AllAnswered(heap),
         history[m] \in 1..Len(heap), turns[m] \in 1..maxTurns,
         Dialogue(heap[history[m]], m, 2 * turns[m]),
         NEW results \in SUBSET ToolCalls, Distinct(results),
         \A c \in results :
           /\ c.outcome # "asked"
           /\ c.outcome = "denied" <=> ~checkToolPermission(c.tool, permissions[m]),
         \A u \in Contents(heap[history[m]]) :
           u.kind = "use" /\ u.of = m /\ u.turn = turns[m] => u.calls = with("asked", results),
         conversations' = conversations,
         turnEnds(m, heap, results)
  PROVE  DataInv'
<1> DEFINE e == Entry("results", m, turns[m], results)
           h == heap[history[m]]
<1>0. maxTurns \in Nat /\ turns[m] \in Nat /\ turns[m] \in 0..maxTurns
  BY BotRuntimeAssumption
<1>1. /\ e \in Entries /\ e.kind = "results" /\ e.of = m /\ e.turn = turns[m]
      /\ e.calls = results
  BY <1>0, EntryType
<1>2. arrays' = push(heap, history[m], e)
  BY DEF turnEnds
<1>3. h \in Seq(Entries)
  BY HeapShape
<1> HIDE DEF e
<1>4. /\ Kept(heap, arrays', m) /\ Len(arrays') = Len(heap)
      /\ arrays'[history[m]] = Append(h, e)
  BY <1>1, <1>2, PushKeeps
<1>5. Decided(e)
  BY <1>1 DEF Decided, Distinct
<1>6. AnsweredIn(Contents(h))
  BY DEF AllAnswered
<1>7. AnsweredIn(Contents(h) \cup {e})
  BY <1>1, <1>5, <1>6, AnsweredMore DEF SameTurn
<1>8. AllAnswered(arrays')
  BY <1>1, <1>2, <1>7, PushAnswered
<1>9. Kept(arrays, arrays', m) /\ arrays' \in Heap
  <2>1. arrays \in Heap
    BY DEF DataInv, HeapInv
  <2> QED
    BY <1>4, <2>1, KeptTwice DEF Kept
<1>10. HeapInv'
  BY <1>4, <1>8, <1>9 DEF DataInv, HeapInv, AllAnswered
<1>11. CASE ended(m, "exhausted")
  BY <1>9, <1>10, <1>11, EndedKeeps DEF Phases, Pending
<1>12. CASE /\ ~LastTurn(m)
            /\ phase' = [phase EXCEPT ![m] = "asking"]
            /\ turns' = [turns EXCEPT ![m] = @ + 1]
            /\ turnOver(m)
            /\ UNCHANGED <<history, startedAt>>
  <2>1. LocalsType
    BY DEF DataInv
  <2>2. /\ phase'[m] = "asking" /\ turns'[m] = turns[m] + 1 /\ history'[m] = history[m]
        /\ todo'[m] = {} /\ blocked'[m] = {} /\ toolResults'[m] = {}
    BY <1>12, <2>1 DEF LocalsType, turnOver
  <2>3. LocalsType' /\ \A q \in Messages : q # m => Still(q)
    BY <1>12, <2>1 DEF LocalsType, Still, turnOver, Phases, Pending
  <2>4. turns'[m] \in 1..maxTurns
    BY <1>0, <1>12, <2>2 DEF LastTurn
  <2>5. step(e) = 2 * turns[m] + 1
    BY <1>1 DEF step
  <2>6. Dialogue(Append(h, e), m, 2 * turns[m] + 1)
    BY <1>0, <1>1, <1>3, <2>5, DialogueGrows
  <2>7. spoken(m)' = 2 * turns[m] + 1
    BY <1>0, <2>2 DEF spoken
  <2>8. Speaks(m)'
    BY <1>4, <2>2, <2>4, <2>6, <2>7 DEF Speaks
  <2>9. CallInv(m)'
    BY <2>2, <2>8 DEF CallInv, Idle, Pending
  <2> QED
    BY <1>9, <1>10, <2>3, <2>9, StepKeeps
<1> QED
  BY <1>11, <1>12 DEF turnEnds

-----------------------------------------------------------------------------
(* The steps.                                                              *)

LEMMA DataInit == Init => DataInv
<1> SUFFICES ASSUME Init PROVE DataInv
  OBVIOUS
<1>1. arrays = <<>> /\ Len(arrays) = 0 /\ arrays \in Heap
  BY DEF Init, Heap
<1>2. HeapInv
  BY <1>1 DEF Init, HeapInv, AllAnswered
<1>3. LocalsType
  BY DEF Init, LocalsType, Phases
<1>4. \A m \in Messages : CallInv(m)
  BY <1>1 DEF Init, CallInv, Idle, Silent, Pending
<1> QED
  BY <1>2, <1>3, <1>4 DEF DataInv

\* Nothing happens to the arrays.
LEMMA NoHeapChange ==
  ASSUME DataInv, NEW m \in Messages, arrays' = arrays, conversations' = conversations
  PROVE  Kept(arrays, arrays', m) /\ HeapInv'
<1>1. arrays \in Heap
  BY DEF DataInv, HeapInv
<1>2. Kept(arrays, arrays', m)
  BY <1>1, SameKept
<1> QED
  BY <1>2 DEF DataInv, HeapInv, AllAnswered

\* What trimming keeps is the end of the array.
LEMMA LatestShape ==
  ASSUME NEW s \in Seq(Entries), Len(s) > MAX_HISTORY
  PROVE  /\ latest(s) \in Seq(Entries) /\ Len(latest(s)) = MAX_HISTORY
         /\ Contents(latest(s)) \subseteq Contents(s)
<1> DEFINE g == latest(s)
           first == Len(s) - MAX_HISTORY + 1
<1>1. Len(s) \in Nat /\ DOMAIN s = 1..Len(s) /\ \A k \in 1..Len(s) : s[k] \in Entries
  BY SeqShape
<1>2. MAX_HISTORY \in Nat
  BY BotRuntimeAssumption
<1>3. /\ first \in Int /\ first >= 1 /\ \A k \in first..Len(s) : s[k] \in Entries
      /\ first <= Len(s) + 1 /\ Len(s) - first + 1 = MAX_HISTORY
  BY <1>1, <1>2
<1>4. /\ g = SubSeq(s, first, Len(s))
  BY DEF latest
<1> HIDE DEF g, first
<1>5. /\ g \in Seq(Entries)
      /\ Len(g) = IF first <= Len(s) THEN Len(s) - first + 1 ELSE 0
      /\ \A k \in 1..(Len(s) - first + 1) : g[k] = s[first + k - 1]
  BY <1>1, <1>3, <1>4, SubSeqProperties
<1>6. Len(g) = MAX_HISTORY
  BY <1>1, <1>2, <1>3, <1>5
<1>7. \A k \in DOMAIN g : first + k - 1 \in DOMAIN s /\ g[k] = s[first + k - 1]
  <2>1. DOMAIN g = 1..Len(g)
    BY <1>5, SeqShape
  <2> QED
    BY <1>1, <1>3, <1>5, <2>1
<1>8. Contents(g) \subseteq Contents(s)
  BY <1>7 DEF Contents
<1> QED
  BY <1>5, <1>6, <1>8 DEF g

LEMMA TrimKeeps ==
  ASSUME DataInv, NEW m \in Messages, NEW heap \in Heap, Kept(arrays, heap, m),
         Len(heap) = Len(arrays), AllAnswered(heap), NEW c \in Chats, trimHistory(heap, c)
  PROVE  Kept(arrays, arrays', m) /\ HeapInv'
<1>0. arrays \in Heap /\ Len(heap) \in Nat /\ conversations \in [Chats -> Nat]
  BY HeapShape DEF DataInv, HeapInv
<1>1. CASE arrays' = heap /\ UNCHANGED conversations
  BY <1>1 DEF DataInv, HeapInv, AllAnswered
<1>2. CASE /\ TooLong(heap, c)
           /\ arrays' = Append(heap, latest(heap[conversations[c]]))
           /\ conversations' = [conversations EXCEPT ![c] = Len(heap) + 1]
  <2> DEFINE i == conversations[c]
             g == latest(heap[i])
  <2>1. i \in 1..Len(heap)
    BY <1>0, <1>2 DEF TooLong, DataInv, HeapInv
  <2>2. g \in Seq(Entries) /\ Contents(g) \subseteq Contents(heap[i])
    <3>1. PICK s : s = heap[i]
      OBVIOUS
    <3>2. s \in Seq(Entries) /\ Len(s) > MAX_HISTORY
      BY <1>2, <2>1, <3>1, HeapShape DEF TooLong
    <3> QED
      BY <3>1, <3>2, LatestShape
  <2> HIDE DEF g
  <2>3. Copied(heap, g, m)
    BY <2>1, <2>2 DEF Copied
  <2>4. arrays' = Append(heap, g)
    BY <1>2 DEF g
  <2>5. /\ Kept(heap, arrays', m) /\ Len(arrays') = Len(heap) + 1
        /\ arrays'[Len(heap) + 1] = g /\ \A k \in 1..Len(heap) : arrays'[k] = heap[k]
    BY <2>2, <2>3, <2>4, CopyKeeps, HeapAppend
  <2>6. Kept(arrays, arrays', m) /\ arrays' \in Heap
    BY <1>0, <2>5, KeptTwice DEF Kept
  <2>7. AnsweredIn(Contents(g))
    BY <2>1, <2>2, AnsweredPart DEF AllAnswered
  <2>8. AllAnswered(arrays')
    BY <1>0, <2>5, <2>7 DEF AllAnswered
  <2>9. /\ conversations' \in [Chats -> Nat]
        /\ \A d \in Chats : conversations'[d] <= Len(arrays')
    BY <1>0, <1>2, <2>5 DEF DataInv, HeapInv
  <2> QED
    BY <2>6, <2>8, <2>9 DEF HeapInv, AllAnswered
<1> QED
  BY <1>1, <1>2 DEF trimHistory

LEMMA EmptyArray ==
  /\ <<>> \in Seq(Entries) /\ Contents(<<>>) = {}
BY DEF Contents

\* The question is pushed to the chat's array, or to the first one it gets.
LEMMA AskKeeps ==
  ASSUME DataInv, NEW m \in Messages, Ask(m)
  PROVE  DataInv'
<1> DEFINE c == sessionKey[m]
           known == conversations[c] # 0
           heap == IF known THEN arrays ELSE Append(arrays, <<>>)
           i == IF known THEN conversations[c] ELSE Len(heap)
           e == Entry("question", m, 0, {})
<1>0. /\ arrays \in Heap /\ Len(arrays) \in Nat /\ conversations \in [Chats -> Nat]
      /\ AllAnswered(arrays) /\ LocalsType /\ CallInv(m) /\ c \in Chats
      /\ maxTurns \in Nat \ {0}
  BY HeapShape, BotRuntimeAssumption DEF DataInv, HeapInv
<1>1. /\ phase[m] = "new"
      /\ arrays' = push(heap, i, e)
      /\ conversations' = [conversations EXCEPT ![c] = i]
      /\ history' = [history EXCEPT ![m] = i]
      /\ phase' = [phase EXCEPT ![m] = "asking"]
      /\ turns' = [turns EXCEPT ![m] = 1]
      /\ UNCHANGED <<todo, blocked, toolResults>>
  BY DEF Ask
<1>2. /\ heap \in Heap /\ Kept(arrays, heap, m) /\ AllAnswered(heap)
      /\ Len(arrays) <= Len(heap) /\ Len(heap) \in Nat /\ i \in 1..Len(heap)
  <2>1. CASE known
    <3>1. conversations[c] \in Nat /\ conversations[c] <= Len(arrays)
      BY <1>0 DEF DataInv, HeapInv
    <3> QED
      BY <1>0, <2>1, <3>1, SameKept
  <2>2. CASE ~known
    <3>1. <<>> \in Seq(Entries) /\ Copied(arrays, <<>>, m)
      BY EmptyArray DEF Copied
    <3>2. PICK bs : bs = Append(arrays, <<>>)
      OBVIOUS
    <3>3. /\ bs \in Heap /\ Len(bs) = Len(arrays) + 1
          /\ bs[Len(arrays) + 1] = <<>>
          /\ \A k \in 1..Len(arrays) : bs[k] = arrays[k]
      BY <1>0, <3>1, <3>2, HeapAppend
    <3>4. Kept(arrays, bs, m)
      BY <1>0, <3>1, <3>2, CopyKeeps
    <3>5. AnsweredIn(Contents(<<>>))
      BY EmptyArray DEF AnsweredIn
    <3>6. AllAnswered(bs)
      BY <1>0, <3>3, <3>5 DEF AllAnswered
    <3> QED
      BY <1>0, <2>2, <3>2, <3>3, <3>4, <3>6
  <2> QED
    BY <2>1, <2>2
<1>3. e \in Entries /\ e.kind = "question" /\ e.of = m /\ step(e) = 1
  BY <1>0, EntryType DEF step
<1> HIDE DEF heap, i, e
<1>4. heap[i] \in Seq(Entries) /\ \A f \in Contents(heap[i]) : f.of # m
  <2>1. Silent(m) /\ Copied(arrays, heap[i], m)
    BY <1>0, <1>1, <1>2 DEF CallInv, Kept
  <2>2. CASE known
    BY <1>2, <2>1, <2>2, HeapShape DEF heap, i, Silent
  <2>3. CASE ~known
    <3>1. heap = Append(arrays, <<>>) /\ i = Len(heap)
      BY <2>3 DEF heap, i
    <3>2. heap[i] = <<>>
      BY <1>0, <3>1, EmptyArray, HeapAppend
    <3> QED
      BY <3>2, EmptyArray
  <2> QED
    BY <2>2, <2>3
<1>5. /\ Kept(heap, arrays', m) /\ Len(arrays') = Len(heap)
      /\ arrays'[i] = Append(heap[i], e)
  BY <1>1, <1>2, <1>3, PushKeeps
<1>6. Kept(arrays, arrays', m) /\ arrays' \in Heap
  BY <1>0, <1>2, <1>5, KeptTwice DEF Kept
<1>7. AnsweredIn(Contents(heap[i]) \cup {e})
  BY <1>2, <1>3, AnsweredMore DEF AllAnswered
<1>8. AllAnswered(arrays')
  BY <1>1, <1>2, <1>3, <1>7, PushAnswered
<1>9. HeapInv'
  <2>1. conversations' \in [Chats -> Nat]
    BY <1>0, <1>1, <1>2
  <2>2. \A d \in Chats : conversations'[d] <= Len(arrays')
    BY <1>0, <1>1, <1>2, <1>5 DEF DataInv, HeapInv
  <2> QED
    BY <1>6, <1>8, <2>1, <2>2 DEF HeapInv, AllAnswered
<1>10. LocalsType' /\ \A q \in Messages : q # m => Still(q)
  <2>1. i \in Nat
    BY <1>2
  <2> QED
    BY <1>0, <1>1, <2>1 DEF LocalsType, Still, Phases, Pending
<1>11. /\ phase'[m] = "asking" /\ turns'[m] = 1 /\ history'[m] = i /\ Idle(m)'
  BY <1>0, <1>1 DEF LocalsType, CallInv, Idle
<1>12. Dialogue(Append(heap[i], e), m, 1)
  <2>1. Dialogue(heap[i], e.of, 0)
    BY <1>3, <1>4, DialogueStarts
  <2>2. 0 \in Nat /\ step(e) = 0 + 1
    BY <1>3
  <2>3. Dialogue(Append(heap[i], e), e.of, 0 + 1)
    BY <1>3, <1>4, <2>1, <2>2, DialogueGrows
  <2>4. 0 + 1 = 1
    OBVIOUS
  <2> QED
    BY <1>3, <2>3, <2>4
<1>13. Speaks(m)'
  <2>1. spoken(m)' = 1
    BY <1>11 DEF spoken
  <2>2. history'[m] \in 1..Len(arrays') /\ turns'[m] \in 1..maxTurns
    BY <1>0, <1>2, <1>5, <1>11
  <2> QED
    BY <1>5, <1>11, <1>12, <2>1, <2>2 DEF Speaks
<1>14. CallInv(m)'
  BY <1>11, <1>13 DEF CallInv, Pending
<1> QED
  BY <1>6, <1>9, <1>10, <1>14, StepKeeps

LEMMA ModelAnswersKeeps ==
  ASSUME DataInv, NEW m \in Messages, ModelAnswers(m)
  PROVE  DataInv'
<1> DEFINE e == Entry("answer", m, turns[m], {})
<1>0. /\ arrays \in Heap /\ AllAnswered(arrays) /\ maxTurns \in Nat /\ sessionKey[m] \in Chats
      /\ history[m] \in 1..Len(arrays) /\ turns[m] \in 1..maxTurns
  BY BotRuntimeAssumption DEF DataInv, HeapInv, ModelAnswers, CallInv, Speaks, Pending
<1>1. e \in Entries /\ e.kind = "answer" /\ e.of = m
  BY <1>0, EntryType
<1>2. PICK heap : heap = push(arrays, history[m], e)
  OBVIOUS
<1>3. trimHistory(heap, sessionKey[m]) /\ ended(m, "answered")
  BY <1>2 DEF ModelAnswers
<1> HIDE DEF e
<1>4. Kept(arrays, heap, m) /\ Len(heap) = Len(arrays) /\ heap \in Heap
  <2>1. Kept(arrays, heap, e.of) /\ Len(heap) = Len(arrays)
    BY <1>0, <1>1, <1>2, PushKeeps
  <2> QED
    BY <1>1, <2>1 DEF Kept
<1>5. AllAnswered(heap)
  <2>1. AnsweredIn(Contents(arrays[history[m]]) \cup {e})
    BY <1>0, <1>1, AnsweredMore DEF AllAnswered
  <2> QED
    BY <1>0, <1>1, <1>2, <2>1, PushAnswered
<1>6. Kept(arrays, arrays', m) /\ HeapInv'
  BY <1>0, <1>3, <1>4, <1>5, TrimKeeps
<1> QED
  BY <1>3, <1>6, EndedKeeps DEF Phases, Pending

\* The model's request goes to the history; if the guard allows none of it,
\* the turn ends at once.
LEMMA ModelUsesToolsKeeps ==
  ASSUME DataInv, NEW m \in Messages, ModelUsesTools(m)
  PROVE  DataInv'
<1>1. PICK request \in ToolRequests :
        LET calls == toolUseBlocks(request)
            allowed == guardToolUseBlocks(m, calls)
            heap == push(arrays, history[m], Entry("use", m, turns[m], calls))
        IN  /\ phase[m] = "asking"
            /\ UNCHANGED <<now, conversations>>
            /\ \/ /\ allowed = {}
                  /\ turnEnds(m, heap, with("denied", calls))
               \/ /\ allowed # {}
                  /\ arrays' = heap
                  /\ phase' = [phase EXCEPT ![m] = "executing"]
                  /\ todo' = [todo EXCEPT ![m] = allowed]
                  /\ blocked' = [blocked EXCEPT ![m] = calls \ allowed]
                  /\ UNCHANGED <<history, turns, toolResults, startedAt>>
  BY DEF ModelUsesTools
<1> DEFINE calls == toolUseBlocks(request)
           allowed == guardToolUseBlocks(m, calls)
           u == Entry("use", m, turns[m], calls)
           h == arrays[history[m]]
<1>0. /\ arrays \in Heap /\ AllAnswered(arrays) /\ maxTurns \in Nat /\ phase[m] \in Pending
      /\ LocalsType /\ CallInv(m) /\ Speaks(m) /\ Idle(m) /\ turns[m] \in Nat
      /\ history[m] \in 1..Len(arrays) /\ turns[m] \in 1..maxTurns /\ phase[m] = "asking"
  BY <1>1, BotRuntimeAssumption DEF DataInv, HeapInv, LocalsType, CallInv, Speaks, Pending
<1>2. /\ calls \in SUBSET ToolCalls /\ Distinct(calls)
      /\ \A c \in calls : c.outcome = "asked"
  BY BlocksType
<1>3. /\ u \in Entries /\ u.kind = "use" /\ u.of = m /\ u.turn = turns[m] /\ u.calls = calls
      /\ step(u) = (2 * turns[m] - 1) + 1
  <2>1. turns[m] \in 0..maxTurns
    BY <1>0
  <2>2. u \in Entries /\ u.kind = "use" /\ u.of = m /\ u.turn = turns[m] /\ u.calls = calls
    BY <1>2, <2>1, EntryType
  <2> QED
    BY <1>0, <2>2 DEF step
<1>4. h \in Seq(Entries) /\ Dialogue(h, m, 2 * turns[m] - 1)
  BY <1>0, HeapShape DEF Speaks, spoken
<1>5. PICK heap : heap = push(arrays, history[m], u)
  OBVIOUS
<1>6. /\ allowed = {}
      /\ turnEnds(m, heap, with("denied", calls))
      \/ /\ allowed # {}
         /\ arrays' = heap
         /\ phase' = [phase EXCEPT ![m] = "executing"]
         /\ todo' = [todo EXCEPT ![m] = allowed]
         /\ blocked' = [blocked EXCEPT ![m] = calls \ allowed]
         /\ UNCHANGED <<history, turns, toolResults, startedAt>>
  BY <1>1, <1>5
<1>7. conversations' = conversations
  BY <1>1
<1>8. allowed = {c \in calls : checkToolPermission(c.tool, permissions[m])}
  BY DEF guardToolUseBlocks
<1> HIDE DEF calls, allowed, u
<1>9. Kept(arrays, heap, u.of) /\ Len(heap) = Len(arrays) /\ heap[history[m]] = Append(h, u)
  BY <1>0, <1>3, <1>5, PushKeeps
<1>10. Kept(arrays, heap, m) /\ heap \in Heap
  BY <1>3, <1>9 DEF Kept
<1>11. \A f \in Contents(h) : f.of = m => step(f) \in 1..(2 * turns[m] - 1)
  <2>1. 2 * turns[m] - 1 \in Nat
    BY <1>0
  <2> QED
    BY <1>4, <2>1, DialogueBounds
<1>12. /\ \A f \in Contents(h) : f.kind = "results" => ~SameTurn(u, f)
       /\ \A f \in Contents(h) : f.kind = "use" => ~SameTurn(u, f)
  BY <1>0, <1>3, <1>11 DEF SameTurn, step
<1>13. AllAnswered(heap)
  <2>1. AnsweredIn(Contents(h) \cup {u})
    BY <1>0, <1>3, <1>12, AnsweredMore DEF AllAnswered
  <2> QED
    BY <1>0, <1>3, <1>5, <2>1, PushAnswered
<1>14. Contents(heap[history[m]]) = Contents(h) \cup {u}
  BY <1>3, <1>4, <1>9, ContentsAppend
<1>15. \A f \in Contents(heap[history[m]]) :
         f.kind = "use" /\ f.of = m /\ f.turn = turns[m] => f.calls = calls
  BY <1>3, <1>12, <1>14 DEF SameTurn
<1>16. Dialogue(heap[history[m]], m, 2 * turns[m])
  <2>1. 2 * turns[m] - 1 \in Nat /\ (2 * turns[m] - 1) + 1 = 2 * turns[m]
    BY <1>0
  <2>2. Dialogue(h, u.of, 2 * turns[m] - 1)
    BY <1>3, <1>4
  <2>3. Dialogue(Append(h, u), u.of, (2 * turns[m] - 1) + 1)
    BY <1>3, <1>4, <2>1, <2>2, DialogueGrows
  <2> QED
    BY <1>3, <1>9, <2>1, <2>3
<1>17. with("asked", calls) = calls
  BY <1>2, WithFacts DEF Outcomes
<1>18. CASE allowed = {} /\ turnEnds(m, heap, with("denied", calls))
  <2> DEFINE results == with("denied", calls)
  <2>1. /\ results \in SUBSET ToolCalls /\ with("asked", results) = calls
        /\ \A c \in results : c.outcome = "denied" /\ \E a \in calls : a.tool = c.tool
    BY <1>2, <1>17, WithFacts DEF Outcomes
  <2>2. Distinct(results)
    BY <1>2, WithDistinct DEF Outcomes
  <2>3. \A c \in results : ~checkToolPermission(c.tool, permissions[m])
    BY <1>8, <1>18, <2>1
  <2> HIDE DEF results
  <2>4. turnEnds(m, heap, results)
    BY <1>18 DEF results
  <2>5. history[m] \in 1..Len(heap)
    BY <1>0, <1>9
  <2>6. \A c \in results : c.outcome # "asked" /\ (c.outcome = "denied" <=> ~checkToolPermission(c.tool, permissions[m]))
    BY <2>1, <2>3
  <2>7. \A f \in Contents(heap[history[m]]) :
          f.kind = "use" /\ f.of = m /\ f.turn = turns[m] => f.calls = with("asked", results)
    BY <1>15, <2>1
  <2> QED
    BY <1>0, <1>7, <1>9, <1>10, <1>13, <1>16, <2>1, <2>2, <2>4, <2>5, <2>6, <2>7, TurnEndsKeeps
<1>19. CASE /\ allowed # {}
            /\ arrays' = heap
            /\ phase' = [phase EXCEPT ![m] = "executing"]
            /\ todo' = [todo EXCEPT ![m] = allowed]
            /\ blocked' = [blocked EXCEPT ![m] = calls \ allowed]
            /\ UNCHANGED <<history, turns, toolResults, startedAt>>
  <2>1. allowed \subseteq calls /\ calls \ allowed \subseteq calls
    BY <1>8
  <2>2. LocalsType' /\ \A q \in Messages : q # m => Still(q)
    BY <1>0, <1>2, <1>19, <2>1 DEF LocalsType, Still, Phases, Pending
  <2>3. /\ phase'[m] = "executing" /\ history'[m] = history[m] /\ turns'[m] = turns[m]
        /\ todo'[m] = allowed /\ blocked'[m] = calls \ allowed /\ toolResults'[m] = {}
    BY <1>0, <1>19 DEF LocalsType, Idle
  <2>4. Turn(m)' = calls
    BY <2>1, <2>3 DEF Turn
  <2>5. InTurn(m)'
    <3>1. Distinct(Turn(m))'
      BY <1>2, <2>4 DEF Distinct
    <3>2. \A c \in todo'[m] : c.outcome = "asked" /\ checkToolPermission(c.tool, permissions[m])
      BY <1>2, <1>8, <2>3
    <3>3. \A c \in blocked'[m] : c.outcome = "asked" /\ ~checkToolPermission(c.tool, permissions[m])
      BY <1>2, <1>8, <2>3
    <3>4. \A f \in Contents(arrays'[history'[m]]) :
            f.kind = "use" /\ f.of = m /\ f.turn = turns'[m] => f.calls = with("asked", Turn(m)')
      BY <1>15, <1>17, <1>19, <2>3, <2>4
    <3> QED
      BY <1>19, <2>3, <3>1, <3>2, <3>3, <3>4 DEF InTurn
  <2>6. Speaks(m)'
    <3>1. spoken(m)' = 2 * turns[m]
      BY <2>3 DEF spoken
    <3> QED
      BY <1>0, <1>9, <1>16, <1>19, <2>3, <3>1 DEF Speaks
  <2>7. CallInv(m)'
    BY <2>3, <2>5, <2>6 DEF CallInv
  <2>8. HeapInv' /\ Kept(arrays, arrays', m)
    BY <1>7, <1>9, <1>10, <1>13, <1>19 DEF DataInv, HeapInv, AllAnswered
  <2> QED
    BY <2>2, <2>7, <2>8, StepKeeps
<1> QED
  BY <1>6, <1>18, <1>19

\* A tool has ended: its result joins those of the turn, which ends when it
\* was the last one.
LEMMA ToolEndsKeeps ==
  ASSUME DataInv, NEW m \in Messages, ToolEnds(m)
  PROVE  DataInv'
<1>1. PICK c \in todo[m], o \in {"result", "error"} :
        LET results == toolResults[m] \cup with(o, {c})
        IN  /\ phase[m] = "executing"
            /\ conversations' = conversations
            /\ \/ /\ todo[m] # {c}
                  /\ todo' = [todo EXCEPT ![m] = @ \ {c}]
                  /\ toolResults' = [toolResults EXCEPT ![m] = results]
                  /\ UNCHANGED <<arrays, phase, history, turns, blocked, startedAt>>
               \/ /\ todo[m] = {c}
                  /\ turnEnds(m, arrays, results \cup with("denied", blocked[m]))
  BY DEF ToolEnds
<1> DEFINE done == with(o, {c})
           results == toolResults[m] \cup done
<1>0. /\ arrays \in Heap /\ AllAnswered(arrays) /\ phase[m] \in Pending
      /\ LocalsType /\ Speaks(m) /\ InTurn(m) /\ phase[m] = "executing"
      /\ todo[m] \in SUBSET ToolCalls /\ blocked[m] \in SUBSET ToolCalls
      /\ toolResults[m] \in SUBSET ToolCalls
      /\ c \in ToolCalls /\ o \in Outcomes
  BY <1>1 DEF DataInv, HeapInv, LocalsType, CallInv, Pending, Outcomes
<1>2. /\ done = {As(c, o)}
      /\ As(c, o) \in ToolCalls /\ As(c, o).id = c.id /\ As(c, o).tool = c.tool
      /\ As(c, o).outcome = o
      /\ c.outcome = "asked" /\ checkToolPermission(c.tool, permissions[m])
      /\ with("asked", done) = {c}
  <2>1. done = {As(c, o)}
    BY WithIs
  <2>2. c.outcome = "asked" /\ checkToolPermission(c.tool, permissions[m])
    BY <1>0 DEF InTurn
  <2>3. with("asked", {c}) = {c} /\ with("asked", with(o, {c})) = with("asked", {c})
    BY <1>0, <2>2, WithFacts DEF Outcomes
  <2> QED
    BY <1>0, <2>1, <2>2, <2>3, AsFacts
<1>3. \A d \in Turn(m) : d.id = c.id => d = c
  BY <1>0 DEF InTurn, Distinct, Turn
<1>10. conversations' = conversations
  BY <1>1
<1>4. /\ \A d \in toolResults[m] :
           d.outcome \in {"result", "error"} /\ checkToolPermission(d.tool, permissions[m])
      /\ \A d \in blocked[m] : d.outcome = "asked" /\ ~checkToolPermission(d.tool, permissions[m])
      /\ \A d \in todo[m] : d.outcome = "asked" /\ checkToolPermission(d.tool, permissions[m])
      /\ \A u \in Contents(arrays[history[m]]) :
           u.kind = "use" /\ u.of = m /\ u.turn = turns[m] => u.calls = with("asked", Turn(m))
      /\ Distinct(Turn(m))
  BY <1>0 DEF InTurn
<1>5. with("asked", todo[m]) = todo[m] /\ with("asked", blocked[m]) = blocked[m]
  BY <1>0, <1>4, WithFacts DEF Outcomes
<1>6. with("asked", Turn(m)) = todo[m] \cup blocked[m] \cup with("asked", toolResults[m])
  <2>1. with("asked", Turn(m))
          = with("asked", todo[m] \cup blocked[m]) \cup with("asked", toolResults[m])
    BY WithUnion DEF Turn
  <2>2. with("asked", todo[m] \cup blocked[m]) = todo[m] \cup blocked[m]
    BY <1>5, WithUnion
  <2> QED
    BY <2>1, <2>2
<1>7. with("asked", results) = with("asked", toolResults[m]) \cup {c}
  BY <1>2, WithUnion
<1>8. CASE /\ todo[m] # {c}
           /\ todo' = [todo EXCEPT ![m] = @ \ {c}]
           /\ toolResults' = [toolResults EXCEPT ![m] = results]
           /\ UNCHANGED <<arrays, phase, history, turns, blocked, startedAt>>
  <2>1. results \in SUBSET ToolCalls
    BY <1>0, <1>2
  <2>2. LocalsType' /\ \A q \in Messages : q # m => Still(q)
    BY <1>0, <1>8, <2>1 DEF LocalsType, Still
  <2>3. /\ todo'[m] = todo[m] \ {c} /\ toolResults'[m] = toolResults[m] \cup {As(c, o)}
        /\ blocked'[m] = blocked[m] /\ phase'[m] = phase[m] /\ history'[m] = history[m]
        /\ turns'[m] = turns[m] /\ arrays' = arrays
    BY <1>0, <1>2, <1>8 DEF LocalsType
  <2>4. todo'[m] # {}
    BY <1>1, <1>8, <2>3
  <2>5. Turn(m)' = (todo[m] \ {c}) \cup blocked[m] \cup (toolResults[m] \cup {As(c, o)})
    BY <2>3 DEF Turn
  <2>6. c \notin toolResults[m] /\ c \notin blocked[m]
    BY <1>2, <1>4
  <2>7. \A d \in Turn(m)' : d = As(c, o) \/ (d \in Turn(m) /\ d.id # c.id)
    BY <1>3, <2>5, <2>6 DEF Turn
  <2>8. Distinct(Turn(m)')
    BY <1>2, <1>4, <2>7 DEF Distinct
  <2>9. with("asked", Turn(m)') = with("asked", Turn(m))
    <3>1. with("asked", todo[m] \ {c}) = todo[m] \ {c}
      BY <1>0, <1>4, WithFacts DEF Outcomes
    <3>2. with("asked", Turn(m)')
            = (todo[m] \ {c}) \cup blocked[m] \cup (with("asked", toolResults[m]) \cup {c})
      <4> DEFINE left == (todo[m] \ {c}) \cup blocked[m]
      <4>1. with("asked", left) = left
        BY <1>5, <3>1, WithUnion
      <4>2. with("asked", toolResults[m] \cup {As(c, o)}) = with("asked", toolResults[m]) \cup {c}
        BY <1>2, WithUnion
      <4> HIDE DEF left
      <4>3. with("asked", left \cup (toolResults[m] \cup {As(c, o)}))
              = left \cup (with("asked", toolResults[m]) \cup {c})
        BY <4>1, <4>2, WithUnion
      <4>4. Turn(m)' = left \cup (toolResults[m] \cup {As(c, o)})
        BY <2>5 DEF left
      <4> QED
        BY <4>3, <4>4 DEF left
    <3> QED
      BY <1>1, <1>6, <3>2
  <2>10. InTurn(m)'
    <3>1. \A d \in todo'[m] : d.outcome = "asked" /\ checkToolPermission(d.tool, permissions[m])
      BY <1>4, <2>3
    <3>2. \A d \in toolResults'[m] : d.outcome \in {"result", "error"}
                                    /\ checkToolPermission(d.tool, permissions[m])
      BY <1>2, <1>4, <2>3
    <3>3. \A u \in Contents(arrays'[history'[m]]) :
            u.kind = "use" /\ u.of = m /\ u.turn = turns'[m] => u.calls = with("asked", Turn(m)')
      BY <1>4, <2>3, <2>9
    <3>4. Distinct(Turn(m))'
      BY <2>8 DEF Distinct
    <3> QED
      BY <1>4, <2>3, <2>4, <3>1, <3>2, <3>3, <3>4 DEF InTurn
  <2>11. Speaks(m)'
    BY <1>0, <2>3 DEF Speaks, spoken
  <2>12. CallInv(m)'
    BY <1>0, <2>3, <2>10, <2>11 DEF CallInv
  <2>13. HeapInv' /\ Kept(arrays, arrays', m)
    BY <1>1, <2>3, NoHeapChange
  <2> QED
    BY <2>2, <2>12, <2>13, StepKeeps
<1>9. CASE todo[m] = {c} /\ turnEnds(m, arrays, results \cup with("denied", blocked[m]))
  <2> DEFINE refused == with("denied", blocked[m])
             all == results \cup refused
  <2>1. /\ refused \in SUBSET ToolCalls /\ with("asked", refused) = blocked[m]
        /\ \A d \in refused : d.outcome = "denied" /\ \E a \in blocked[m] : a.id = d.id /\ a.tool = d.tool
    BY <1>0, <1>5, WithFacts DEF Outcomes
  <2>2. Distinct(refused)
    <3>1. Distinct(blocked[m])
      BY <1>4 DEF Distinct, Turn
    <3> QED
      BY <1>0, <3>1, WithDistinct DEF Outcomes
  <2> HIDE DEF refused
  <2>3. all \in SUBSET ToolCalls
    BY <1>0, <1>2, <2>1
  <2>4. with("asked", all) = with("asked", Turn(m))
    <3>1. with("asked", all) = with("asked", results) \cup with("asked", refused)
      BY WithUnion
    <3>2. with("asked", all) = (with("asked", toolResults[m]) \cup {c}) \cup blocked[m]
      BY <1>7, <2>1, <3>1
    <3>3. todo[m] = {c}
      BY <1>9
    <3> HIDE DEF all
    <3> QED
      BY <1>6, <3>2, <3>3
  <2>5. \A d \in all :
          /\ d.outcome # "asked"
          /\ d.outcome = "denied" <=> ~checkToolPermission(d.tool, permissions[m])
    BY <1>2, <1>4, <2>1
  <2>6. Distinct(all)
    <3>1. \A d \in toolResults[m] : d.id # c.id
      BY <1>2, <1>3, <1>4 DEF Turn
    <3>2. \A d \in refused : d.id # c.id
      BY <1>2, <1>3, <1>4, <2>1 DEF Turn
    <3>3. \A d \in refused, f \in toolResults[m] : d.id # f.id
      BY <1>4, <2>1 DEF Distinct, Turn
    <3>4. \A d, f \in toolResults[m] : d.id = f.id => d = f
      BY <1>4 DEF Distinct, Turn
    <3>5. all = toolResults[m] \cup {As(c, o)} \cup refused
      BY <1>2
    <3> HIDE DEF all
    <3> QED
      BY <1>2, <2>2, <3>1, <3>2, <3>3, <3>4, <3>5 DEF Distinct
  <2>7. turnEnds(m, arrays, all)
    BY <1>9 DEF refused
  <2> HIDE DEF all
  <2>8. /\ history[m] \in 1..Len(arrays) /\ turns[m] \in 1..maxTurns
        /\ Dialogue(arrays[history[m]], m, 2 * turns[m])
    BY <1>0 DEF Speaks, spoken
  <2>9. Kept(arrays, arrays, m)
    BY <1>0, SameKept
  <2>10. \A u \in Contents(arrays[history[m]]) :
           u.kind = "use" /\ u.of = m /\ u.turn = turns[m] => u.calls = with("asked", all)
    BY <1>4, <2>4
  <2> QED
    BY <1>0, <1>10, <2>3, <2>5, <2>6, <2>7, <2>8, <2>9, <2>10, TurnEndsKeeps
<1> QED
  BY <1>1, <1>8, <1>9

LEMMA DataNext == DataInv /\ [Next]_vars => DataInv'
<1> SUFFICES ASSUME DataInv, [Next]_vars PROVE DataInv'
  OBVIOUS
<1>1. ASSUME NEW m \in Messages, FailFast(m) PROVE DataInv'
  BY <1>1, NoHeapChange, EndedKeeps DEF FailFast, Phases, Pending
<1>2. ASSUME NEW m \in Messages, ModelFails(m) PROVE DataInv'
  BY <1>2, NoHeapChange, EndedKeeps DEF ModelFails, Phases, Pending
<1>3. ASSUME NEW c \in Chats, clearHistory(c) PROVE DataInv'
  <2>1. conversations' = [conversations EXCEPT ![c] = 0] /\ arrays' = arrays
        /\ UNCHANGED <<phase, history, turns, todo, blocked, toolResults>>
    BY <1>3 DEF clearHistory, callVars
  <2>2. HeapInv'
    <3>1. Len(arrays) \in Nat /\ conversations \in [Chats -> Nat]
      BY HeapShape DEF DataInv, HeapInv
    <3> QED
      BY <2>1, <3>1 DEF DataInv, HeapInv, AllAnswered
  <2> QED
    BY <2>1, <2>2, QuietStep
<1>4. CASE getCircuitState \/ Tick \/ UNCHANGED vars
  <2>1. UNCHANGED <<arrays, conversations, phase, history, turns, todo, blocked, toolResults>>
    BY <1>4 DEF getCircuitState, Tick, vars, callVars
  <2>2. HeapInv'
    BY <2>1 DEF DataInv, HeapInv, AllAnswered
  <2> QED
    BY <2>1, <2>2, QuietStep
<1> QED
  BY <1>1, <1>2, <1>3, <1>4, AskKeeps, ModelAnswersKeeps, ModelUsesToolsKeeps, ToolEndsKeeps DEF Next

\* Whatever other calls add to the history and trim from the map, each turn
\* is asked with the call's own dialogue whole and in order.
THEOREM CallsSeeThemselves == Spec => []CallSeesItself
<1>1. DataInv => CallSeesItself
  BY DEF DataInv, CallInv, Speaks, CallSeesItself
<1> QED
  BY <1>1, DataInit, DataNext, PTL DEF Spec

\* Every tool use is answered once, and no tool runs that the permissions of
\* the message it was requested for do not allow.
THEOREM ToolsAnsweredAlways == Spec => []ToolsAnswered
<1>1. DataInv => ToolsAnswered
  BY AnsweredArrays DEF DataInv, HeapInv
<1> QED
  BY <1>1, DataInit, DataNext, PTL DEF Spec

-----------------------------------------------------------------------------
(* How much a conversation keeps of answered calls.                        *)

OwnChat(c) ==
  conversations[c] # 0 => \A e \in Contents(arrays[conversations[c]]) : sessionKey[e.of] = c

Bounded(c) ==
  conversations[c] # 0 => Cardinality(answeredIn(arrays[conversations[c]])) <= MAX_HISTORY

Apart ==
  \A c, d \in Chats : conversations[c] # 0 /\ conversations[c] = conversations[d] => c = d

\* No two chats share an array, and a chat's array has entries of its calls
\* only: so the step in which a call becomes an answered one, which trims the
\* array of its chat, adds to the count of no other.
BoundInv == Apart /\ \A c \in Chats : OwnChat(c) /\ Bounded(c)

\* answeredIn for calls that are as in p.
Places(h, p) == {i \in DOMAIN h : p[h[i].of] = "answered"}

\* bs is heap with entries of m added to the array i.
Grows(heap, bs, i, m) ==
  /\ bs \in Heap /\ Len(bs) = Len(heap)
  /\ \A k \in 1..Len(heap) : k # i => bs[k] = heap[k]
  /\ Len(heap[i]) <= Len(bs[i])
  /\ \A k \in 1..Len(heap[i]) : bs[i][k] = heap[i][k]
  /\ \A k \in 1..Len(bs[i]) : k > Len(heap[i]) => bs[i][k].of = m

LEMMA PushGrows ==
  ASSUME NEW heap \in Heap, NEW i \in 1..Len(heap), NEW e \in Entries,
         NEW bs, bs = push(heap, i, e)
  PROVE  Grows(heap, bs, i, e.of)
<1>1. /\ bs \in Heap /\ Len(bs) = Len(heap) /\ bs[i] = Append(heap[i], e)
      /\ \A k \in 1..Len(heap) : k # i => bs[k] = heap[k]
  BY PushKeeps DEF Kept
<1>2. heap[i] \in Seq(Entries) /\ Len(heap[i]) \in Nat
  BY HeapShape, SeqShape
<1>3. /\ Len(bs[i]) = Len(heap[i]) + 1 /\ bs[i][Len(heap[i]) + 1] = e
      /\ \A k \in 1..Len(heap[i]) : bs[i][k] = heap[i][k]
  BY <1>1, <1>2, AppendShape
<1>4. \A k \in 1..Len(bs[i]) : k > Len(heap[i]) => k = Len(heap[i]) + 1
  BY <1>2, <1>3
<1> QED
  BY <1>1, <1>2, <1>3, <1>4 DEF Grows

LEMMA GrowsTwice ==
  ASSUME NEW heap \in Heap, NEW bs \in Heap, NEW cs, NEW i \in 1..Len(heap), NEW m,
         Grows(heap, bs, i, m), Grows(bs, cs, i, m)
  PROVE  Grows(heap, cs, i, m)
<1>1. /\ heap[i] \in Seq(Entries) /\ Len(heap[i]) \in Nat
      /\ bs[i] \in Seq(Entries) /\ Len(bs[i]) \in Nat
      /\ cs[i] \in Seq(Entries) /\ Len(cs[i]) \in Nat
  BY HeapShape, SeqShape DEF Grows
<1>2. \A k \in 1..Len(heap[i]) : k \in 1..Len(bs[i])
  BY <1>1 DEF Grows
<1>3. Len(heap[i]) <= Len(cs[i])
  BY <1>1 DEF Grows
<1>4. \A k \in 1..Len(heap[i]) : cs[i][k] = heap[i][k]
  BY <1>2 DEF Grows
<1>5. ASSUME NEW k \in 1..Len(cs[i]), k > Len(heap[i])
      PROVE  cs[i][k].of = m
  <2>1. CASE k \in 1..Len(bs[i])
    BY <1>5, <2>1 DEF Grows
  <2>2. CASE k \notin 1..Len(bs[i])
    <3>1. k > Len(bs[i])
      BY <1>1, <2>2
    <3> QED
      BY <3>1 DEF Grows
  <2> QED
    BY <2>1, <2>2
<1> QED
  BY <1>3, <1>4, <1>5 DEF Grows

\* A call in its dialogue holds an array with an entry of its own.
LEMMA HeldIsOwn ==
  ASSUME DataInv, NEW m \in Messages, phase[m] \in Pending
  PROVE  /\ history[m] \in 1..Len(arrays)
         /\ \E e \in Contents(arrays[history[m]]) : e.of = m
<1>1. Speaks(m)
  BY DEF DataInv, CallInv
<1>2. spoken(m) \in Nat /\ spoken(m) >= 1
  BY <1>1, BotRuntimeAssumption DEF Speaks, spoken
<1> DEFINE h == arrays[history[m]]
           own == {i \in DOMAIN h : h[i].of = m}
<1>3. {step(h[i]) : i \in own} = 1..spoken(m)
  BY <1>1 DEF Speaks, Dialogue
<1>4. 1 \in 1..spoken(m)
  BY <1>2
<1>5. \E i \in DOMAIN h : h[i].of = m
  BY <1>3, <1>4
<1> QED
  BY <1>1, <1>5 DEF Speaks, Contents

\* The array of a chat that another call's chat cannot reach.
LEMMA ReachesOwnChat ==
  ASSUME DataInv, BoundInv, NEW m \in Messages, phase[m] \in Pending,
         NEW c \in Chats, conversations[c] = history[m]
  PROVE  sessionKey[m] = c /\ conversations[c] # 0
<1>1. history[m] # 0
  BY HeldIsOwn
<1> QED
  BY <1>1, HeldIsOwn DEF BoundInv, OwnChat

\* g is h with more entries of m, which is not answered at q, while the calls
\* of h are answered at q if they were at p.
Unanswered(h, g, m, p, q) ==
  /\ Len(h) <= Len(g) /\ \A k \in 1..Len(h) : g[k] = h[k]
  /\ q[m] # "answered" /\ \A k \in 1..Len(g) : k > Len(h) => g[k].of = m
  /\ \A k \in 1..Len(h) : q[h[k].of] = "answered" <=> p[h[k].of] = "answered"

LEMMA SamePlaces ==
  ASSUME NEW h \in Seq(Entries), NEW g \in Seq(Entries), NEW m, NEW p, NEW q,
         Unanswered(h, g, m, p, q)
  PROVE  Places(g, q) = Places(h, p)
<1>1. /\ Len(h) \in Nat /\ Len(g) \in Nat /\ DOMAIN h = 1..Len(h) /\ DOMAIN g = 1..Len(g)
  BY SeqShape
<1>2. \A i \in 1..Len(h) : i \in 1..Len(g)
  BY <1>1 DEF Unanswered
<1>3. \A i \in 1..Len(g) : i \in 1..Len(h) \/ i > Len(h)
  BY <1>1
<1>4. /\ Places(g, q) = {i \in 1..Len(g) : q[g[i].of] = "answered"}
      /\ Places(h, p) = {i \in 1..Len(h) : p[h[i].of] = "answered"}
  BY <1>1 DEF Places
<1> QED
  BY <1>2, <1>3, <1>4 DEF Unanswered

\* At most so many places as the array has.
LEMMA PlacesFew ==
  ASSUME NEW h \in Seq(Entries), NEW p
  PROVE  Cardinality(Places(h, p)) <= Len(h) /\ Cardinality(Places(h, p)) \in Nat
<1>1. Len(h) \in Nat /\ DOMAIN h = 1..Len(h)
  BY SeqShape
<1>2. IsFiniteSet(1..Len(h)) /\ Cardinality(1..Len(h)) = Len(h)
  <2>1. \A n \in Nat : IsFiniteSet(1..n) /\ Cardinality(1..n) = n
    BY FS_Interval
  <2> QED
    BY <1>1, <2>1
<1>3. Places(h, p) \subseteq 1..Len(h)
  BY <1>1 DEF Places
<1> QED
  BY <1>2, <1>3, FS_Subset, FS_CardinalityType

\* What a chat is counted for, when its array gets entries of a call that is
\* not answered, or none, and no other call of its array changes.
LEMMA ChatKept ==
  ASSUME DataInv, DataInv', NEW c \in Chats, OwnChat(c), Bounded(c), NEW m \in Messages,
         conversations'[c] = conversations[c],
         NEW i \in 1..Len(arrays), Grows(arrays, arrays', i, m),
         conversations[c] = i => sessionKey[m] = c /\ phase'[m] # "answered",
         \A q \in Messages : sessionKey[q] = c => (phase'[q] = "answered" <=> phase[q] = "answered")
  PROVE  OwnChat(c)' /\ Bounded(c)'
<1> SUFFICES ASSUME conversations'[c] # 0
             PROVE  OwnChat(c)' /\ Bounded(c)'
  BY DEF OwnChat, Bounded
<1> DEFINE n == conversations[c]
           h == arrays[n]
           g == arrays'[n]
<1>1. /\ n \in 1..Len(arrays) /\ Len(arrays') = Len(arrays)
      /\ h \in Seq(Entries) /\ g \in Seq(Entries)
  <2>1. arrays \in Heap /\ arrays' \in Heap /\ n \in Nat /\ n <= Len(arrays)
    BY DEF DataInv, HeapInv
  <2>2. Len(arrays') = Len(arrays)
    BY DEF Grows
  <2>3. n \in 1..Len(arrays)
    BY <2>1, HeapShape
  <2> QED
    BY <2>1, <2>2, <2>3, HeapShape
<1>2. /\ DOMAIN h = 1..Len(h) /\ Len(h) \in Nat /\ DOMAIN g = 1..Len(g) /\ Len(g) \in Nat
      /\ \A k \in 1..Len(h) : h[k] \in Entries
  BY <1>1, SeqShape
<1>3. \A k \in 1..Len(h) : sessionKey[h[k].of] = c /\ h[k].of \in Messages
  <2>1. \A e \in Entries : e.of \in Messages
    BY DEF Entries
  <2> QED
    BY <1>2, <2>1 DEF OwnChat, Contents
<1>4. n # i => g = h
  BY <1>1 DEF Grows
<1>5. n = i => /\ Len(h) <= Len(g)
               /\ \A k \in 1..Len(h) : g[k] = h[k]
               /\ \A k \in 1..Len(g) : k > Len(h) => g[k].of = m
               /\ sessionKey[m] = c /\ phase'[m] # "answered"
  BY DEF Grows
<1>6. \A k \in 1..Len(h) : phase'[h[k].of] = "answered" <=> phase[h[k].of] = "answered"
  BY <1>3
<1>7. \A k \in 1..Len(g) : sessionKey[g[k].of] = c
  <2>1. CASE n # i
    BY <1>3, <1>4, <2>1
  <2>2. CASE n = i
    <3>1. \A k \in 1..Len(g) : k \in 1..Len(h) \/ k > Len(h)
      BY <1>2
    <3> QED
      BY <1>3, <1>5, <2>2, <3>1
  <2> QED
    BY <2>1, <2>2
<1>8. Places(g, phase') = Places(h, phase)
  <2>1. CASE n # i
    BY <1>2, <1>4, <1>6, <2>1 DEF Places
  <2>2. CASE n = i
    <3>1. PICK hh, gg, pp, qq : hh = h /\ gg = g /\ pp = phase /\ qq = phase'
      OBVIOUS
    <3>2. hh \in Seq(Entries) /\ gg \in Seq(Entries)
      BY <1>1, <3>1
    <3>3. Unanswered(hh, gg, m, pp, qq)
      BY <1>5, <1>6, <2>2, <3>1 DEF Unanswered
    <3>4. Places(gg, qq) = Places(hh, pp)
      BY <3>2, <3>3, SamePlaces
    <3> QED
      BY <3>1, <3>4
  <2> QED
    BY <2>1, <2>2
<1>9. OwnChat(c)'
  BY <1>2, <1>7 DEF OwnChat, Contents
<1>10. Cardinality(Places(h, phase)) <= MAX_HISTORY
  BY DEF Bounded, answeredIn, Places
<1>11. Cardinality(Places(g, phase')) <= MAX_HISTORY
  BY <1>8, <1>10
<1>12. Bounded(c)'
  BY <1>11 DEF Bounded, answeredIn, Places
<1> QED
  BY <1>9, <1>12

\* A step of a call in its dialogue, that neither answers nor touches the map.
LEMMA GrowingKeeps ==
  ASSUME DataInv, DataInv', BoundInv, NEW m \in Messages, phase[m] \in Pending,
         conversations' = conversations, Grows(arrays, arrays', history[m], m),
         phase'[m] # "answered", \A q \in Messages : q # m => phase'[q] = phase[q]
  PROVE  BoundInv'
<1>1. history[m] \in 1..Len(arrays) /\ phase[m] # "answered"
  BY HeldIsOwn DEF Pending
<1>2. \A q \in Messages : phase'[q] = "answered" <=> phase[q] = "answered"
  BY <1>1
<1>3. ASSUME NEW c \in Chats
      PROVE  OwnChat(c)' /\ Bounded(c)'
  <2>1. conversations[c] = history[m] => sessionKey[m] = c
    BY ReachesOwnChat
  <2>2. OwnChat(c) /\ Bounded(c) /\ conversations'[c] = conversations[c]
    BY DEF BoundInv
  <2> QED
    BY <1>1, <1>2, <2>1, <2>2, ChatKept
<1>4. Apart'
  BY DEF BoundInv, Apart
<1> QED
  BY <1>3, <1>4 DEF BoundInv

\* Nothing is added, and no call is answered.
LEMMA RestingKeeps ==
  ASSUME BoundInv, DataInv, arrays' = arrays,
         \A c \in Chats : conversations'[c] \in {0, conversations[c]},
         \A q \in Messages : phase'[q] = "answered" <=> phase[q] = "answered"
  PROVE  BoundInv'
<1>1. ASSUME NEW c \in Chats, conversations'[c] # 0
      PROVE  OwnChat(c)' /\ Bounded(c)'
  <2> DEFINE h == arrays[conversations[c]]
  <2>1. conversations'[c] = conversations[c] /\ OwnChat(c) /\ Bounded(c) /\ conversations[c] # 0
    BY <1>1 DEF BoundInv
  <2>2. h \in Seq(Entries)
    <3>1. arrays \in Heap /\ conversations[c] \in Nat /\ conversations[c] <= Len(arrays)
      BY DEF DataInv, HeapInv
    <3> QED
      BY <2>1, <3>1, HeapShape
  <2>3. \A k \in DOMAIN h : h[k].of \in Messages
    <3>1. \A e \in Entries : e.of \in Messages
      BY DEF Entries
    <3> QED
      BY <2>2, <3>1, SeqShape
  <2>4. Places(h, phase') = Places(h, phase)
    BY <2>3 DEF Places
  <2>5. Cardinality(Places(h, phase')) <= MAX_HISTORY
    BY <2>1, <2>4 DEF Bounded, answeredIn, Places
  <2>6. Bounded(c)'
    BY <2>1, <2>5 DEF Bounded, answeredIn, Places
  <2> QED
    BY <2>1, <2>6 DEF OwnChat
<1>2. \A c \in Chats : conversations'[c] = 0 => OwnChat(c)' /\ Bounded(c)'
  BY DEF OwnChat, Bounded
<1>3. Apart'
  BY DEF BoundInv, Apart
<1> QED
  BY <1>1, <1>2, <1>3 DEF BoundInv

\* A new chat's array is the question; a known chat's gets it.
LEMMA AskBound ==
  ASSUME DataInv, DataInv', BoundInv, NEW m \in Messages, Ask(m)
  PROVE  BoundInv'
<1> DEFINE c == sessionKey[m]
           known == conversations[c] # 0
           heap == IF known THEN arrays ELSE Append(arrays, <<>>)
           i == IF known THEN conversations[c] ELSE Len(heap)
           e == Entry("question", m, 0, {})
<1>1. /\ phase[m] = "new" /\ phase' = [phase EXCEPT ![m] = "asking"]
      /\ arrays' = push(heap, i, e)
      /\ conversations' = [conversations EXCEPT ![c] = i]
  BY DEF Ask
<1>2. /\ arrays \in Heap /\ Len(arrays) \in Nat /\ c \in Chats
      /\ conversations \in [Chats -> Nat] /\ \A d \in Chats : conversations[d] <= Len(arrays)
      /\ phase \in [Messages -> Phases]
  BY HeapShape, BotRuntimeAssumption DEF DataInv, HeapInv, LocalsType
<1>3. e \in Entries /\ e.of = m
  BY EntryType, BotRuntimeAssumption
<1>4. /\ phase'[m] = "asking" /\ \A q \in Messages : phase'[q] = "answered" <=> phase[q] = "answered"
  BY <1>1, <1>2
<1> HIDE DEF e
<1>5. CASE known
  <2>1. heap = arrays /\ i = conversations[c] /\ i \in 1..Len(arrays)
    BY <1>2, <1>5
  <2>2. Grows(arrays, arrays', i, m)
    BY <1>1, <1>2, <1>3, <2>1, PushGrows
  <2>3. conversations' = conversations
    BY <1>1, <1>2, <2>1
  <2>4. ASSUME NEW d \in Chats
        PROVE  OwnChat(d)' /\ Bounded(d)'
    <3>1. conversations[d] = i => sessionKey[m] = d
      BY <1>2, <2>1, <1>5 DEF BoundInv, Apart
    <3>2. OwnChat(d) /\ Bounded(d)
      BY DEF BoundInv
    <3> QED
      BY <1>4, <2>1, <2>2, <2>3, <3>1, <3>2, ChatKept
  <2> QED
    BY <2>3, <2>4 DEF BoundInv, Apart
<1>6. CASE ~known
  <2> DEFINE n == Len(arrays) + 1
  <2>1. PICK bs : bs = Append(arrays, <<>>)
    OBVIOUS
  <2>2. /\ bs \in Heap /\ Len(bs) = n /\ bs[n] = <<>>
        /\ \A k \in 1..Len(arrays) : bs[k] = arrays[k]
    BY <1>2, <2>1, EmptyArray, HeapAppend
  <2>3. heap = bs /\ i = n /\ n \in 1..Len(bs)
    BY <1>2, <1>6, <2>1, <2>2
  <2>4. arrays' = push(bs, n, e)
    BY <1>1, <2>3
  <2>5. /\ Len(arrays') = n /\ arrays'[n] = Append(<<>>, e)
        /\ \A k \in 1..n : k # n => arrays'[k] = bs[k]
    BY <1>3, <2>2, <2>3, <2>4, PushKeeps
  <2>6. \A k \in 1..Len(arrays) : arrays'[k] = arrays[k]
    BY <1>2, <2>2, <2>5
  <2>7. conversations'[c] = n /\ \A d \in Chats : d # c => conversations'[d] = conversations[d]
    BY <1>1, <1>2, <2>3
  <2>8. OwnChat(c)' /\ Bounded(c)'
    <3>1. PICK g : g = arrays'[n]
      OBVIOUS
    <3>2. g \in Seq(Entries) /\ Len(g) = 1 /\ g[1] = e
      BY <1>3, <2>5, <3>1
    <3>3. OwnChat(c)'
      BY <1>3, <2>7, <3>1, <3>2 DEF OwnChat, Contents
    <3>4. PICK p : p = phase'
      OBVIOUS
    <3>5. Cardinality(Places(g, p)) <= 1 /\ MAX_HISTORY \in Nat \ {0}
      BY <3>2, PlacesFew, BotRuntimeAssumption
    <3>6. Places(g, p) = {}
      <4>1. \A k \in DOMAIN g : g[k] = e
        BY <3>2
      <4> QED
        BY <1>3, <1>4, <3>4, <4>1 DEF Places
    <3>7. Cardinality(Places(g, p)) <= MAX_HISTORY
      BY <3>5, <3>6, FS_EmptySet
    <3> QED
      BY <2>7, <3>1, <3>3, <3>4, <3>7 DEF Bounded, answeredIn, Places
  <2>9. ASSUME NEW d \in Chats, d # c, conversations'[d] # 0
        PROVE  OwnChat(d)' /\ Bounded(d)'
    <3>1. /\ conversations'[d] = conversations[d] /\ conversations[d] \in 1..Len(arrays)
          /\ conversations[d] # 0 /\ OwnChat(d) /\ Bounded(d)
      BY <1>2, <2>7, <2>9 DEF BoundInv
    <3>2. PICK h, p, q : h = arrays[conversations[d]] /\ p = phase /\ q = phase'
      OBVIOUS
    <3>3. h \in Seq(Entries) /\ h = arrays'[conversations[d]]
      BY <1>2, <2>6, <3>1, <3>2, HeapShape
    <3>4. \A k \in DOMAIN h : h[k].of \in Messages
      <4>1. \A f \in Entries : f.of \in Messages
        BY DEF Entries
      <4> QED
        BY <3>3, <4>1, SeqShape
    <3>5. Places(h, q) = Places(h, p)
      BY <1>4, <3>2, <3>4 DEF Places
    <3>6. Cardinality(Places(h, q)) <= MAX_HISTORY
      BY <3>1, <3>2, <3>5 DEF Bounded, answeredIn, Places
    <3>7. Bounded(d)'
      BY <3>1, <3>2, <3>3, <3>6 DEF Bounded, answeredIn, Places
    <3> QED
      BY <3>1, <3>2, <3>3, <3>7 DEF OwnChat
  <2>10. \A d \in Chats : conversations'[d] = 0 => OwnChat(d)' /\ Bounded(d)'
    BY DEF OwnChat, Bounded
  <2>11. Apart'
    <3>1. \A d \in Chats : d # c => conversations'[d] # n
      BY <1>2, <2>7
    <3> QED
      BY <2>7, <3>1 DEF BoundInv, Apart
  <2> QED
    BY <2>8, <2>9, <2>10, <2>11 DEF BoundInv
<1> QED
  BY <1>5, <1>6

\* The answer is added to the array the call holds, and the array of its chat
\* is cut to the bound: what is left of it cannot count for more.
LEMMA AnswerBound ==
  ASSUME DataInv, DataInv', BoundInv, NEW m \in Messages, ModelAnswers(m)
  PROVE  BoundInv'
<1> DEFINE c == sessionKey[m]
           e == Entry("answer", m, turns[m], {})
<1>1. PICK heap : heap = push(arrays, history[m], e)
  OBVIOUS
<1>2. /\ phase[m] \in Pending /\ phase' = [phase EXCEPT ![m] = "answered"]
      /\ trimHistory(heap, c)
  BY <1>1 DEF ModelAnswers, Pending, ended
<1>3. /\ arrays \in Heap /\ Len(arrays) \in Nat /\ c \in Chats /\ CallInv(m)
      /\ conversations \in [Chats -> Nat] /\ \A d \in Chats : conversations[d] <= Len(arrays)
      /\ phase \in [Messages -> Phases] /\ MAX_HISTORY \in Nat \ {0}
  BY HeapShape, BotRuntimeAssumption DEF DataInv, HeapInv, LocalsType
<1>4. history[m] \in 1..Len(arrays) /\ e \in Entries /\ e.of = m
  BY <1>2, <1>3, EntryType, BotRuntimeAssumption DEF CallInv, Speaks
<1> HIDE DEF e
<1>5. Grows(arrays, heap, history[m], m)
  BY <1>1, <1>3, <1>4, PushGrows
<1>6. heap \in Heap /\ Len(heap) = Len(arrays)
  BY <1>5 DEF Grows
<1>7. \A d \in Chats : d # c =>
        /\ conversations'[d] = conversations[d]
        /\ conversations[d] # 0 => /\ conversations[d] \in 1..Len(arrays)
                                   /\ arrays'[conversations[d]] = arrays[conversations[d]]
  <2> SUFFICES ASSUME NEW d \in Chats, d # c
               PROVE  /\ conversations'[d] = conversations[d]
                      /\ conversations[d] # 0 =>
                           /\ conversations[d] \in 1..Len(arrays)
                           /\ arrays'[conversations[d]] = arrays[conversations[d]]
    OBVIOUS
  <2>1. conversations[d] # 0 => conversations[d] \in 1..Len(arrays)
    BY <1>3
  <2>2. conversations[d] # history[m]
    BY <1>2, ReachesOwnChat
  <2>3. conversations[d] # 0 => heap[conversations[d]] = arrays[conversations[d]]
    BY <1>5, <2>1, <2>2 DEF Grows
  <2>4. CASE arrays' = heap /\ UNCHANGED conversations
    BY <2>1, <2>3, <2>4
  <2>5. CASE /\ arrays' = Append(heap, latest(heap[conversations[c]]))
             /\ conversations' = [conversations EXCEPT ![c] = Len(heap) + 1]
    <3>1. conversations'[d] = conversations[d]
      BY <1>3, <2>5
    <3>2. \A k \in 1..Len(heap) : arrays'[k] = heap[k]
      <4>1. PICK g : g = latest(heap[conversations[c]])
        OBVIOUS
      <4>2. arrays' = Append(heap, g) /\ DOMAIN heap = 1..Len(heap)
        BY <1>6, <2>5, <4>1, HeapShape
      <4>3. heap \in Seq(Seq(Entries) \cup {g})
        <5>1. heap \in Seq(Seq(Entries))
          BY <1>6 DEF Heap
        <5> QED
          BY <5>1
      <4> QED
        BY <4>2, <4>3, AppendShape
    <3> QED
      BY <1>6, <2>1, <2>3, <3>1, <3>2
  <2> QED
    BY <1>2, <2>4, <2>5 DEF trimHistory
<1>8. ASSUME NEW d \in Chats, d # c, conversations'[d] # 0
      PROVE  OwnChat(d)' /\ Bounded(d)'
  <2>1. /\ conversations'[d] = conversations[d] /\ conversations[d] \in 1..Len(arrays)
        /\ conversations[d] # 0 /\ OwnChat(d) /\ Bounded(d)
    BY <1>7, <1>8 DEF BoundInv
  <2>2. PICK h, p, q : h = arrays[conversations[d]] /\ p = phase /\ q = phase'
    OBVIOUS
  <2>3. h \in Seq(Entries) /\ h = arrays'[conversations[d]]
    BY <1>3, <1>7, <1>8, <2>1, <2>2, HeapShape
  <2>4. \A k \in DOMAIN h : h[k].of \in Messages /\ sessionKey[h[k].of] = d
    <3>1. \A f \in Entries : f.of \in Messages
      BY DEF Entries
    <3> QED
      BY <2>1, <2>2, <2>3, <3>1, SeqShape DEF OwnChat, Contents
  <2>5. \A k \in DOMAIN h : q[h[k].of] = p[h[k].of]
    BY <1>2, <1>3, <1>8, <2>2, <2>4
  <2>6. Places(h, q) = Places(h, p)
    BY <2>5 DEF Places
  <2>7. Cardinality(Places(h, q)) <= MAX_HISTORY
    BY <2>1, <2>2, <2>6 DEF Bounded, answeredIn, Places
  <2>8. Bounded(d)'
    BY <2>1, <2>2, <2>3, <2>7 DEF Bounded, answeredIn, Places
  <2> QED
    BY <2>1, <2>2, <2>3, <2>8 DEF OwnChat
<1>9. ASSUME NEW n \in 1..Len(heap), n = conversations[c]
      PROVE  /\ heap[n] \in Seq(Entries)
             /\ \A f \in Contents(heap[n]) : sessionKey[f.of] = c
  <2>1. heap[n] \in Seq(Entries) /\ arrays[n] \in Seq(Entries) /\ n # 0
    BY <1>3, <1>6, HeapShape
  <2>2. \A f \in Contents(arrays[n]) : sessionKey[f.of] = c
    BY <1>3, <1>9, <2>1 DEF BoundInv, OwnChat
  <2>3. CASE n = history[m]
    <3>1. heap[n] = Append(arrays[n], e)
      BY <1>1, <1>3, <1>4, <2>3, PushKeeps
    <3> QED
      BY <1>4, <2>1, <2>2, <3>1, ContentsAppend
  <2>4. CASE n # history[m]
    <3>1. heap[n] = arrays[n]
      BY <1>5, <1>6, <2>4 DEF Grows
    <3> QED
      BY <2>1, <2>2, <3>1
  <2> QED
    BY <2>3, <2>4
<1>10. ASSUME conversations'[c] # 0
       PROVE  /\ OwnChat(c)' /\ arrays'[conversations'[c]] \in Seq(Entries)
              /\ Len(arrays'[conversations'[c]]) <= MAX_HISTORY
  <2>1. CASE ~TooLong(heap, c) /\ arrays' = heap /\ UNCHANGED conversations
    <3>1. conversations[c] \in 1..Len(heap)
      BY <1>3, <1>6, <1>10, <2>1
    <3>2. heap[conversations[c]] \in Seq(Entries)
          /\ \A f \in Contents(heap[conversations[c]]) : sessionKey[f.of] = c
      BY <1>9, <3>1
    <3>3. Len(heap[conversations[c]]) <= MAX_HISTORY
      BY <1>3, <2>1, <3>1, <3>2, SeqShape DEF TooLong
    <3> QED
      BY <2>1, <3>2, <3>3 DEF OwnChat
  <2>2. CASE /\ TooLong(heap, c)
             /\ arrays' = Append(heap, latest(heap[conversations[c]]))
             /\ conversations' = [conversations EXCEPT ![c] = Len(heap) + 1]
    <3>1. conversations[c] \in 1..Len(heap)
      BY <1>3, <1>6, <2>2 DEF TooLong
    <3>2. PICK s, g : s = heap[conversations[c]] /\ g = latest(s)
      OBVIOUS
    <3>3. /\ s \in Seq(Entries) /\ Len(s) > MAX_HISTORY
          /\ \A f \in Contents(s) : sessionKey[f.of] = c
      BY <1>9, <2>2, <3>1, <3>2 DEF TooLong
    <3>4. g \in Seq(Entries) /\ Contents(g) \subseteq Contents(s) /\ Len(g) = MAX_HISTORY
      BY <3>2, <3>3, LatestShape
    <3>5. arrays'[Len(heap) + 1] = g /\ conversations'[c] = Len(heap) + 1
      BY <1>3, <1>6, <2>2, <3>2, <3>4, HeapAppend
    <3> QED
      BY <1>3, <3>3, <3>4, <3>5 DEF OwnChat
  <2> QED
    BY <1>2, <2>1, <2>2 DEF trimHistory
<1>11. Bounded(c)'
  <2> SUFFICES ASSUME conversations'[c] # 0
               PROVE  Bounded(c)'
    BY DEF Bounded
  <2>1. PICK g, p : g = arrays'[conversations'[c]] /\ p = phase'
    OBVIOUS
  <2>2. g \in Seq(Entries) /\ Len(g) <= MAX_HISTORY /\ Len(g) \in Nat
    BY <1>10, <2>1, SeqShape
  <2>3. Cardinality(Places(g, p)) <= Len(g) /\ Cardinality(Places(g, p)) \in Nat
    BY <2>2, PlacesFew
  <2>4. Cardinality(Places(g, p)) <= MAX_HISTORY
    BY <1>3, <2>2, <2>3
  <2> QED
    BY <2>1, <2>4 DEF Bounded, answeredIn, Places
<1>12. OwnChat(c)'
  BY <1>10 DEF OwnChat
<1>13. \A d \in Chats : conversations'[d] = 0 => OwnChat(d)' /\ Bounded(d)'
  BY DEF OwnChat, Bounded
<1>14. Apart'
  <2>1. CASE UNCHANGED conversations
    BY <2>1 DEF BoundInv, Apart
  <2>2. CASE conversations' = [conversations EXCEPT ![c] = Len(heap) + 1]
    <3>1. /\ conversations'[c] = Len(heap) + 1
          /\ \A d \in Chats : d # c => /\ conversations'[d] = conversations[d]
                                       /\ conversations'[d] # Len(heap) + 1
      BY <1>3, <1>6, <2>2
    <3> QED
      BY <3>1 DEF BoundInv, Apart
  <2> QED
    BY <1>2, <2>1, <2>2 DEF trimHistory
<1> QED
  BY <1>8, <1>11, <1>12, <1>13, <1>14 DEF BoundInv

\* The results of a turn go to the array the call holds, after what `heap' has
\* got already.
LEMMA TurnEndsBound ==
  ASSUME DataInv, DataInv', BoundInv, NEW m \in Messages, phase[m] \in Pending,
         NEW heap \in Heap, Len(heap) = Len(arrays),
         heap = arrays \/ Grows(arrays, heap, history[m], m),
         history[m] \in 1..Len(arrays), turns[m] \in 0..maxTurns,
         NEW results \in SUBSET ToolCalls,
         conversations' = conversations, turnEnds(m, heap, results)
  PROVE  BoundInv'
<1> DEFINE e == Entry("results", m, turns[m], results)
<1>1. e \in Entries /\ e.of = m
  BY EntryType
<1>2. arrays' = push(heap, history[m], e)
  BY DEF turnEnds
<1> HIDE DEF e
<1>3. Grows(heap, arrays', history[m], m)
  BY <1>1, <1>2, PushGrows
<1>4. Grows(arrays, arrays', history[m], m)
  <2>1. arrays \in Heap
    BY DEF DataInv, HeapInv
  <2>2. CASE Grows(arrays, heap, history[m], m)
    BY <1>3, <2>1, <2>2, GrowsTwice
  <2> QED
    BY <1>3, <2>2
<1>5. /\ phase'[m] # "answered" /\ \A q \in Messages : q # m => phase'[q] = phase[q]
  <2>1. \E how \in {"exhausted", "asking"} : phase' = [phase EXCEPT ![m] = how]
    BY DEF turnEnds, ended
  <2>2. phase \in [Messages -> Phases]
    BY DEF DataInv, LocalsType
  <2> QED
    BY <2>1, <2>2
<1> QED
  BY <1>4, <1>5, GrowingKeeps

LEMMA UseBound ==
  ASSUME DataInv, DataInv', BoundInv, NEW m \in Messages, ModelUsesTools(m)
  PROVE  BoundInv'
<1>1. PICK request \in ToolRequests :
        LET calls == toolUseBlocks(request)
            allowed == guardToolUseBlocks(m, calls)
            heap == push(arrays, history[m], Entry("use", m, turns[m], calls))
        IN  /\ phase[m] = "asking"
            /\ UNCHANGED conversations
            /\ \/ turnEnds(m, heap, with("denied", calls))
               \/ arrays' = heap /\ phase' = [phase EXCEPT ![m] = "executing"]
  BY DEF ModelUsesTools
<1> DEFINE calls == toolUseBlocks(request)
           e == Entry("use", m, turns[m], calls)
           f == Entry("results", m, turns[m], with("denied", calls))
<1>2. /\ arrays \in Heap /\ CallInv(m) /\ phase \in [Messages -> Phases]
      /\ phase[m] \in Pending /\ maxTurns \in Nat /\ ToolRequests \subseteq Seq(STRING)
  BY <1>1, BotRuntimeAssumption DEF DataInv, HeapInv, LocalsType, Pending
<1>3. history[m] \in 1..Len(arrays) /\ turns[m] \in 0..maxTurns
  BY <1>2 DEF CallInv, Speaks
<1>4. /\ calls \in SUBSET ToolCalls /\ with("denied", calls) \in SUBSET ToolCalls
  BY <1>2, BlocksType, WithFacts DEF Outcomes
<1>5. e \in Entries /\ e.of = m /\ f \in Entries /\ f.of = m
  BY <1>3, <1>4, EntryType
<1>6. PICK heap : heap = push(arrays, history[m], e)
  OBVIOUS
<1>7. \/ turnEnds(m, heap, with("denied", calls))
      \/ arrays' = heap /\ phase' = [phase EXCEPT ![m] = "executing"]
  BY <1>1, <1>6
<1> HIDE DEF e, calls
<1>8. Grows(arrays, heap, history[m], m) /\ heap \in Heap /\ Len(heap) = Len(arrays)
  <2>1. Grows(arrays, heap, history[m], e.of)
    BY <1>2, <1>3, <1>5, <1>6, PushGrows
  <2> QED
    BY <1>5, <2>1 DEF Grows
<1>9. CASE arrays' = heap /\ phase' = [phase EXCEPT ![m] = "executing"]
  <2>1. phase'[m] # "answered" /\ \A q \in Messages : q # m => phase'[q] = phase[q]
    BY <1>2, <1>9
  <2> QED
    BY <1>1, <1>2, <1>8, <1>9, <2>1, GrowingKeeps
<1>10. CASE turnEnds(m, heap, with("denied", calls))
  BY <1>1, <1>2, <1>3, <1>4, <1>8, <1>10, TurnEndsBound
<1> QED
  BY <1>7, <1>9, <1>10

LEMMA ToolBound ==
  ASSUME DataInv, DataInv', BoundInv, NEW m \in Messages, ToolEnds(m)
  PROVE  BoundInv'
<1>1. PICK c \in todo[m], o \in {"result", "error"} :
        LET results == toolResults[m] \cup with(o, {c})
        IN  /\ phase[m] = "executing"
            /\ conversations' = conversations
            /\ \/ UNCHANGED <<arrays, phase>>
               \/ turnEnds(m, arrays, results \cup with("denied", blocked[m]))
  BY DEF ToolEnds
<1> DEFINE results == toolResults[m] \cup with(o, {c}) \cup with("denied", blocked[m])
<1>2. /\ arrays \in Heap /\ CallInv(m) /\ phase[m] \in Pending /\ maxTurns \in Nat
      /\ todo[m] \in SUBSET ToolCalls /\ blocked[m] \in SUBSET ToolCalls
      /\ toolResults[m] \in SUBSET ToolCalls /\ {c} \in SUBSET ToolCalls
  BY <1>1, BotRuntimeAssumption DEF DataInv, HeapInv, LocalsType, Pending
<1>3. history[m] \in 1..Len(arrays) /\ turns[m] \in 0..maxTurns
  BY <1>2 DEF CallInv, Speaks
<1>4. with(o, {c}) \in SUBSET ToolCalls /\ with("denied", blocked[m]) \in SUBSET ToolCalls
  BY <1>2, WithFacts DEF Outcomes
<1>5. results \in SUBSET ToolCalls
  BY <1>2, <1>4
<1> HIDE DEF results
<1>6. CASE UNCHANGED <<arrays, phase>>
  BY <1>1, <1>6, RestingKeeps
<1>7. CASE turnEnds(m, arrays, results)
  BY <1>1, <1>2, <1>3, <1>5, <1>7, TurnEndsBound
<1> QED
  BY <1>1, <1>6, <1>7 DEF results

LEMMA BoundNext == DataInv /\ DataInv' /\ BoundInv /\ [Next]_vars => BoundInv'
<1> SUFFICES ASSUME DataInv, DataInv', BoundInv, [Next]_vars PROVE BoundInv'
  OBVIOUS
<1>0. conversations \in [Chats -> Nat] /\ phase \in [Messages -> Phases]
  BY DEF DataInv, HeapInv, LocalsType
<1>1. ASSUME NEW m \in Messages, FailFast(m) \/ ModelFails(m) PROVE BoundInv'
  <2>1. /\ arrays' = arrays /\ conversations' = conversations /\ phase[m] # "answered"
        /\ \E how \in {"failedFast", "failed"} : phase' = [phase EXCEPT ![m] = how]
    BY <1>1 DEF FailFast, ModelFails, ended
  <2>2. \A q \in Messages : phase'[q] = "answered" <=> phase[q] = "answered"
    BY <1>0, <2>1
  <2> QED
    BY <2>1, <2>2, RestingKeeps
<1>2. ASSUME NEW c \in Chats, clearHistory(c) PROVE BoundInv'
  <2>1. /\ arrays' = arrays /\ phase' = phase
        /\ conversations' = [conversations EXCEPT ![c] = 0]
    BY <1>2 DEF clearHistory, callVars
  <2>2. \A d \in Chats : conversations'[d] \in {0, conversations[d]}
    BY <1>0, <2>1
  <2> QED
    BY <2>1, <2>2, RestingKeeps
<1>3. CASE getCircuitState \/ Tick \/ UNCHANGED vars
  <2>1. arrays' = arrays /\ phase' = phase /\ conversations' = conversations
    BY <1>3 DEF getCircuitState, Tick, vars, callVars
  <2> QED
    BY <2>1, RestingKeeps
<1> QED
  BY <1>1, <1>2, <1>3, AskBound, AnswerBound, UseBound, ToolBound DEF Next

\* Whichever array a call held when it was answered, the conversation of its
\* chat keeps no more entries of answered calls than trimHistory allows.
THEOREM HistoryIsBounded == Spec => []AnsweredBounded
<1>1. Init => BoundInv
  BY DEF Init, BoundInv, Apart, OwnChat, Bounded
<1>2. BoundInv => AnsweredBounded
  BY DEF BoundInv, Bounded, AnsweredBounded
<1> QED
  BY <1>1, <1>2, DataInit, DataNext, BoundNext, PTL DEF Spec
=============================================================================
