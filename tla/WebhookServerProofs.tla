------------------------- MODULE WebhookServerProofs -------------------------
(***************************************************************************)
(* For any accounts, calls and limits: the status of a call tells what     *)
(* became of its message, an account's two limiters let at most two        *)
(* messages out within the least delay, and no call is forgotten.          *)
(*                                                                         *)
(* The status: a call waits in at most one place of one queue (Queued),    *)
(* a send resolves for a call that ends without an error (Delivered), and  *)
(* what a rejecting send brought out left a queue too, for a call without  *)
(* a confirmed message (Unknown); what the statuses on the way may be      *)
(* follows from the route and the place of the call (CallOK).              *)
(*                                                                         *)
(* The pace: nothing records which limiter let a message out.  But of two  *)
(* messages of an account each limiter let one out, or both went out by    *)
(* the other one, apart from each other (Apart); so the limiter that lets  *)
(* out a third has waited since one of them.                               *)
(***************************************************************************)
EXTENDS WebhookServer, FiniteSetTheorems, SequenceTheorems, TLAPS

USE DEF outcomes

IsCall(r) ==
  r = [pc |-> r.pc, ask |-> r.ask, via |-> r.via, status |-> r.status] /\ r.status \in Int

Messages == [call : Calls, via : Accounts, at : Int]

Types ==
  /\ now \in Int
  /\ call = [c \in Calls |-> call[c]] /\ \A c \in Calls : IsCall(call[c])
  /\ limiter \in [Limiters -> [queue : Seq(Calls), sends : Seq(Int)]]
  /\ sent \in Seq(Messages)

\* What the route and the place of a call say of its status.
CallOK(r) ==
  /\ r.pc \in {"new", "reading", "asking", "handling", "queued", "end"}
  /\ r.pc = "new" => r.status = 0
  /\ r.pc = "reading" => r.ask.route \in {"send", "webhook"} /\ r.status \in {0, Reset}
  /\ r.pc = "asking" => r.ask.route \in {"query", "socket"}
  /\ r.pc = "handling" => r.ask.route \in {"webhook", "inbound"} /\ r.status = 200
  /\ r.pc = "queued" =>
       \/ r.ask.route = "send" /\ r.status \in {0, Reset} /\ r.via \in resolveOutbound(r.ask)
       \/ r.ask.route \in {"webhook", "inbound"} /\ r.status = 200

Queued ==
  /\ \A l \in Limiters : \A i \in DOMAIN limiter[l].queue :
       LET c == limiter[l].queue[i] IN call[c].pc = "queued" /\ call[c].via = l[1]
  /\ \A l, m \in Limiters :
       \A i \in DOMAIN limiter[l].queue, j \in DOMAIN limiter[m].queue :
         limiter[l].queue[i] = limiter[m].queue[j] => l = m /\ i = j

Delivered ==
  /\ \A i \in DOMAIN sent :
       LET r == call[sent[i].call]
       IN /\ r.pc = "end" /\ r.status \in {200, Reset}
          /\ r.ask.route = "send" => sent[i].via \in resolveOutbound(r.ask)
  /\ \A i, j \in DOMAIN sent : sent[i].call = sent[j].call => i = j
  /\ \A c \in Calls :
       call[c].pc = "end" /\ call[c].ask.route = "send" /\ call[c].status = 200 =>
         \E i \in DOMAIN sent : sent[i].call = c

\* A call whose message went out by a send that rejected, or that nobody waited for.
Unknown ==
  /\ unconfirmed \in SUBSET Calls
  /\ \A c \in unconfirmed :
       /\ call[c].pc = "end" /\ call[c].status \in {0, Reset, 200, 500}
       /\ \A i \in DOMAIN sent : sent[i].call # c

CallInv == Types /\ (\A c \in Calls : CallOK(call[c])) /\ Queued /\ Delivered /\ Unknown

\* A limiter with these sends let a message out at that time.
Among(sends, at) == \E n \in DOMAIN sends : sends[n] = at

Apart ==
  \A i, j \in DOMAIN sent : i < j /\ sent[i].via = sent[j].via =>
    /\ sent[i].at <= sent[j].at
    /\ \A s \in Sides :
         \/ Among(limiter[<<sent[i].via, s>>].sends, sent[i].at)
         \/ Among(limiter[<<sent[i].via, s>>].sends, sent[j].at)
         \/ sent[j].at >= sent[i].at + MinDelay

PaceInv ==
  /\ \A i \in DOMAIN sent :
       /\ sent[i].at <= now
       /\ \E s \in Sides : Among(limiter[<<sent[i].via, s>>].sends, sent[i].at)
  /\ Apart
  /\ PacedByTwo

-----------------------------------------------------------------------------
LEMMA InitInv == Init => CallInv /\ PaceInv
<1> SUFFICES ASSUME Init PROVE CallInv /\ PaceInv
  OBVIOUS
<1> DEFINE new == [pc |-> "new", ask |-> NoAsk, via |-> NoAccount, status |-> 0]
<1>1. call = [c \in Calls |-> new] /\ now = 0 /\ sent = <<>>
  BY DEF Init
<1>2. IsCall(new) /\ CallOK(new)
  BY DEF IsCall, CallOK
<1> HIDE DEF new
<1>3. limiter = [l \in Limiters |-> [queue |-> <<>>, sends |-> <<>>]]
  BY DEF Init
<1>4. Types /\ (\A c \in Calls : CallOK(call[c])) /\ Unknown
  BY <1>1, <1>2, <1>3 DEF Init, Types, Unknown
<1>5. Queued
  BY <1>3 DEF Queued
<1>6. new.pc = "new"
  BY DEF new
<1>7. Delivered
  BY <1>1, <1>6 DEF Delivered
<1>8. PaceInv
  BY <1>1 DEF PaceInv, Apart, PacedByTwo
<1> QED BY <1>4, <1>5, <1>7, <1>8 DEF CallInv

LEMMA SentMessages ==
  ASSUME CallInv
  PROVE  \A i \in DOMAIN sent :
           sent[i] \in Messages /\ sent[i].call \in Calls /\ sent[i].via \in Accounts
             /\ sent[i].at \in Int
<1>1. \A i \in DOMAIN sent : sent[i] \in Messages
  BY DEF CallInv, Types
<1>2. \A r \in Messages : r.call \in Calls /\ r.via \in Accounts /\ r.at \in Int
  BY DEF Messages
<1> QED BY <1>1, <1>2

\* Call c goes on or ends without having been in a queue or joining one.
LEMMA CallMoves ==
  ASSUME CallInv, NEW c \in Calls, NEW r, IsCall(r), CallOK(r),
         call[c].pc \notin {"queued", "end"}, r.pc # "queued",
         r.pc = "end" /\ r.ask.route = "send" => r.status # 200,
         call' = [call EXCEPT ![c] = r], UNCHANGED <<now, limiter, outcomes>>
  PROVE  CallInv'
<1>1. call'[c] = r /\ \A d \in Calls : d # c => call'[d] = call[d]
  BY DEF CallInv, Types
<1>2. Types' /\ \A d \in Calls : CallOK(call'[d])
  <2>1. call' = [d \in Calls |-> call'[d]] /\ \A d \in Calls : IsCall(call'[d])
    BY <1>1 DEF CallInv, Types
  <2>2. \A d \in Calls : CallOK(call'[d])
    BY <1>1 DEF CallInv
  <2> QED BY <2>1, <2>2 DEF CallInv, Types
<1>3. \A l \in Limiters : \A i \in DOMAIN limiter[l].queue :
        limiter[l].queue[i] \in Calls \ {c}
  BY DEF CallInv, Types, Queued
<1>4. Queued'
  BY <1>1, <1>3 DEF CallInv, Queued
<1>5. \A i \in DOMAIN sent : sent[i].call \in Calls \ {c}
  <2>1. \A i \in DOMAIN sent : sent[i].call \in Calls
    BY SentMessages
  <2>2. \A i \in DOMAIN sent : call[sent[i].call].pc = "end"
    BY DEF CallInv, Delivered
  <2> QED BY <2>1, <2>2
<1>6. Delivered'
  BY <1>1, <1>5 DEF CallInv, Delivered
<1>7. Unknown'
  BY <1>1 DEF CallInv, Unknown
<1> QED BY <1>2, <1>4, <1>6, <1>7 DEF CallInv

Ended(x, s) == [x EXCEPT !.pc = "end", !.status = s]

LEMMA EndedRecord ==
  ASSUME NEW x, NEW s, IsCall(x)
  PROVE  Ended(x, s) = [pc |-> "end", ask |-> x.ask, via |-> x.via, status |-> s]
<1> DEFINE q == [pc |-> x.pc, ask |-> x.ask, via |-> x.via, status |-> x.status]
           end == [pc |-> "end", ask |-> x.ask, via |-> x.via, status |-> s]
<1>1. x = q
  BY DEF IsCall
<1>2. [q EXCEPT !.pc = "end", !.status = s] = end
  <2>1. [q EXCEPT !.pc = "end", !.status = s] = [[q EXCEPT !.pc = "end"] EXCEPT !.status = s]
    OBVIOUS
  <2>2. [q EXCEPT !.pc = "end"] = [pc |-> "end", ask |-> x.ask, via |-> x.via, status |-> x.status]
    OBVIOUS
  <2>3. [[pc |-> "end", ask |-> x.ask, via |-> x.via, status |-> x.status] EXCEPT !.status = s] = end
    OBVIOUS
  <2> QED BY <2>1, <2>2, <2>3
<1> HIDE DEF q, end
<1>3. [x EXCEPT !.pc = "end", !.status = s] = end
  BY <1>1, <1>2
<1> QED BY <1>3 DEF Ended, end

\* What an answer makes of the record of its call.
LEMMA AnswerEnds ==
  ASSUME CallInv, NEW c \in Calls, NEW status \in Int, answer(c, status)
  PROVE  \E r : /\ IsCall(r) /\ CallOK(r) /\ r.pc = "end" /\ r.ask = call[c].ask
                /\ r.status = IF call[c].status = 0 THEN status ELSE call[c].status
                /\ call' = [call EXCEPT ![c] = r]
<1> DEFINE s == IF call[c].status = 0 THEN status ELSE call[c].status
           r == [pc |-> "end", ask |-> call[c].ask, via |-> call[c].via, status |-> s]
<1>1. IsCall(call[c])
  BY DEF CallInv, Types
<1>2. s \in Int
  BY <1>1 DEF IsCall
<1>3. IsCall(r) /\ CallOK(r) /\ r.pc = "end" /\ r.ask = call[c].ask /\ r.status = s
  <2> HIDE DEF s
  <2> QED BY <1>2 DEF IsCall, CallOK
<1>4. call' = [call EXCEPT ![c] = Ended(call[c], s)]
  BY DEF answer, Ended, CallInv, Types
<1>5. Ended(call[c], s) = r
  <2> HIDE DEF s
  <2> QED BY <1>1, EndedRecord
<1> HIDE DEF r
<1> QED BY <1>3, <1>4, <1>5

LEMMA ArriveStep ==
  ASSUME CallInv, NEW c \in Calls, NEW q \in Asks[c], Arrive(c, q) \/ Inbound(c, q)
  PROVE  CallInv'
<1>1. call[c].pc = "new" /\ UNCHANGED <<now, limiter, outcomes>>
  BY DEF Arrive, Inbound
<1> DEFINE r(pc, via, status) == [pc |-> pc, ask |-> q, via |-> via, status |-> status]
<1>2. \A pc, via : \A status \in Int :
        LET x == r(pc, via, status)
        IN IsCall(x) /\ x.pc = pc /\ x.ask = q /\ x.status = status
  BY DEF IsCall
<1>3. CASE Inbound(c, q)
  <2> DEFINE x == r("handling", <<q.platform, q.account>>, 200)
  <2>1. IsCall(x) /\ CallOK(x) /\ x.pc = "handling"
    BY <1>3 DEF Inbound, IsCall, CallOK
  <2>2. call' = [call EXCEPT ![c] = x]
    <3>1. \A p, a, v, s : [pc |-> p, ask |-> a, status |-> s, via |-> v]
                          = [pc |-> p, ask |-> a, via |-> v, status |-> s]
      OBVIOUS
    <3> QED BY <1>3, <3>1 DEF Inbound
  <2> HIDE DEF x
  <2> QED BY <1>1, <2>1, <2>2, CallMoves
<1>4. CASE Arrive(c, q)
  <2>1. PICK pc \in {"end", "reading", "asking"}, status \in Int :
          /\ call' = [call EXCEPT ![c] = r(pc, NoAccount, status)]
          /\ pc = "reading" => q.route \in {"send", "webhook"} /\ status = 0
          /\ pc = "asking" => q.route \in {"query", "socket"}
          /\ pc = "end" /\ q.route = "send" => status # 200
    BY <1>4 DEF Arrive, verificationStatus
  <2> DEFINE x == r(pc, NoAccount, status)
  <2>2. IsCall(x) /\ x.pc = pc /\ x.ask = q /\ x.status = status
    BY DEF IsCall
  <2> HIDE DEF x
  <2>3. CallOK(x)
    BY <2>1, <2>2 DEF CallOK
  <2>4. call' = [call EXCEPT ![c] = x]
    BY <2>1 DEF x
  <2> QED BY <1>1, <2>1, <2>2, <2>3, <2>4, CallMoves
<1> QED BY <1>3, <1>4

\* The handler of call c answers and ends without a message.
LEMMA AnswerStep ==
  ASSUME CallInv, NEW c \in Calls, NEW status \in Int, answer(c, status),
         call[c].pc \in {"asking", "reading", "handling"},
         call[c].ask.route = "send" => status # 200,
         UNCHANGED <<now, limiter, outcomes>>
  PROVE  CallInv'
<1>1. PICK r : /\ IsCall(r) /\ CallOK(r) /\ r.pc = "end" /\ r.ask = call[c].ask
               /\ r.status = IF call[c].status = 0 THEN status ELSE call[c].status
               /\ call' = [call EXCEPT ![c] = r]
  BY AnswerEnds
<1>2. CallOK(call[c])
  BY DEF CallInv
<1>3. r.ask.route = "send" => r.status # 200
  BY <1>1, <1>2 DEF CallOK, Reset
<1> QED BY <1>1, <1>3, CallMoves

LEMMA AnswersSteps ==
  ASSUME CallInv, NEW c \in Calls,
         \/ BadBody(c) \/ ResolveFails(c) \/ LimitReached(c) \/ WebhookRefused(c) \/ Ignored(c)
         \/ \E status \in {200, 404, 500} : QueryAnswered(c, status)
  PROVE  CallInv'
<1>1. CallOK(call[c])
  BY DEF CallInv
<1>2. CASE BadBody(c)
  BY <1>2, AnswerStep DEF BadBody
<1>3. CASE ResolveFails(c) \/ LimitReached(c)
  BY <1>3, AnswerStep DEF ResolveFails, LimitReached
<1>4. CASE WebhookRefused(c)
  <2>1. verifyWebhookRequest(call[c].ask) \in Int
    BY DEF verifyWebhookRequest, verifySignature
  <2> QED BY <1>4, <2>1, AnswerStep DEF WebhookRefused
<1>5. CASE Ignored(c)
  BY <1>5, AnswerStep DEF Ignored
<1>6. ASSUME NEW status \in {200, 404, 500}, QueryAnswered(c, status) PROVE CallInv'
  BY <1>1, <1>6, AnswerStep DEF QueryAnswered, CallOK
<1> QED BY <1>2, <1>3, <1>4, <1>5, <1>6

Acknowledge(x, v) == [x EXCEPT !.pc = "handling", !.status = 200, !.via = v]

LEMMA AcknowledgeRecord ==
  ASSUME NEW x, NEW v, IsCall(x)
  PROVE  Acknowledge(x, v) = [pc |-> "handling", ask |-> x.ask, via |-> v, status |-> 200]
<1> DEFINE q == [pc |-> x.pc, ask |-> x.ask, via |-> x.via, status |-> x.status]
           end == [pc |-> "handling", ask |-> x.ask, via |-> v, status |-> 200]
<1>1. x = q
  BY DEF IsCall
<1>2. [q EXCEPT !.pc = "handling", !.status = 200, !.via = v] = end
  <2>1. [q EXCEPT !.pc = "handling", !.status = 200, !.via = v]
          = [[[q EXCEPT !.pc = "handling"] EXCEPT !.status = 200] EXCEPT !.via = v]
    OBVIOUS
  <2>2. [q EXCEPT !.pc = "handling"]
          = [pc |-> "handling", ask |-> x.ask, via |-> x.via, status |-> x.status]
    OBVIOUS
  <2>3. [[pc |-> "handling", ask |-> x.ask, via |-> x.via, status |-> x.status]
          EXCEPT !.status = 200]
          = [pc |-> "handling", ask |-> x.ask, via |-> x.via, status |-> 200]
    OBVIOUS
  <2>4. [[pc |-> "handling", ask |-> x.ask, via |-> x.via, status |-> 200] EXCEPT !.via = v] = end
    OBVIOUS
  <2> QED BY <2>1, <2>2, <2>3, <2>4
<1> HIDE DEF q, end
<1>3. [x EXCEPT !.pc = "handling", !.status = 200, !.via = v] = end
  BY <1>1, <1>2
<1> QED BY <1>3 DEF Acknowledge, end

LEMMA AcknowledgedStep ==
  ASSUME CallInv, NEW c \in Calls, WebhookAcknowledged(c)
  PROVE  CallInv'
<1> DEFINE v == handlers(call[c].ask.platform)
           r == [pc |-> "handling", ask |-> call[c].ask, via |-> v, status |-> 200]
<1>1. IsCall(r) /\ CallOK(r) /\ r.pc = "handling"
  BY DEF WebhookAcknowledged, IsCall, CallOK
<1>2. call' = [call EXCEPT ![c] = r]
  <2>1. Acknowledge(call[c], v) = r
    BY AcknowledgeRecord DEF CallInv, Types
  <2>2. call' = [call EXCEPT ![c] = Acknowledge(call[c], v)]
    BY DEF WebhookAcknowledged, Acknowledge, CallInv, Types
  <2> HIDE DEF r, v
  <2> QED BY <2>1, <2>2
<1>3. call[c].pc = "reading" /\ UNCHANGED <<now, limiter, outcomes>>
  BY DEF WebhookAcknowledged
<1> HIDE DEF r
<1> QED BY <1>1, <1>2, <1>3, CallMoves

-----------------------------------------------------------------------------
LEMMA LimiterFields ==
  ASSUME CallInv, NEW l \in Limiters
  PROVE  /\ limiter[l] = [queue |-> limiter[l].queue, sends |-> limiter[l].sends]
         /\ limiter[l].queue \in Seq(Calls) /\ limiter[l].sends \in Seq(Int)
         /\ DOMAIN limiter = Limiters
         /\ DOMAIN limiter[l].queue = 1..Len(limiter[l].queue)
         /\ \A i \in DOMAIN limiter[l].queue : limiter[l].queue[i] \in Calls
<1> DEFINE S == Seq(Calls)
           T == Seq(Int)
<1>1. limiter \in [Limiters -> [queue : S, sends : T]]
  BY DEF CallInv, Types
<1>2. limiter[l] = [queue |-> limiter[l].queue, sends |-> limiter[l].sends]
      /\ limiter[l].queue \in S /\ limiter[l].sends \in T /\ DOMAIN limiter = Limiters
  <2> HIDE DEF S, T
  <2> QED BY <1>1
<1>3. limiter[l].queue \in Seq(Calls) /\ limiter[l].sends \in Seq(Int)
  BY <1>2
<1>4. \A s \in Seq(Calls) : DOMAIN s = 1..Len(s) /\ \A i \in DOMAIN s : s[i] \in Calls
  OBVIOUS
<1> QED BY <1>2, <1>3, <1>4

Enqueued(x, v) == [x EXCEPT !.pc = "queued", !.via = v]

LEMMA EnqueuedRecord ==
  ASSUME NEW x, NEW v, IsCall(x)
  PROVE  Enqueued(x, v) = [pc |-> "queued", ask |-> x.ask, via |-> v, status |-> x.status]
<1> DEFINE q == [pc |-> x.pc, ask |-> x.ask, via |-> x.via, status |-> x.status]
           end == [pc |-> "queued", ask |-> x.ask, via |-> v, status |-> x.status]
<1>1. x = q
  BY DEF IsCall
<1>2. [q EXCEPT !.pc = "queued", !.via = v] = end
  <2>1. [q EXCEPT !.pc = "queued", !.via = v] = [[q EXCEPT !.pc = "queued"] EXCEPT !.via = v]
    OBVIOUS
  <2>2. [q EXCEPT !.pc = "queued"]
          = [pc |-> "queued", ask |-> x.ask, via |-> x.via, status |-> x.status]
    OBVIOUS
  <2>3. [[pc |-> "queued", ask |-> x.ask, via |-> x.via, status |-> x.status] EXCEPT !.via = v] = end
    OBVIOUS
  <2> QED BY <2>1, <2>2, <2>3
<1> HIDE DEF q, end
<1>3. [x EXCEPT !.pc = "queued", !.via = v] = end
  BY <1>1, <1>2
<1> QED BY <1>3 DEF Enqueued, end

LEMMA EnqueueStep ==
  ASSUME CallInv, NEW c \in Calls, NEW l, enqueue(c, l),
         \/ call[c].pc = "reading" /\ call[c].ask.route = "send"
              /\ l[1] \in resolveOutbound(call[c].ask)
         \/ call[c].pc = "handling",
         UNCHANGED <<now, outcomes>>
  PROVE  CallInv'
<1> DEFINE r == [pc |-> "queued", ask |-> call[c].ask, via |-> l[1], status |-> call[c].status]
<1>1. IsCall(call[c]) /\ CallOK(call[c])
  BY DEF CallInv, Types
<1>2. IsCall(r) /\ CallOK(r) /\ r.pc = "queued" /\ r.via = l[1]
  BY <1>1 DEF IsCall, CallOK
<1>3. call' = [call EXCEPT ![c] = r]
  <2>1. Enqueued(call[c], l[1]) = r
    BY <1>1, EnqueuedRecord
  <2>2. call' = [call EXCEPT ![c] = Enqueued(call[c], l[1])]
    BY DEF enqueue, Enqueued, CallInv, Types
  <2> HIDE DEF r
  <2> QED BY <2>1, <2>2
<1> HIDE DEF r
<1>4. call'[c] = r /\ \A d \in Calls : d # c => call'[d] = call[d]
  BY <1>3 DEF CallInv, Types
<1>5. call' = [d \in Calls |-> call'[d]] /\ \A d \in Calls : IsCall(call'[d]) /\ CallOK(call'[d])
  BY <1>2, <1>3, <1>4 DEF CallInv, Types
<1>6. \A m \in Limiters : m # l => limiter'[m] = limiter[m]
  BY DEF enqueue, CallInv, Types
<1>7. l \in Limiters =>
        /\ limiter'[l].queue = Append(limiter[l].queue, c)
        /\ limiter'[l].sends = limiter[l].sends
        /\ limiter'[l] = [queue |-> limiter'[l].queue, sends |-> limiter'[l].sends]
  <2> SUFFICES ASSUME l \in Limiters
               PROVE  limiter'[l] = [queue |-> Append(limiter[l].queue, c), sends |-> limiter[l].sends]
    OBVIOUS
  <2> DEFINE q == limiter[l].queue
             s == limiter[l].sends
             a == Append(q, c)
  <2>1. limiter'[l] = [limiter[l] EXCEPT !.queue = a]
    BY LimiterFields DEF enqueue
  <2>2. limiter[l] = [queue |-> q, sends |-> s]
    BY LimiterFields
  <2>3. [[queue |-> q, sends |-> s] EXCEPT !.queue = a] = [queue |-> a, sends |-> s]
    <3> HIDE DEF q, s, a
    <3> QED OBVIOUS
  <2> HIDE DEF q, s, a
  <2>4. limiter'[l] = [queue |-> a, sends |-> s]
    BY <2>1, <2>2, <2>3
  <2> QED BY <2>4 DEF a, q, s
<1>8. \A m \in Limiters :
        /\ limiter'[m].queue \in Seq(Calls) /\ limiter'[m].sends \in Seq(Int)
        /\ limiter'[m] = [queue |-> limiter'[m].queue, sends |-> limiter'[m].sends]
  <2> SUFFICES ASSUME NEW m \in Limiters
        PROVE /\ limiter'[m].queue \in Seq(Calls) /\ limiter'[m].sends \in Seq(Int)
              /\ limiter'[m] = [queue |-> limiter'[m].queue, sends |-> limiter'[m].sends]
    OBVIOUS
  <2>1. CASE m = l
    <3>1. limiter[l].queue \in Seq(Calls) /\ limiter[l].sends \in Seq(Int)
      BY <2>1, LimiterFields
    <3>2. Append(limiter[l].queue, c) \in Seq(Calls)
      BY <3>1
    <3> QED BY <2>1, <3>1, <3>2, <1>7
  <2>2. CASE m # l
    BY <2>2, <1>6, LimiterFields
  <2> QED BY <2>1, <2>2
<1>9. limiter' \in [Limiters -> [queue : Seq(Calls), sends : Seq(Int)]]
  <2> DEFINE S == Seq(Calls)
             T == Seq(Int)
  <2>1. limiter' = [m \in Limiters |-> limiter'[m]]
    BY DEF enqueue, CallInv, Types
  <2>2. \A m \in Limiters : limiter'[m].queue \in S /\ limiter'[m].sends \in T
          /\ limiter'[m] = [queue |-> limiter'[m].queue, sends |-> limiter'[m].sends]
    BY <1>8
  <2>3. limiter' \in [Limiters -> [queue : S, sends : T]]
    <3> HIDE DEF S, T
    <3>1. \A m \in Limiters : limiter'[m] \in [queue : S, sends : T]
      <4> TAKE m \in Limiters
      <4>1. [queue |-> limiter'[m].queue, sends |-> limiter'[m].sends] \in [queue : S, sends : T]
        BY <2>2
      <4> QED BY <2>2, <4>1
    <3> QED BY <2>1, <3>1
  <2> QED BY <2>3
<1>10. Types'
  BY <1>5, <1>9 DEF CallInv, Types
<1>11. \A m \in Limiters : \A i \in DOMAIN limiter[m].queue : limiter[m].queue[i] \in Calls \ {c}
  <2> SUFFICES ASSUME NEW m \in Limiters, NEW i \in DOMAIN limiter[m].queue
               PROVE  limiter[m].queue[i] \in Calls /\ limiter[m].queue[i] # c
    OBVIOUS
  <2>1. limiter[m].queue[i] \in Calls
    BY LimiterFields
  <2>2. call[limiter[m].queue[i]].pc = "queued"
    BY DEF CallInv, Queued
  <2> QED BY <2>1, <2>2
<1>12. \A m \in Limiters : \A i \in DOMAIN limiter'[m].queue :
         \/ i \in DOMAIN limiter[m].queue /\ limiter'[m].queue[i] = limiter[m].queue[i]
         \/ m = l /\ i = Len(limiter[m].queue) + 1 /\ limiter'[m].queue[i] = c
  <2> SUFFICES ASSUME NEW m \in Limiters, NEW i \in DOMAIN limiter'[m].queue
         PROVE \/ i \in DOMAIN limiter[m].queue /\ limiter'[m].queue[i] = limiter[m].queue[i]
               \/ m = l /\ i = Len(limiter[m].queue) + 1 /\ limiter'[m].queue[i] = c
    OBVIOUS
  <2>1. CASE m = l
    <3> DEFINE s == limiter[m].queue
               t == limiter'[m].queue
    <3>1. s \in Seq(Calls) /\ t = Append(s, c)
      BY <2>1, <1>7, LimiterFields
    <3>2. (i \in DOMAIN s /\ t[i] = s[i]) \/ (i = Len(s) + 1 /\ t[i] = c)
      <4>2. i \in DOMAIN t
        OBVIOUS
      <4> HIDE DEF s, t
      <4>1. DOMAIN t = 1..Len(t) /\ Len(t) = Len(s) + 1 /\ DOMAIN s = 1..Len(s) /\ Len(s) \in Nat
            /\ (\A k \in 1..Len(s) : t[k] = s[k]) /\ t[Len(s) + 1] = c
        BY <3>1, AppendProperties
      <4>3. i \in 1..Len(s) \/ i = Len(s) + 1
        BY <4>1, <4>2
      <4> QED BY <4>1, <4>3
    <3> QED BY <2>1, <3>2
  <2>2. CASE m # l
    BY <2>2, <1>6
  <2> QED BY <2>1, <2>2
<1>13. Queued'
  <2>1. \A m \in Limiters : \A i \in DOMAIN limiter'[m].queue :
          LET d == limiter'[m].queue[i] IN call'[d].pc = "queued" /\ call'[d].via = m[1]
    <3> SUFFICES ASSUME NEW m \in Limiters, NEW i \in DOMAIN limiter'[m].queue
          PROVE call'[limiter'[m].queue[i]].pc = "queued" /\ call'[limiter'[m].queue[i]].via = m[1]
      OBVIOUS
    <3>1. CASE i \in DOMAIN limiter[m].queue /\ limiter'[m].queue[i] = limiter[m].queue[i]
      BY <3>1, <1>4, <1>11 DEF CallInv, Queued
    <3>2. CASE m = l /\ limiter'[m].queue[i] = c
      BY <3>2, <1>2, <1>4
    <3> QED BY <3>1, <3>2, <1>12
  <2>2. \A m, n \in Limiters :
          \A i \in DOMAIN limiter'[m].queue, j \in DOMAIN limiter'[n].queue :
            limiter'[m].queue[i] = limiter'[n].queue[j] => m = n /\ i = j
    <3> SUFFICES ASSUME NEW m \in Limiters, NEW n \in Limiters,
                        NEW i \in DOMAIN limiter'[m].queue, NEW j \in DOMAIN limiter'[n].queue,
                        limiter'[m].queue[i] = limiter'[n].queue[j]
                 PROVE  m = n /\ i = j
      OBVIOUS
    <3>1. CASE limiter'[m].queue[i] = c
      <4>1. m = l /\ i = Len(limiter[m].queue) + 1
        BY <3>1, <1>11, <1>12
      <4>2. n = l /\ j = Len(limiter[n].queue) + 1
        BY <3>1, <1>11, <1>12
      <4> QED BY <4>1, <4>2
    <3>2. CASE limiter'[m].queue[i] # c
      <4>1. /\ i \in DOMAIN limiter[m].queue /\ j \in DOMAIN limiter[n].queue
            /\ limiter[m].queue[i] = limiter[n].queue[j]
        BY <3>2, <1>12
      <4> QED BY <4>1 DEF CallInv, Queued
    <3> QED BY <3>1, <3>2
  <2> QED BY <2>1, <2>2 DEF Queued
<1>14. Delivered'
  <2>1. \A i \in DOMAIN sent : sent[i].call \in Calls \ {c}
    <3>1. \A i \in DOMAIN sent : call[sent[i].call].pc = "end"
      BY DEF CallInv, Delivered
    <3> QED BY <3>1, SentMessages
  <2> QED BY <1>2, <1>4, <2>1 DEF CallInv, Delivered
<1>15. Unknown'
  <2>1. c \notin unconfirmed
    BY DEF CallInv, Unknown
  <2> QED BY <1>4, <2>1 DEF CallInv, Unknown
<1> QED BY <1>5, <1>10, <1>13, <1>14, <1>15 DEF CallInv

LEMMA EnqueueSteps ==
  ASSUME CallInv, NEW c \in Calls, SendRequested(c) \/ Handled(c)
  PROVE  CallInv'
<1>1. CASE SendRequested(c)
  <2>1. PICK a \in resolveOutbound(call[c].ask) : enqueue(c, <<a, "api">>)
    BY <1>1 DEF SendRequested
  <2>2. <<a, "api">>[1] = a
    OBVIOUS
  <2> QED BY <1>1, <2>1, <2>2, EnqueueStep DEF SendRequested
<1>2. CASE Handled(c)
  <2>1. call[c].ask.route # "send"
    BY <1>2 DEF Handled, CallInv, CallOK
  <2>2. CASE answer(c, 200) /\ UNCHANGED limiter
    BY <1>2, <2>1, <2>2, AnswerStep DEF Handled
  <2>3. CASE enqueue(c, <<call[c].via, "gateway">>)
    BY <1>2, <2>3, EnqueueStep DEF Handled
  <2> QED BY <1>2, <2>2, <2>3 DEF Handled
<1> QED BY <1>1, <1>2

-----------------------------------------------------------------------------
\* The head of a limiter's queue leaves it and its call ends with record r.
LEMMA Dequeued ==
  ASSUME CallInv, NEW l \in Limiters, limiter[l].queue # <<>>,
         NEW r, IsCall(r), CallOK(r), r.pc = "end", NEW sends \in Seq(Int),
         call' = [call EXCEPT ![Head(limiter[l].queue)] = r],
         limiter' = [limiter EXCEPT ![l] = [queue |-> Tail(limiter[l].queue), sends |-> sends]],
         now' = now
  PROVE  /\ Head(limiter[l].queue) \in Calls
         /\ call[Head(limiter[l].queue)].pc = "queued"
         /\ call[Head(limiter[l].queue)].via = l[1]
         /\ \A d \in Calls : CallOK(call'[d])
         /\ Queued' /\ (sent' \in Seq(Messages) => Types')
         /\ call'[Head(limiter[l].queue)] = r
         /\ \A d \in Calls : d # Head(limiter[l].queue) => call'[d] = call[d]
<1> DEFINE q == limiter[l].queue
           c == Head(q)
<1>1. /\ q \in Seq(Calls) /\ q # <<>> /\ DOMAIN q = 1..Len(q) /\ Len(q) \in Nat \ {0}
      /\ 1 \in DOMAIN q /\ c = q[1] /\ c \in Calls
  <2>1. q \in Seq(Calls)
    BY LimiterFields
  <2> HIDE DEF q
  <2>2. q # <<>>
    BY DEF q
  <2> QED BY <2>1, <2>2
<1>2. call[c].pc = "queued" /\ call[c].via = l[1]
  BY <1>1 DEF CallInv, Queued
<1>3. Tail(q) \in Seq(Calls) /\ \A i \in DOMAIN Tail(q) : i + 1 \in DOMAIN q /\ Tail(q)[i] = q[i + 1]
                              /\ i \in Int
  <2> HIDE DEF q
  <2>1. Tail(q) \in Seq(Calls) /\ Len(Tail(q)) = Len(q) - 1
        /\ \A i \in 1..Len(Tail(q)) : Tail(q)[i] = q[i + 1]
    BY <1>1, HeadTailProperties
  <2>2. DOMAIN Tail(q) = 1..Len(Tail(q))
    BY <2>1
  <2> QED BY <1>1, <2>1, <2>2
<1>4. call'[c] = r /\ \A d \in Calls : d # c => call'[d] = call[d]
  BY <1>1 DEF CallInv, Types
<1>5. call' = [d \in Calls |-> call'[d]] /\ \A d \in Calls : IsCall(call'[d]) /\ CallOK(call'[d])
  BY <1>4 DEF CallInv, Types
<1>6. /\ limiter'[l].queue = Tail(q) /\ limiter'[l].sends = sends
      /\ \A m \in Limiters : m # l => limiter'[m] = limiter[m]
  <2>1. DOMAIN limiter = Limiters
    BY LimiterFields
  <2> QED BY <2>1
<1>7. limiter' \in [Limiters -> [queue : Seq(Calls), sends : Seq(Int)]]
  <2> DEFINE S == Seq(Calls)
             T == Seq(Int)
             new == [queue |-> Tail(q), sends |-> sends]
  <2>1. limiter \in [Limiters -> [queue : S, sends : T]] /\ limiter' = [limiter EXCEPT ![l] = new]
    BY DEF CallInv, Types
  <2>2. new \in [queue : S, sends : T]
    BY <1>3
  <2>3. limiter' \in [Limiters -> [queue : S, sends : T]]
    <3> HIDE DEF S, T, new
    <3> QED BY <2>1, <2>2
  <2> QED BY <2>3
<1>8. \A m \in Limiters : \A i \in DOMAIN limiter[m].queue :
        /\ limiter[m].queue[i] \in Calls
        /\ limiter[m].queue[i] = c => m = l /\ i = 1
  <2>1. \A m \in Limiters : \A i \in DOMAIN limiter[m].queue : limiter[m].queue[i] \in Calls
    BY LimiterFields
  <2>2. \A m \in Limiters : \A i \in DOMAIN limiter[m].queue :
          limiter[m].queue[i] = limiter[l].queue[1] => m = l /\ i = 1
    BY <1>1 DEF CallInv, Queued
  <2> QED BY <1>1, <2>1, <2>2
<1> DEFINE old(m, i) == IF m = l THEN i + 1 ELSE i
<1>9. \A m \in Limiters : \A i \in DOMAIN limiter'[m].queue :
        /\ old(m, i) \in DOMAIN limiter[m].queue
        /\ limiter'[m].queue[i] = limiter[m].queue[old(m, i)]
        /\ limiter[m].queue[old(m, i)] \in Calls \ {c}
  <2> SUFFICES ASSUME NEW m \in Limiters, NEW i \in DOMAIN limiter'[m].queue
        PROVE /\ old(m, i) \in DOMAIN limiter[m].queue
              /\ limiter'[m].queue[i] = limiter[m].queue[old(m, i)]
              /\ limiter[m].queue[old(m, i)] \in Calls \ {c}
    OBVIOUS
  <2>1. CASE m = l
    <3>1. i \in DOMAIN Tail(q)
      BY <2>1, <1>6
    <3>2. i + 1 \in DOMAIN q /\ Tail(q)[i] = q[i + 1] /\ i \in Int /\ i + 1 # 1
      <4>1. i \in 1..Len(Tail(q))
        BY <3>1, <1>3
      <4> HIDE DEF q
      <4> QED BY <3>1, <1>3, <4>1
    <3> QED BY <2>1, <3>2, <1>6, <1>8
  <2>2. CASE m # l
    BY <2>2, <1>6, <1>8
  <2> QED BY <2>1, <2>2
<1>10. Queued'
  <2>1. \A m \in Limiters : \A i \in DOMAIN limiter'[m].queue :
          LET d == limiter'[m].queue[i] IN call'[d].pc = "queued" /\ call'[d].via = m[1]
    <3> SUFFICES ASSUME NEW m \in Limiters, NEW i \in DOMAIN limiter'[m].queue
          PROVE call'[limiter'[m].queue[i]].pc = "queued" /\ call'[limiter'[m].queue[i]].via = m[1]
      OBVIOUS
    <3> DEFINE k == old(m, i)
               d == limiter[m].queue[k]
    <3>1. k \in DOMAIN limiter[m].queue /\ limiter'[m].queue[i] = d /\ d \in Calls \ {c}
      BY <1>9
    <3>2. call[d].pc = "queued" /\ call[d].via = m[1]
      <4> HIDE DEF k
      <4> QED BY <3>1 DEF CallInv, Queued
    <3>3. call'[d] = call[d]
      <4> HIDE DEF d, c
      <4> QED BY <1>4, <3>1
    <3> QED BY <3>1, <3>2, <3>3
  <2>2. \A m, n \in Limiters :
          \A i \in DOMAIN limiter'[m].queue, j \in DOMAIN limiter'[n].queue :
            limiter'[m].queue[i] = limiter'[n].queue[j] => m = n /\ i = j
    <3> SUFFICES ASSUME NEW m \in Limiters, NEW n \in Limiters,
                        NEW i \in DOMAIN limiter'[m].queue, NEW j \in DOMAIN limiter'[n].queue,
                        limiter'[m].queue[i] = limiter'[n].queue[j]
                 PROVE  m = n /\ i = j
      OBVIOUS
    <3>1. m = n /\ old(m, i) = old(n, j)
      <4> HIDE DEF old
      <4> QED BY <1>9 DEF CallInv, Queued
    <3>2. i \in Int /\ j \in Int
      <4>1. \A k \in Limiters : limiter'[k].queue \in Seq(Calls)
        <5> DEFINE S == Seq(Calls)
                   T == Seq(Int)
        <5>1. limiter' \in [Limiters -> [queue : S, sends : T]]
          BY <1>7
        <5>2. \A k \in Limiters : limiter'[k].queue \in S
          <6> HIDE DEF S, T
          <6> QED BY <5>1
        <5> QED BY <5>2
      <4>2. DOMAIN limiter'[m].queue = 1..Len(limiter'[m].queue)
            /\ DOMAIN limiter'[n].queue = 1..Len(limiter'[n].queue)
        BY <4>1
      <4> QED BY <4>2
    <3> QED BY <3>1, <3>2
  <2> QED BY <2>1, <2>2 DEF Queued
<1>11. sent' \in Seq(Messages) => Types'
  BY <1>5, <1>7 DEF CallInv, Types
<1> QED BY <1>1, <1>2, <1>4, <1>5, <1>10, <1>11

\* How the call at the head of a limiter's queue ends.
LEMMA HeadEnds ==
  ASSUME CallInv, NEW l \in Limiters, limiter[l].queue # <<>>, NEW status \in {200, 429, 500},
         answer(Head(limiter[l].queue), status)
  PROVE  \E r : /\ IsCall(r) /\ CallOK(r) /\ r.pc = "end"
                /\ call' = [call EXCEPT ![Head(limiter[l].queue)] = r]
                /\ r.ask = call[Head(limiter[l].queue)].ask
                /\ r.ask.route = "send" =>
                     r.status \in {status, Reset}
                       /\ call[Head(limiter[l].queue)].via \in resolveOutbound(r.ask)
                /\ r.ask.route # "send" => r.status = 200
<1> DEFINE c == Head(limiter[l].queue)
<1>1. c \in Calls /\ call[c].pc = "queued"
  <2>1. limiter[l].queue \in Seq(Calls) /\ limiter[l].queue # <<>>
    BY LimiterFields
  <2>2. c = limiter[l].queue[1] /\ 1 \in DOMAIN limiter[l].queue /\ c \in Calls
    BY <2>1
  <2> QED BY <2>2 DEF CallInv, Queued
<1>2. answer(c, status) /\ status \in Int
  OBVIOUS
<1> HIDE DEF c
<1>3. PICK r : /\ IsCall(r) /\ CallOK(r) /\ r.pc = "end" /\ r.ask = call[c].ask
               /\ r.status = IF call[c].status = 0 THEN status ELSE call[c].status
               /\ call' = [call EXCEPT ![c] = r]
  BY <1>1, <1>2, AnswerEnds
<1>4. CallOK(call[c])
  BY <1>1 DEF CallInv
<1>5. /\ r.ask.route = "send" =>
           r.status \in {status, Reset} /\ call[c].via \in resolveOutbound(r.ask)
      /\ r.ask.route # "send" => r.status = 200
  BY <1>1, <1>3, <1>4 DEF CallOK, Reset
<1> QED BY <1>3, <1>5 DEF c

LEMMA SendFailsStep ==
  ASSUME CallInv, NEW l \in Limiters, SendFails(l)
  PROVE  CallInv'
<1> DEFINE c == Head(limiter[l].queue)
<1>1. PICK r : /\ IsCall(r) /\ CallOK(r) /\ r.pc = "end"
               /\ call' = [call EXCEPT ![c] = r]
               /\ r.ask.route = "send" => r.status \in {429, 500, Reset}
               /\ \/ unconfirmed' = unconfirmed
                  \/ /\ unconfirmed' = unconfirmed \cup {c}
                     /\ r.status \in {Reset, 200, 500}
  <2>1. CASE answer(c, 500)
    BY <2>1, HeadEnds DEF SendFails
  <2>2. CASE answer(c, 429) /\ unconfirmed' = unconfirmed
    BY <2>2, HeadEnds DEF SendFails
  <2> QED BY <2>1, <2>2 DEF SendFails
<1>2. limiter' = [limiter EXCEPT ![l] = [queue |-> Tail(limiter[l].queue), sends |-> limiter[l].sends]]
      /\ limiter[l].sends \in Seq(Int)
  <2>1. limiter' = [limiter EXCEPT ![l] = [limiter[l] EXCEPT !.queue = Tail(limiter[l].queue)]]
    BY LimiterFields DEF SendFails
  <2> DEFINE q == limiter[l].queue
             s == limiter[l].sends
             t == Tail(q)
  <2>2. limiter[l] = [queue |-> q, sends |-> s]
    BY LimiterFields
  <2>3. [[queue |-> q, sends |-> s] EXCEPT !.queue = t] = [queue |-> t, sends |-> s]
    <3> HIDE DEF q, s, t
    <3> QED OBVIOUS
  <2>4. limiter' = [limiter EXCEPT ![l] = [queue |-> t, sends |-> s]]
    <3>1. limiter' = [limiter EXCEPT ![l] = [limiter[l] EXCEPT !.queue = t]]
      BY <2>1
    <3> HIDE DEF q, s, t
    <3> QED BY <2>2, <2>3, <3>1
  <2> QED BY <2>4, LimiterFields
<1>3. /\ c \in Calls /\ call[c].pc = "queued" /\ \A d \in Calls : CallOK(call'[d])
      /\ Queued' /\ (sent' \in Seq(Messages) => Types')
      /\ call'[c] = r /\ \A d \in Calls : d # c => call'[d] = call[d]
  <2>1. limiter[l].queue # <<>> /\ now' = now
    BY DEF SendFails
  <2> DEFINE sends == limiter[l].sends
  <2>2. /\ sends \in Seq(Int)
        /\ limiter' = [limiter EXCEPT ![l] = [queue |-> Tail(limiter[l].queue), sends |-> sends]]
    BY <1>2
  <2>3. call' = [call EXCEPT ![Head(limiter[l].queue)] = r]
    BY <1>1
  <2> HIDE DEF sends
  <2>4. /\ Head(limiter[l].queue) \in Calls
        /\ call[Head(limiter[l].queue)].pc = "queued"
        /\ \A d \in Calls : CallOK(call'[d])
        /\ Queued' /\ (sent' \in Seq(Messages) => Types')
        /\ call'[Head(limiter[l].queue)] = r
        /\ \A d \in Calls : d # Head(limiter[l].queue) => call'[d] = call[d]
    <3>1. IsCall(r) /\ CallOK(r) /\ r.pc = "end"
      BY <1>1
    <3> QED BY ONLY CallInv, l \in Limiters, <2>1, <2>2, <2>3, <3>1, Dequeued
  <2> QED BY <2>4
<1>4. sent' = sent /\ Types'
  BY <1>3 DEF SendFails, CallInv, Types
<1>5. \A i \in DOMAIN sent : sent[i].call \in Calls \ {c}
  <2>1. \A i \in DOMAIN sent : call[sent[i].call].pc = "end"
    BY DEF CallInv, Delivered
  <2> QED BY <1>3, <2>1, SentMessages
<1>6. unconfirmed' = unconfirmed \/ unconfirmed' = unconfirmed \cup {c}
  BY <1>1
<1> HIDE DEF c
<1>7. Delivered'
  BY <1>1, <1>3, <1>4, <1>5 DEF CallInv, Delivered, Reset
<1>8. Unknown'
  <2>1. c \notin unconfirmed
    BY <1>3 DEF CallInv, Unknown
  <2>2. \A d \in unconfirmed : call'[d] = call[d]
    BY <1>3, <2>1 DEF CallInv, Unknown
  <2>3. /\ call'[c].pc = "end"
        /\ unconfirmed' # unconfirmed => call'[c].status \in {Reset, 200, 500}
    BY <1>1, <1>3
  <2> QED BY <1>3, <1>4, <1>5, <1>6, <2>2, <2>3 DEF CallInv, Unknown
<1> QED BY <1>3, <1>4, <1>7, <1>8 DEF CallInv

LEMMA SendStep ==
  ASSUME CallInv, NEW l \in Limiters, Send(l)
  PROVE  /\ CallInv'
         /\ sent' \in Seq(Messages) /\ Len(sent') = Len(sent) + 1 /\ Len(sent) \in Nat
         /\ DOMAIN sent = 1..Len(sent) /\ DOMAIN sent' = 1..(Len(sent) + 1)
         /\ \A i \in DOMAIN sent : sent'[i] = sent[i]
         /\ sent'[Len(sent) + 1].via = l[1] /\ sent'[Len(sent) + 1].at = now
         /\ limiter'[l].sends = Append(limiter[l].sends, now)
         /\ \A m \in Limiters : m # l => limiter'[m] = limiter[m]
<1> DEFINE q == limiter[l].queue
           c == Head(q)
           message == [call |-> c, via |-> l[1], at |-> now]
           sends == Append(limiter[l].sends, now)
<1>1. PICK r : /\ IsCall(r) /\ CallOK(r) /\ r.pc = "end"
               /\ call' = [call EXCEPT ![c] = r]
               /\ r.ask = call[c].ask
               /\ r.ask.route = "send" =>
                    r.status \in {200, Reset} /\ call[c].via \in resolveOutbound(r.ask)
               /\ r.ask.route # "send" => r.status = 200
  BY HeadEnds DEF Send
<1>2. limiter' = [limiter EXCEPT ![l] = [queue |-> Tail(q), sends |-> sends]] /\ now' = now
      /\ sends \in Seq(Int)
  <2>1. limiter' = [limiter EXCEPT ![l] = [queue |-> Tail(q), sends |-> sends]] /\ now' = now
    BY LimiterFields DEF Send
  <2>2. limiter[l].sends \in Seq(Int) /\ now \in Int
    BY LimiterFields DEF CallInv, Types
  <2>3. sends \in Seq(Int)
    BY <2>2
  <2> QED BY <2>1, <2>3
<1>3. /\ c \in Calls /\ call[c].pc = "queued" /\ call[c].via = l[1]
      /\ \A d \in Calls : CallOK(call'[d])
      /\ Queued' /\ (sent' \in Seq(Messages) => Types')
      /\ call'[c] = r /\ \A d \in Calls : d # c => call'[d] = call[d]
  <2>1. q # <<>>
    BY DEF Send
  <2>2. /\ limiter[l].queue # <<>> /\ IsCall(r) /\ CallOK(r) /\ r.pc = "end"
        /\ sends \in Seq(Int) /\ now' = now
        /\ call' = [call EXCEPT ![Head(limiter[l].queue)] = r]
        /\ limiter' = [limiter EXCEPT ![l] = [queue |-> Tail(limiter[l].queue), sends |-> sends]]
    BY <1>1, <1>2, <2>1
  <2> HIDE DEF sends, message, c, q
  <2>3. /\ Head(limiter[l].queue) \in Calls
        /\ call[Head(limiter[l].queue)].pc = "queued"
        /\ call[Head(limiter[l].queue)].via = l[1]
        /\ \A d \in Calls : CallOK(call'[d])
        /\ Queued' /\ (sent' \in Seq(Messages) => Types')
        /\ call'[Head(limiter[l].queue)] = r
        /\ \A d \in Calls : d # Head(limiter[l].queue) => call'[d] = call[d]
    BY ONLY CallInv, l \in Limiters, <2>2, Dequeued
  <2> QED BY <2>3 DEF c, q
<1>4. sent' = Append(sent, message)
  BY DEF Send
<1>5. message \in Messages /\ message.call = c /\ message.via = l[1] /\ message.at = now
  <2>1. l[1] \in Accounts /\ now \in Int
    BY DEF Limiters, CallInv, Types
  <2> HIDE DEF c
  <2> QED BY <1>3, <2>1 DEF Messages
<1> HIDE DEF message, c, sends
<1>6. /\ sent' \in Seq(Messages) /\ Len(sent') = Len(sent) + 1 /\ Len(sent) \in Nat
      /\ DOMAIN sent = 1..Len(sent) /\ DOMAIN sent' = 1..(Len(sent) + 1)
      /\ (\A i \in DOMAIN sent : sent'[i] = sent[i])
      /\ sent'[Len(sent) + 1] = message
  <2>1. sent \in Seq(Messages)
    BY DEF CallInv, Types
  <2> QED BY <1>4, <1>5, <2>1
<1>7. \A i \in DOMAIN sent : sent[i].call \in Calls \ {c}
  <2>1. \A i \in DOMAIN sent : call[sent[i].call].pc = "end"
    BY DEF CallInv, Delivered
  <2> QED BY <1>3, <2>1, SentMessages
<1> DEFINE n == Len(sent) + 1
<1>8. \A i \in DOMAIN sent' : i \in DOMAIN sent \/ i = n
  BY <1>6
<1>9. n \in DOMAIN sent' /\ sent'[n] = message /\ \A i \in DOMAIN sent : i \in DOMAIN sent'
  BY <1>6
<1> HIDE DEF n
<1>10. Delivered'
  <2>1. \A i \in DOMAIN sent' :
          LET x == call'[sent'[i].call]
          IN /\ x.pc = "end" /\ x.status \in {200, Reset}
             /\ x.ask.route = "send" => sent'[i].via \in resolveOutbound(x.ask)
    <3> SUFFICES ASSUME NEW i \in DOMAIN sent'
          PROVE LET x == call'[sent'[i].call]
                IN /\ x.pc = "end" /\ x.status \in {200, Reset}
                   /\ x.ask.route = "send" => sent'[i].via \in resolveOutbound(x.ask)
      OBVIOUS
    <3>1. CASE i = n
      <4>1. sent'[i].call = c /\ sent'[i].via = l[1] /\ call'[c] = r
        BY <3>1, <1>3, <1>5, <1>9
      <4> QED BY <4>1, <1>1, <1>3
    <3>2. CASE i \in DOMAIN sent
      <4>1. sent'[i] = sent[i] /\ call'[sent[i].call] = call[sent[i].call]
        BY <3>2, <1>3, <1>6, <1>7
      <4> QED BY <3>2, <4>1 DEF CallInv, Delivered
    <3> QED BY <3>1, <3>2, <1>8
  <2>2. \A i, j \in DOMAIN sent' : sent'[i].call = sent'[j].call => i = j
    BY <1>5, <1>6, <1>7, <1>8, <1>9 DEF CallInv, Delivered
  <2>3. \A d \in Calls :
          call'[d].pc = "end" /\ call'[d].ask.route = "send" /\ call'[d].status = 200 =>
            \E i \in DOMAIN sent' : sent'[i].call = d
    <3> SUFFICES ASSUME NEW d \in Calls, call'[d].pc = "end", call'[d].ask.route = "send",
                        call'[d].status = 200
                 PROVE  \E i \in DOMAIN sent' : sent'[i].call = d
      OBVIOUS
    <3>1. CASE d = c
      BY <3>1, <1>5, <1>9
    <3>2. CASE d # c
      <4>1. PICK i \in DOMAIN sent : sent[i].call = d
        BY <3>2, <1>3 DEF CallInv, Delivered
      <4> QED BY <4>1, <1>6, <1>9
    <3> QED BY <3>1, <3>2
  <2> QED BY <2>1, <2>2, <2>3 DEF Delivered
<1>11. Unknown'
  <2>1. c \notin unconfirmed /\ unconfirmed' = unconfirmed
    BY <1>3 DEF CallInv, Unknown, Send
  <2>2. \A i \in DOMAIN sent' : sent'[i].call = c \/ (i \in DOMAIN sent /\ sent'[i] = sent[i])
    BY <1>5, <1>6, <1>8, <1>9
  <2> QED BY <1>3, <2>1, <2>2 DEF CallInv, Unknown
<1>12. limiter'[l].sends = sends /\ \A m \in Limiters : m # l => limiter'[m] = limiter[m]
  <2>1. DOMAIN limiter = Limiters
    BY LimiterFields
  <2> QED BY <1>2, <2>1
<1>13. sent'[n].via = l[1] /\ sent'[n].at = now
  BY <1>5, <1>9
<1> QED BY <1>3, <1>6, <1>10, <1>11, <1>12, <1>13 DEF CallInv, n, sends

LEMMA StopServerStep == ASSUME CallInv, StopServer PROVE CallInv'
<1> DEFINE new(c) == IF call[c].pc # "new" /\ call[c].status = 0
                     THEN [call[c] EXCEPT !.status = Reset] ELSE call[c]
<1>1. call' = [c \in Calls |-> new(c)] /\ UNCHANGED <<now, limiter, outcomes>>
  BY DEF StopServer
<1>2. \A c \in Calls :
        /\ IsCall(new(c)) /\ CallOK(new(c))
        /\ new(c).pc = call[c].pc /\ new(c).ask = call[c].ask /\ new(c).via = call[c].via
        /\ new(c).status = call[c].status \/ new(c).status = Reset
  <2> SUFFICES ASSUME NEW c \in Calls
        PROVE /\ IsCall(new(c)) /\ CallOK(new(c))
              /\ new(c).pc = call[c].pc /\ new(c).ask = call[c].ask /\ new(c).via = call[c].via
              /\ new(c).status = call[c].status \/ new(c).status = Reset
    OBVIOUS
  <2>1. IsCall(call[c]) /\ CallOK(call[c])
    BY DEF CallInv, Types
  <2>2. CASE call[c].pc # "new" /\ call[c].status = 0
    <3> DEFINE x == [pc |-> call[c].pc, ask |-> call[c].ask, via |-> call[c].via, status |-> Reset]
               old == [pc |-> call[c].pc, ask |-> call[c].ask, via |-> call[c].via,
                       status |-> call[c].status]
    <3>1. [old EXCEPT !.status = Reset] = x
      OBVIOUS
    <3>2. call[c] = old
      BY <2>1 DEF IsCall
    <3> HIDE DEF old, x
    <3>3. new(c) = x
      BY <2>2, <3>1, <3>2
    <3> HIDE DEF new
    <3>4. IsCall(x) /\ CallOK(x) /\ x.pc = call[c].pc /\ x.ask = call[c].ask
          /\ x.via = call[c].via /\ x.status = Reset
      BY <2>1, <2>2 DEF IsCall, CallOK, Reset, x
    <3> QED BY <3>3, <3>4
  <2>3. CASE ~(call[c].pc # "new" /\ call[c].status = 0)
    BY <2>1, <2>3
  <2> QED BY <2>2, <2>3
<1> HIDE DEF new
<1>3. \A c \in Calls : call'[c] = new(c)
  BY <1>1
<1>4. Types' /\ \A c \in Calls : CallOK(call'[c])
  BY <1>1, <1>2, <1>3 DEF CallInv, Types
<1>5. Queued'
  <2>1. \A l \in Limiters : \A i \in DOMAIN limiter[l].queue : limiter[l].queue[i] \in Calls
    BY LimiterFields
  <2> QED BY <1>1, <1>2, <1>3, <2>1 DEF CallInv, Queued
<1>6. Delivered'
  BY <1>1, <1>2, <1>3, SentMessages DEF CallInv, Delivered, Reset
<1>7. Unknown'
  BY <1>1, <1>2, <1>3 DEF CallInv, Unknown
<1> QED BY <1>4, <1>5, <1>6, <1>7 DEF CallInv

LEMMA ExitStep == ASSUME CallInv, Exit PROVE CallInv'
<1> DEFINE new(c) == IF call[c].pc # "new" THEN [call[c] EXCEPT !.pc = "end"] ELSE call[c]
<1>1. call' = [c \in Calls |-> new(c)] /\ UNCHANGED <<now, sent>>
  BY DEF Exit
<1>2. \A c \in Calls :
        /\ IsCall(new(c)) /\ CallOK(new(c))
        /\ call[c].pc # "new" => new(c).pc = "end"
        /\ new(c).pc = "end" \/ new(c) = call[c]
        /\ new(c).ask = call[c].ask /\ new(c).status = call[c].status
  <2> SUFFICES ASSUME NEW c \in Calls
        PROVE /\ IsCall(new(c)) /\ CallOK(new(c))
              /\ call[c].pc # "new" => new(c).pc = "end"
              /\ new(c).pc = "end" \/ new(c) = call[c]
              /\ new(c).ask = call[c].ask /\ new(c).status = call[c].status
    OBVIOUS
  <2>1. IsCall(call[c]) /\ CallOK(call[c])
    BY DEF CallInv, Types
  <2>2. CASE call[c].pc # "new"
    <3> DEFINE x == [pc |-> "end", ask |-> call[c].ask, via |-> call[c].via,
                     status |-> call[c].status]
               old == [pc |-> call[c].pc, ask |-> call[c].ask, via |-> call[c].via,
                       status |-> call[c].status]
    <3>1. [old EXCEPT !.pc = "end"] = x
      OBVIOUS
    <3>2. call[c] = old
      BY <2>1 DEF IsCall
    <3> HIDE DEF old, x
    <3>3. new(c) = x
      BY <2>2, <3>1, <3>2
    <3> HIDE DEF new
    <3>4. IsCall(x) /\ CallOK(x) /\ x.pc = "end" /\ x.ask = call[c].ask
          /\ x.status = call[c].status
      BY <2>1 DEF IsCall, CallOK, x
    <3> QED BY <3>3, <3>4
  <2>3. CASE ~(call[c].pc # "new")
    BY <2>1, <2>3
  <2> QED BY <2>2, <2>3
<1> HIDE DEF new
<1>3. \A c \in Calls : call'[c] = new(c)
  BY <1>1
<1>4. /\ limiter' = [l \in Limiters |-> [queue |-> <<>>, sends |-> limiter[l].sends]]
      /\ \A l \in Limiters : limiter'[l].queue = <<>> /\ limiter[l].sends \in Seq(Int)
                             /\ limiter'[l].sends = limiter[l].sends
  <2>1. DOMAIN limiter = Limiters
    BY DEF CallInv, Types
  <2> QED BY <2>1, LimiterFields DEF Exit
<1>5. limiter' \in [Limiters -> [queue : Seq(Calls), sends : Seq(Int)]]
  <2> DEFINE S == Seq(Calls)
             T == Seq(Int)
  <2>1. <<>> \in S /\ \A l \in Limiters : limiter[l].sends \in T
    BY <1>4
  <2>2. limiter' \in [Limiters -> [queue : S, sends : T]]
    <3> HIDE DEF S, T
    <3> QED BY <1>4, <2>1
  <2> QED BY <2>2
<1>6. Types' /\ \A c \in Calls : CallOK(call'[c])
  BY <1>1, <1>2, <1>3, <1>5 DEF CallInv, Types
<1>7. Queued'
  BY <1>4 DEF Queued
<1>8. Delivered'
  <2>1. \A i \in DOMAIN sent :
          LET x == call'[sent[i].call]
          IN /\ x.pc = "end" /\ x.status \in {200, Reset}
             /\ x.ask.route = "send" => sent[i].via \in resolveOutbound(x.ask)
    BY <1>2, <1>3, SentMessages DEF CallInv, Delivered
  <2>2. \A c \in Calls :
          call'[c].ask.route = "send" /\ call'[c].status = 200 =>
            \E i \in DOMAIN sent : sent[i].call = c
    <3>1. \A c \in Calls :
            call[c].ask.route = "send" /\ call[c].status = 200 => call[c].pc = "end"
      BY DEF CallInv, CallOK, Reset
    <3> QED BY <1>2, <1>3, <3>1 DEF CallInv, Delivered
  <2> QED BY <1>1, <2>1, <2>2 DEF CallInv, Delivered
<1>9. Unknown'
  <2>1. PICK onTheWay \in SUBSET UnderWay : unconfirmed' = unconfirmed \cup onTheWay
    BY DEF Exit
  <2>2. \A c \in UnderWay : c \in Calls /\ call[c].pc = "queued"
    <3> SUFFICES ASSUME NEW l \in Limiters, limiter[l].queue # <<>>
                 PROVE  call[Head(limiter[l].queue)].pc = "queued"
      BY DEF UnderWay
    <3>1. limiter[l].queue \in Seq(Calls)
      BY LimiterFields
    <3>2. Head(limiter[l].queue) = limiter[l].queue[1] /\ 1 \in DOMAIN limiter[l].queue
      BY <3>1
    <3> QED BY <3>2 DEF CallInv, Queued
  <2>3. \A c \in UnderWay : \A i \in DOMAIN sent : sent[i].call # c
    BY <2>2 DEF CallInv, Delivered
  <2>5. \A c \in UnderWay : call'[c].pc = "end" /\ call'[c].status \in {0, Reset, 200, 500}
    <3>1. \A c \in Calls : call[c].pc = "queued" => call[c].status \in {0, Reset, 200}
      BY DEF CallInv, CallOK
    <3>2. \A c \in Calls : call[c].pc # "new" => call'[c].pc = "end"
      BY <1>2, <1>3
    <3> QED BY <1>2, <1>3, <2>2, <3>1, <3>2
  <2>4. \A c \in unconfirmed :
          call'[c].pc = "end" /\ call'[c].status \in {0, Reset, 200, 500}
    BY <1>2, <1>3 DEF CallInv, Unknown
  <2> QED BY <1>1, <2>1, <2>2, <2>3, <2>4, <2>5 DEF CallInv, Unknown
<1> QED BY <1>6, <1>7, <1>8, <1>9 DEF CallInv

LEMMA CallStep == CallInv /\ [Next]_vars => CallInv'
<1> SUFFICES ASSUME CallInv, [Next]_vars PROVE CallInv'
  OBVIOUS
<1>1. CASE UNCHANGED <<call, limiter, outcomes>> /\ now' \in Int
  <2>1. call' = call /\ limiter' = limiter /\ sent' = sent /\ unconfirmed' = unconfirmed
    BY <1>1
  <2>2. Types' /\ \A c \in Calls : CallOK(call'[c])
    BY <1>1, <2>1 DEF CallInv, Types
  <2>3. Queued' /\ Delivered'
    BY <2>1 DEF CallInv, Queued, Delivered
  <2>4. Unknown'
    BY <2>1 DEF CallInv, Unknown
  <2> QED BY <2>2, <2>3, <2>4 DEF CallInv
<1>2. CASE UNCHANGED vars \/ StopGateway \/ Tick
  <2>1. now' \in Int
    BY <1>2 DEF vars, StopGateway, Tick, CallInv, Types
  <2> QED BY <1>1, <1>2, <2>1 DEF vars, StopGateway, Tick
<1>3. ASSUME NEW c \in Calls, Handler(c) PROVE CallInv'
  BY <1>3, AnswersSteps, EnqueueSteps, AcknowledgedStep DEF Handler
<1>4. ASSUME NEW l \in Limiters, LimiterRuns(l) PROVE CallInv'
  BY <1>4, SendStep, SendFailsStep DEF LimiterRuns
<1> QED BY <1>2, <1>3, <1>4, ArriveStep, StopServerStep, ExitStep DEF Next

\* A status of /api/send tells what the gateway knows of the message, and no
\* call's message goes out twice, by a send that resolved or one that rejected:
\* for any calls, accounts, caps and shutdown.
THEOREM StatusTellsOutcome == Spec => []AnswerTellsOutcome
<1>1. CallInv => AnswerTellsOutcome
  <2> SUFFICES ASSUME CallInv, NEW c \in Calls
        PROVE LET q == call[c].ask
              IN /\ Cardinality(Deliveries(c)) <= (IF c \in unconfirmed THEN 0 ELSE 1)
                 /\ q.route = "send" /\ call[c].status = 200 =>
                      \E i \in Deliveries(c) : sent[i].via \in resolveOutbound(q)
                 /\ call[c].status >= 400 => Deliveries(c) = {}
                 /\ call[c].status \in 400..499 => c \notin unconfirmed
    BY DEF AnswerTellsOutcome
  <2>1. Cardinality(Deliveries(c)) <= (IF c \in unconfirmed THEN 0 ELSE 1)
    <3>1. \A i, j \in Deliveries(c) : i = j
      BY DEF Deliveries, CallInv, Delivered
    <3>2. CASE Deliveries(c) = {}
      <4>1. Cardinality({}) = 0
        BY FS_EmptySet
      <4> QED BY <3>2, <4>1
    <3>3. CASE Deliveries(c) # {}
      <4>1. PICK i \in Deliveries(c) : TRUE
        BY <3>3
      <4>2. Deliveries(c) = {i}
        BY <3>1, <4>1
      <4>3. Cardinality({i}) = 1
        BY FS_Singleton
      <4>4. c \notin unconfirmed
        BY <4>1 DEF Deliveries, CallInv, Unknown
      <4> QED BY <4>2, <4>3, <4>4
    <3> QED BY <3>2, <3>3
  <2>2. ASSUME call[c].ask.route = "send", call[c].status = 200
        PROVE  \E i \in Deliveries(c) : sent[i].via \in resolveOutbound(call[c].ask)
    <3>1. call[c].pc = "end"
      BY <2>2 DEF CallInv, CallOK, Reset
    <3>2. PICK i \in DOMAIN sent : sent[i].call = c
      BY <2>2, <3>1 DEF CallInv, Delivered
    <3>3. sent[i].via \in resolveOutbound(call[c].ask)
      BY <2>2, <3>2 DEF CallInv, Delivered
    <3> QED BY <3>2, <3>3 DEF Deliveries
  <2>3. ASSUME call[c].status >= 400 PROVE Deliveries(c) = {}
    BY <2>3 DEF Deliveries, CallInv, Delivered, Reset
  <2>4. ASSUME call[c].status \in 400..499 PROVE c \notin unconfirmed
    BY <2>4 DEF CallInv, Unknown, Reset
  <2> QED BY <2>1, <2>2, <2>3, <2>4
<1> QED BY <1>1, InitInv, CallStep, PTL DEF Spec

-----------------------------------------------------------------------------
LEMMA PaceKept ==
  ASSUME CallInv, PaceInv, UNCHANGED sent, now' \in Int, now' >= now,
         \A l \in Limiters : limiter'[l].sends = limiter[l].sends
  PROVE  PaceInv'
<1>1. \A i \in DOMAIN sent : \A s \in Sides : <<sent[i].via, s>> \in Limiters /\ sent[i].at \in Int
  BY SentMessages DEF Limiters
<1>2. now \in Int
  BY DEF CallInv, Types
<1>3. ASSUME NEW i \in DOMAIN sent
      PROVE  /\ sent[i].at <= now'
             /\ \E s \in Sides : Among(limiter'[<<sent[i].via, s>>].sends, sent[i].at)
  <2>1. sent[i].at <= now /\ \E s \in Sides : Among(limiter[<<sent[i].via, s>>].sends, sent[i].at)
    BY DEF PaceInv
  <2> QED BY <1>1, <1>2, <2>1
<1>4. Apart'
  BY <1>1 DEF PaceInv, Apart
<1>5. PacedByTwo'
  BY DEF PaceInv, PacedByTwo
<1> QED BY <1>3, <1>4, <1>5 DEF PaceInv

\* What a limiter lets out comes the least delay after what it let out before.
LEMMA PaceSend ==
  ASSUME CallInv, PaceInv, NEW l \in Limiters, Send(l)
  PROVE  PaceInv'
<1> DEFINE n == Len(sent) + 1
<1>1. /\ Len(sent) \in Nat /\ DOMAIN sent = 1..Len(sent) /\ DOMAIN sent' = 1..n
      /\ \A i \in DOMAIN sent : sent'[i] = sent[i]
      /\ sent'[n].via = l[1] /\ sent'[n].at = now /\ now' = now
      /\ limiter'[l].sends = Append(limiter[l].sends, now)
      /\ \A m \in Limiters : m # l => limiter'[m] = limiter[m]
  BY SendStep DEF Send
<1>2. /\ \A i \in DOMAIN sent : sent[i].via \in Accounts /\ sent[i].at \in Int /\ sent[i].at <= now
      /\ now \in Int /\ MinDelay \in Nat
  BY SentMessages, WebhookAssumption DEF PaceInv, CallInv, Types
<1>3. PICK a \in Accounts, side \in Sides : l = <<a, side>> /\ l[1] = a
  BY DEF Limiters
<1>4. /\ Among(limiter'[l].sends, now)
      /\ \A m \in Limiters : \A at \in Int : Among(limiter[m].sends, at) => Among(limiter'[m].sends, at)
  <2>1. limiter[l].sends \in Seq(Int)
    BY LimiterFields
  <2> DEFINE s == limiter[l].sends
  <2>2. DOMAIN s = 1..Len(s) /\ Len(s) \in Nat /\ DOMAIN Append(s, now) = 1..(Len(s) + 1)
        /\ Append(s, now)[Len(s) + 1] = now /\ \A k \in DOMAIN s : Append(s, now)[k] = s[k]
    <3> HIDE DEF s
    <3>1. s \in Seq(Int)
      BY <2>1 DEF s
    <3> QED BY <3>1, <1>2
  <2>3. Among(Append(s, now), now) /\ \A at \in Int : Among(s, at) => Among(Append(s, now), at)
    <3> HIDE DEF s
    <3>1. Len(s) + 1 \in DOMAIN Append(s, now) /\ \A k \in DOMAIN s : k \in DOMAIN Append(s, now)
      BY <2>2
    <3> QED BY <2>2, <3>1 DEF Among
  <2> QED BY <1>1, <2>3
\* The messages of the account before this one.
<1>5. ASSUME NEW i \in DOMAIN sent, sent[i].via = a, Among(limiter[l].sends, sent[i].at)
      PROVE  now >= sent[i].at + MinDelay
  BY <1>5 DEF Send, Paced, Among
<1>6. \A i \in DOMAIN sent' : i \in DOMAIN sent \/ i = n
  BY <1>1
<1>7. \A i, j \in DOMAIN sent' : i < j => i \in DOMAIN sent
  BY <1>1
<1> HIDE DEF n
<1>8. ASSUME NEW i \in DOMAIN sent'
      PROVE  /\ sent'[i].at <= now'
             /\ \E s \in Sides : Among(limiter'[<<sent'[i].via, s>>].sends, sent'[i].at)
  <2>1. CASE i = n
    <3>1. sent'[i].at = now /\ sent'[i].via = a /\ now' = now
      BY <2>1, <1>1, <1>3
    <3>2. Among(limiter'[<<a, side>>].sends, now)
      BY <1>3, <1>4
    <3> QED BY <3>1, <3>2, <1>2
  <2>2. CASE i \in DOMAIN sent
    <3>1. PICK s \in Sides : Among(limiter[<<sent[i].via, s>>].sends, sent[i].at)
      BY <2>2 DEF PaceInv
    <3>2. <<sent[i].via, s>> \in Limiters
      BY <2>2, <1>2 DEF Limiters
    <3>3. Among(limiter'[<<sent[i].via, s>>].sends, sent[i].at)
      BY <2>2, <3>1, <3>2, <1>2, <1>4
    <3> QED BY <2>2, <3>3, <1>1, <1>2
  <2> QED BY <2>1, <2>2, <1>6
<1>9. Apart'
  <2> SUFFICES ASSUME NEW i \in DOMAIN sent', NEW j \in DOMAIN sent', i < j,
                      sent'[i].via = sent'[j].via, NEW s \in Sides
        PROVE /\ sent'[i].at <= sent'[j].at
              /\ \/ Among(limiter'[<<sent'[i].via, s>>].sends, sent'[i].at)
                 \/ Among(limiter'[<<sent'[i].via, s>>].sends, sent'[j].at)
                 \/ sent'[j].at >= sent'[i].at + MinDelay
    BY DEF Apart
  <2>1. i \in DOMAIN sent /\ sent'[i] = sent[i]
    BY <1>1, <1>7
  <2>2. CASE j = n
    <3>1. sent[i].via = a /\ sent'[j].at = now /\ sent[i].at <= now
      BY <2>1, <2>2, <1>1, <1>2, <1>3
    <3>2. CASE s = side
      BY <3>1, <3>2, <2>1, <1>3, <1>4
    <3>3. CASE s # side
      <4>1. PICK t \in Sides : Among(limiter[<<a, t>>].sends, sent[i].at)
        BY <2>1, <3>1 DEF PaceInv
      <4>2. CASE t = side
        BY <4>1, <4>2, <3>1, <2>1, <1>3, <1>5
      <4>3. CASE t = s
        <5>1. <<a, s>> \in Limiters
          BY DEF Limiters
        <5> QED BY <4>1, <4>3, <5>1, <3>1, <2>1, <1>2, <1>4
      <4> QED BY <4>2, <4>3, <3>3 DEF Sides
    <3> QED BY <3>1, <3>2, <3>3, <2>1
  <2>3. CASE j \in DOMAIN sent
    <3>1. <<sent[i].via, s>> \in Limiters /\ sent'[j] = sent[j]
      BY <2>1, <2>3, <1>1, <1>2 DEF Limiters
    <3>2. /\ sent[i].at <= sent[j].at
          /\ \/ Among(limiter[<<sent[i].via, s>>].sends, sent[i].at)
             \/ Among(limiter[<<sent[i].via, s>>].sends, sent[j].at)
             \/ sent[j].at >= sent[i].at + MinDelay
      BY <2>1, <2>3, <3>1 DEF PaceInv, Apart
    <3> QED BY <2>1, <2>3, <3>1, <3>2, <1>2, <1>4
  <2> QED BY <2>2, <2>3, <1>6
<1>10. PacedByTwo'
  <2> SUFFICES ASSUME NEW i \in DOMAIN sent', NEW j \in DOMAIN sent', NEW k \in DOMAIN sent',
                      i < j, j < k, sent'[i].via = sent'[j].via, sent'[j].via = sent'[k].via
        PROVE sent'[k].at >= sent'[i].at + MinDelay
    BY DEF PacedByTwo
  <2>1. /\ i \in DOMAIN sent /\ sent'[i] = sent[i] /\ j \in DOMAIN sent /\ sent'[j] = sent[j]
    BY <1>1, <1>7
  <2>2. CASE k = n
    <3>1. sent[i].via = a /\ sent[j].via = a /\ sent'[k].at = now
      BY <2>1, <2>2, <1>1, <1>3
    <3>2. /\ sent[i].at <= sent[j].at
          /\ \/ Among(limiter[<<a, side>>].sends, sent[i].at)
             \/ Among(limiter[<<a, side>>].sends, sent[j].at)
             \/ sent[j].at >= sent[i].at + MinDelay
      BY <2>1, <3>1 DEF PaceInv, Apart
    <3>3. CASE Among(limiter[l].sends, sent[i].at)
      BY <3>1, <3>3, <2>1, <1>5
    <3>4. CASE Among(limiter[l].sends, sent[j].at)
      <4>1. now >= sent[j].at + MinDelay
        BY <3>1, <3>4, <2>1, <1>5
      <4> QED BY <4>1, <3>1, <3>2, <2>1, <1>2
    <3>5. CASE sent[j].at >= sent[i].at + MinDelay
      BY <3>5, <3>1, <2>1, <1>2
    <3> QED BY <3>2, <3>3, <3>4, <3>5, <1>3
  <2>3. CASE k \in DOMAIN sent
    BY <2>1, <2>3, <1>1 DEF PaceInv, PacedByTwo
  <2> QED BY <2>2, <2>3, <1>6
<1> QED BY <1>8, <1>9, <1>10 DEF PaceInv

LEMMA EnqueueSends ==
  ASSUME CallInv, NEW c \in Calls, NEW l, enqueue(c, l), NEW m \in Limiters
  PROVE  limiter'[m].sends = limiter[m].sends
<1>1. CASE m = l
  <2> DEFINE q == limiter[m].queue
             s == limiter[m].sends
             a == Append(q, c)
  <2>1. limiter'[m] = [limiter[m] EXCEPT !.queue = a]
    BY <1>1, LimiterFields DEF enqueue
  <2>2. limiter[m] = [queue |-> q, sends |-> s]
    BY LimiterFields
  <2>3. [[queue |-> q, sends |-> s] EXCEPT !.queue = a] = [queue |-> a, sends |-> s]
    <3> HIDE DEF q, s, a
    <3> QED OBVIOUS
  <2>4. limiter'[m].sends = s
    <3> HIDE DEF q, s, a
    <3> QED BY <2>1, <2>2, <2>3
  <2> QED BY <2>4
<1>2. CASE m # l
  BY <1>2, LimiterFields DEF enqueue
<1> QED BY <1>1, <1>2

LEMMA PaceStep == CallInv /\ PaceInv /\ [Next]_vars => PaceInv'
<1> SUFFICES ASSUME CallInv, PaceInv, [Next]_vars PROVE PaceInv'
  OBVIOUS
<1>1. now \in Int
  BY DEF CallInv, Types
<1>2. CASE UNCHANGED <<now, limiter, sent>>
  BY <1>1, <1>2, PaceKept
<1>3. ASSUME NEW c \in Calls, Handler(c) PROVE PaceInv'
  <2>1. CASE UNCHANGED <<now, limiter, sent>>
    BY <1>2, <2>1
  <2>2. ASSUME NEW l, enqueue(c, l), UNCHANGED <<now, sent>> PROVE PaceInv'
    BY <1>1, <2>2, EnqueueSends, PaceKept
  <2>3. CASE SendRequested(c)
    BY <2>2, <2>3 DEF SendRequested
  <2>4. CASE Handled(c)
    BY <2>1, <2>2, <2>4 DEF Handled
  <2> QED BY <1>3, <2>1, <2>3, <2>4
          DEF Handler, BadBody, ResolveFails, LimitReached, WebhookRefused,
              WebhookAcknowledged, Ignored, QueryAnswered
<1>4. ASSUME NEW l \in Limiters, SendFails(l) PROVE PaceInv'
  <2> DEFINE t == Tail(limiter[l].queue)
  <2>1. limiter' = [limiter EXCEPT ![l] = [limiter[l] EXCEPT !.queue = t]] /\ UNCHANGED <<now, sent>>
    BY <1>4, LimiterFields DEF SendFails
  <2>2. ASSUME NEW m \in Limiters PROVE limiter'[m].sends = limiter[m].sends
    <3> HIDE DEF t
    <3>1. CASE m = l
      <4> DEFINE q == limiter[m].queue
                 s == limiter[m].sends
      <4>1. limiter'[m] = [limiter[m] EXCEPT !.queue = t]
        BY <3>1, <2>1, LimiterFields
      <4>2. limiter[m] = [queue |-> q, sends |-> s]
        BY LimiterFields
      <4>3. [[queue |-> q, sends |-> s] EXCEPT !.queue = t] = [queue |-> t, sends |-> s]
        <5> HIDE DEF q, s
        <5> QED OBVIOUS
      <4>4. limiter'[m].sends = s
        <5> HIDE DEF q, s
        <5> QED BY <4>1, <4>2, <4>3
      <4> QED BY <4>4
    <3>2. CASE m # l
      BY <2>1, <3>2, LimiterFields
    <3> QED BY <3>1, <3>2
  <2> QED BY <1>1, <2>1, <2>2, PaceKept
<1>5. CASE Exit
  <2>1. \A l \in Limiters : limiter'[l].sends = limiter[l].sends
    BY <1>5, LimiterFields DEF Exit
  <2> QED BY <1>1, <1>5, <2>1, PaceKept DEF Exit
<1>6. CASE Tick
  BY <1>1, <1>6, PaceKept DEF Tick
<1> QED BY <1>2, <1>3, <1>4, <1>5, <1>6, PaceSend
        DEF Next, vars, LimiterRuns, Arrive, Inbound, StopGateway, StopServer

\* Of any three messages of an account the first and the third are the least
\* delay apart, whichever of the account's limiters let them out.
THEOREM TwoPerDelay == Spec => []PacedByTwo
<1>1. CallInv /\ PaceInv => PacedByTwo
  BY DEF PaceInv
<1>2. CallInv /\ PaceInv /\ [Next]_vars => (CallInv /\ PaceInv)'
  BY CallStep, PaceStep
<1> QED BY <1>1, <1>2, InitInv, PTL DEF Spec
-----------------------------------------------------------------------------
(* Answers: an outcome is still on its way to who waits for one.  What     *)
(* happens to one call leaves the others where they are (OthersWait), and  *)
(* the call that leaves a queue leaves it with an answer.                  *)

InQueue(c) == \E l \in Limiters : \E i \in DOMAIN limiter[l].queue : limiter[l].queue[i] = c

Waiting(c) ==
  call[c].pc # "new" /\ call[c].status = 0 =>
    /\ Listening
    /\ call[c].pc \in {"reading", "asking"} \/ (call[c].pc = "queued" /\ InQueue(c))

(* A call without an answer has a handler that reads its body or asks for  *)
(* its result, or its message waits in a limiter's queue, and the server   *)
(* still listens: nothing drops a call, and closing the connections leaves *)
(* none behind (webhook-server.ts:460-535, bin/exe-gateway.ts shutdown).   *)
NobodyForgotten == \A c \in Calls : Waiting(c)

LEMMA OthersWait ==
  ASSUME NobodyForgotten, NEW c \in Calls, process' = process, Waiting(c)',
         \A d \in Calls : d # c => call'[d] = call[d] /\ (InQueue(d) => InQueue(d)')
  PROVE  NobodyForgotten'
<1> SUFFICES ASSUME NEW d \in Calls, d # c PROVE Waiting(d)'
  BY DEF NobodyForgotten
<1>1. Waiting(d) /\ call'[d] = call[d] /\ (InQueue(d) => InQueue(d)')
  BY DEF NobodyForgotten
<1> HIDE DEF InQueue
<1> QED BY <1>1 DEF Waiting, Listening

\* A call moves on and no queue changes.
LEMMA MovesOn ==
  ASSUME CallInv, NobodyForgotten, NEW c \in Calls, NEW r,
         call' = [call EXCEPT ![c] = r], UNCHANGED <<process, limiter>>,
         r.status = 0 => Listening /\ r.pc \in {"reading", "asking"}
  PROVE  NobodyForgotten'
<1>1. call'[c] = r /\ \A d \in Calls : d # c => call'[d] = call[d]
  BY DEF CallInv, Types
<1>2. \A d \in Calls : InQueue(d) => InQueue(d)'
  BY DEF InQueue
<1>3. Waiting(c)'
  BY <1>1 DEF Waiting, Listening
<1> QED BY <1>1, <1>2, <1>3, OthersWait

LEMMA AnswerWaits ==
  ASSUME CallInv, NobodyForgotten, NEW c \in Calls, NEW status \in Int \ {0}, answer(c, status),
         UNCHANGED <<process, limiter>>
  PROVE  NobodyForgotten'
<1>1. PICK r : /\ r.status = IF call[c].status = 0 THEN status ELSE call[c].status
               /\ call' = [call EXCEPT ![c] = r]
  BY AnswerEnds
<1> QED BY <1>1, MovesOn

LEMMA ArriveWaits ==
  ASSUME CallInv, NobodyForgotten, NEW c \in Calls, NEW q \in Asks[c], Arrive(c, q) \/ Inbound(c, q)
  PROVE  NobodyForgotten'
<1>1. UNCHANGED <<process, limiter>>
  BY DEF Arrive, Inbound
<1>2. CASE Inbound(c, q)
  <2> DEFINE r == [pc |-> "handling", ask |-> q, status |-> 200, via |-> <<q.platform, q.account>>]
  <2>1. call' = [call EXCEPT ![c] = r] /\ r.status # 0
    BY <1>2 DEF Inbound
  <2> HIDE DEF r
  <2> QED BY <1>1, <2>1, MovesOn
<1>3. CASE Arrive(c, q)
  <2> DEFINE r(pc, status) == [pc |-> pc, ask |-> q, via |-> NoAccount, status |-> status]
  <2>1. PICK pc, status : /\ call' = [call EXCEPT ![c] = r(pc, status)]
                          /\ status = 0 => pc \in {"reading", "asking"}
    BY <1>3 DEF Arrive, verificationStatus
  <2>2. r(pc, status).pc = pc /\ r(pc, status).status = status
    OBVIOUS
  <2>3. Listening
    BY <1>3 DEF Arrive
  <2> HIDE DEF r
  <2> QED BY <1>1, <2>1, <2>2, <2>3, MovesOn
<1> QED BY <1>2, <1>3

LEMMA EnqueueWaits ==
  ASSUME CallInv, NobodyForgotten, NEW c \in Calls, NEW l, enqueue(c, l), process' = process,
         call[c].status = 0 => l \in Limiters, call[c].pc # "new"
  PROVE  NobodyForgotten'
<1>1. call' = [call EXCEPT ![c] = Enqueued(call[c], l[1])]
  BY DEF enqueue, Enqueued, CallInv, Types
<1>2. /\ call'[c].pc = "queued" /\ call'[c].status = call[c].status
      /\ \A d \in Calls : d # c => call'[d] = call[d]
  <2>1. Enqueued(call[c], l[1])
          = [pc |-> "queued", ask |-> call[c].ask, via |-> l[1], status |-> call[c].status]
    BY EnqueuedRecord DEF CallInv, Types
  <2>2. /\ Enqueued(call[c], l[1]).pc = "queued"
        /\ Enqueued(call[c], l[1]).status = call[c].status
    BY <2>1
  <2> QED BY <1>1, <2>2 DEF CallInv, Types
<1>3. \A m \in Limiters : m # l => limiter'[m] = limiter[m]
  BY DEF enqueue, CallInv, Types
<1>4. l \in Limiters =>
        /\ \A i \in DOMAIN limiter[l].queue :
             i \in DOMAIN limiter'[l].queue /\ limiter'[l].queue[i] = limiter[l].queue[i]
        /\ \E i \in DOMAIN limiter'[l].queue : limiter'[l].queue[i] = c
  <2> SUFFICES ASSUME l \in Limiters
               PROVE  /\ \A i \in DOMAIN limiter[l].queue :
                           i \in DOMAIN limiter'[l].queue
                             /\ limiter'[l].queue[i] = limiter[l].queue[i]
                      /\ \E i \in DOMAIN limiter'[l].queue : limiter'[l].queue[i] = c
    OBVIOUS
  <2> DEFINE q == limiter[l].queue
             s == limiter[l].sends
             a == Append(q, c)
  <2>1. limiter'[l] = [limiter[l] EXCEPT !.queue = a]
    BY LimiterFields DEF enqueue
  <2>2. limiter[l] = [queue |-> q, sends |-> s] /\ q \in Seq(Calls)
    BY LimiterFields
  <2>3. [[queue |-> q, sends |-> s] EXCEPT !.queue = a] = [queue |-> a, sends |-> s]
    <3> HIDE DEF q, s, a
    <3> QED OBVIOUS
  <2>4. limiter'[l].queue = a
    <3> HIDE DEF q, s, a
    <3> QED BY <2>1, <2>2, <2>3
  <2>5. /\ \A i \in DOMAIN q : i \in DOMAIN a /\ a[i] = q[i]
        /\ Len(q) + 1 \in DOMAIN a /\ a[Len(q) + 1] = c
    <3> HIDE DEF q
    <3> QED BY <2>2
  <2> HIDE DEF a
  <2> QED BY <2>4, <2>5
<1>5. \A d \in Calls : InQueue(d) => InQueue(d)'
  BY <1>3, <1>4 DEF InQueue
<1>6. Waiting(c)'
  <2> SUFFICES ASSUME call[c].status = 0 PROVE Listening' /\ InQueue(c)'
    BY <1>2 DEF Waiting
  <2>1. Listening'
    BY DEF NobodyForgotten, Waiting, Listening
  <2> QED BY <2>1, <1>4 DEF InQueue
<1> QED BY <1>2, <1>5, <1>6, OthersWait

LEMMA HandlerWaits ==
  ASSUME CallInv, NobodyForgotten, NEW c \in Calls, Handler(c)
  PROVE  NobodyForgotten'
<1>1. CallOK(call[c])
  BY DEF CallInv
<1>2. CASE BadBody(c) \/ ResolveFails(c) \/ LimitReached(c) \/ Ignored(c)
           \/ \E status \in {200, 404, 500} : QueryAnswered(c, status)
  <2>1. PICK status \in {200, 400, 404, 429, 500} : answer(c, status)
    BY <1>2 DEF BadBody, ResolveFails, LimitReached, Ignored, QueryAnswered
  <2>2. UNCHANGED <<process, limiter>>
    BY <1>2 DEF BadBody, ResolveFails, LimitReached, Ignored, QueryAnswered
  <2> QED BY <2>1, <2>2, AnswerWaits
<1>3. CASE WebhookRefused(c)
  <2>1. verifyWebhookRequest(call[c].ask) \in {200, 401, 503}
    BY DEF verifyWebhookRequest, verifySignature
  <2> QED BY <1>3, <2>1, AnswerWaits DEF WebhookRefused
<1>4. CASE WebhookAcknowledged(c)
  <2> DEFINE v == handlers(call[c].ask.platform)
             r == [pc |-> "handling", ask |-> call[c].ask, via |-> v, status |-> 200]
  <2>1. call' = [call EXCEPT ![c] = Acknowledge(call[c], v)]
    BY <1>4 DEF WebhookAcknowledged, Acknowledge, CallInv, Types
  <2>2. Acknowledge(call[c], v) = r
    BY AcknowledgeRecord DEF CallInv, Types
  <2>3. r.status # 0
    OBVIOUS
  <2>4. UNCHANGED <<process, limiter>>
    BY <1>4 DEF WebhookAcknowledged
  <2>5. call' = [call EXCEPT ![c] = r]
    <3> HIDE DEF v, r
    <3> QED BY <2>1, <2>2
  <2> HIDE DEF r
  <2> QED BY <2>3, <2>4, <2>5, MovesOn
<1>5. CASE SendRequested(c)
  <2>1. PICK a \in resolveOutbound(call[c].ask) : enqueue(c, <<a, "api">>)
    BY <1>5 DEF SendRequested
  <2>2. <<a, "api">> \in Limiters
    BY DEF resolveOutbound, Limiters, Sides
  <2> QED BY <1>5, <2>1, <2>2, EnqueueWaits DEF SendRequested
<1>6. CASE Handled(c)
  <2>1. call[c].status = 200
    BY <1>1, <1>6 DEF Handled, CallOK
  <2>2. CASE answer(c, 200) /\ UNCHANGED limiter
    BY <1>6, <2>2, AnswerWaits DEF Handled
  <2>3. CASE enqueue(c, <<call[c].via, "gateway">>)
    BY <1>6, <2>1, <2>3, EnqueueWaits DEF Handled
  <2> QED BY <1>6, <2>2, <2>3 DEF Handled
<1> QED BY <1>2, <1>3, <1>4, <1>5, <1>6 DEF Handler

LEMMA LimiterWaits ==
  ASSUME CallInv, NobodyForgotten, NEW l \in Limiters, LimiterRuns(l)
  PROVE  NobodyForgotten'
<1> DEFINE q == limiter[l].queue
<1> PICK c : c = Head(q)
  OBVIOUS
<1>1. q \in Seq(Calls) /\ q # <<>> /\ process' = process
  BY LimiterFields DEF LimiterRuns, Send, SendFails
<1>2. c = q[1] /\ c \in Calls /\ \A i \in DOMAIN q : i # 1 => i - 1 \in DOMAIN Tail(q)
                                                              /\ Tail(q)[i - 1] = q[i]
  <2> HIDE DEF q
  <2> QED BY <1>1, HeadTailProperties
<1>3. \E status \in {200, 429, 500} : answer(Head(limiter[l].queue), status)
  BY DEF LimiterRuns, Send, SendFails
<1>4. PICK r : call' = [call EXCEPT ![c] = r] /\ r.status # 0
  BY <1>1, <1>3, HeadEnds DEF Reset
<1>5. limiter'[l].queue = Tail(q) /\ \A m \in Limiters : m # l => limiter'[m] = limiter[m]
  <2>1. CASE Send(l)
    BY <2>1, LimiterFields DEF Send
  <2>2. CASE SendFails(l)
    <3> DEFINE s == limiter[l].sends
               t == Tail(q)
    <3>1. limiter' = [limiter EXCEPT ![l] = [limiter[l] EXCEPT !.queue = t]]
      BY <2>2, LimiterFields DEF SendFails
    <3>2. limiter[l] = [queue |-> q, sends |-> s] /\ DOMAIN limiter = Limiters
      BY LimiterFields
    <3> HIDE DEF q, s, t
    <3>3. [[queue |-> q, sends |-> s] EXCEPT !.queue = t].queue = t
      OBVIOUS
    <3>4. limiter'[l].queue = t /\ \A m \in Limiters : m # l => limiter'[m] = limiter[m]
      BY <3>1, <3>2, <3>3
    <3> QED BY <3>4 DEF t
  <2> QED BY <2>1, <2>2 DEF LimiterRuns
<1>6. call'[c] = r /\ \A d \in Calls : d # c => call'[d] = call[d]
  BY <1>2, <1>4 DEF CallInv, Types
<1>7. ASSUME NEW d \in Calls, d # c, InQueue(d) PROVE InQueue(d)'
  <2>1. PICK m \in Limiters : \E i \in DOMAIN limiter[m].queue : limiter[m].queue[i] = d
    BY <1>7 DEF InQueue
  <2>2. CASE m = l
    <3>1. PICK i \in DOMAIN q : q[i] = d
      BY <2>1, <2>2
    <3>2. i - 1 \in DOMAIN Tail(q) /\ Tail(q)[i - 1] = d
      <4> HIDE DEF q
      <4> QED BY <1>2, <1>7, <3>1
    <3> QED BY <1>5, <3>2 DEF InQueue
  <2>3. CASE m # l
    BY <1>5, <2>1, <2>3 DEF InQueue
  <2> QED BY <2>2, <2>3
<1>8. Waiting(c)'
  BY <1>4, <1>6 DEF Waiting
<1> QED BY <1>1, <1>2, <1>6, <1>7, <1>8, OthersWait

LEMMA WaitStep == CallInv /\ NobodyForgotten /\ [Next]_vars => NobodyForgotten'
<1> SUFFICES ASSUME CallInv, NobodyForgotten, [Next]_vars PROVE NobodyForgotten'
  OBVIOUS
<1>1. CASE UNCHANGED <<call, limiter>> /\ (Listening => Listening')
  BY <1>1 DEF NobodyForgotten, Waiting, InQueue
<1>2. CASE Tick \/ StopGateway \/ UNCHANGED vars
  BY <1>1, <1>2 DEF Tick, StopGateway, vars, Listening
<1>3. CASE StopServer
  <2>1. \A c \in Calls : call'[c].pc # "new" => call'[c].status # 0
    <3> SUFFICES ASSUME NEW c \in Calls, call[c].pc # "new", call[c].status = 0
                 PROVE  call'[c].status # 0
      BY <1>3 DEF StopServer
    <3> DEFINE x == call[c]
    <3>1. x = [pc |-> x.pc, ask |-> x.ask, via |-> x.via, status |-> x.status]
      BY DEF CallInv, Types, IsCall
    <3>2. call'[c] = [x EXCEPT !.status = Reset]
      BY <1>3 DEF StopServer
    <3> HIDE DEF x
    <3> QED BY <3>1, <3>2 DEF Reset
  <2> QED BY <2>1 DEF NobodyForgotten, Waiting
<1>4. CASE Exit
  <2>1. \A c \in Calls : call'[c].pc # "new" => call'[c].status # 0
    <3> SUFFICES ASSUME NEW c \in Calls, call'[c].pc # "new" PROVE call'[c].status # 0
      OBVIOUS
    <3> DEFINE x == call[c]
    <3>1. x = [pc |-> x.pc, ask |-> x.ask, via |-> x.via, status |-> x.status]
      BY DEF CallInv, Types, IsCall
    <3>2. call'[c] = (IF x.pc # "new" THEN [x EXCEPT !.pc = "end"] ELSE x)
      BY <1>4 DEF Exit
    <3>3. x.pc # "new" => x.status # 0
      BY <1>4 DEF Exit, NobodyForgotten, Waiting, Listening
    <3> HIDE DEF x
    <3>4. [x EXCEPT !.pc = "end"].status = x.status
      BY <3>1
    <3> QED BY <3>2, <3>3, <3>4
  <2> QED BY <2>1 DEF NobodyForgotten, Waiting
<1> QED BY <1>2, <1>3, <1>4, ArriveWaits, HandlerWaits, LimiterWaits DEF Next

\* For any accounts, calls and limits, a call without an answer has a handler at
\* work or a place in a queue, and a server that still listens.
THEOREM EveryCallHeld == Spec => []NobodyForgotten
<1>1. Init => NobodyForgotten
  BY DEF Init, NobodyForgotten, Waiting
<1>2. CallInv /\ NobodyForgotten /\ [Next]_vars => (CallInv /\ NobodyForgotten)'
  BY CallStep, WaitStep
<1> QED BY <1>1, <1>2, InitInv, PTL DEF Spec
=============================================================================
