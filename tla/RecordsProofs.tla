---------------------------- MODULE RecordsProofs ----------------------------
(***************************************************************************)
(* What watches the gateway and what it writes down about messages, for    *)
(* any messages, ids, groups, contacts and limits.  The parts share        *)
(* nothing; each has an inductive invariant of its own, which says what a  *)
(* step under way still knows of what it has read: SessionInv for the      *)
(* sessions, ConversationInv for the conversations, PersonInv for the CRM, *)
(* TotalInv for the daily totals, RelayInv for the relay's clients and     *)
(* AlertInv for the window behind the alerts.                              *)
(***************************************************************************)
EXTENDS Alerts, SessionStore, WsRelay, Analytics, ConversationStore, CustomerStore,
        CrmBridge, FiniteSetTheorems, FunctionTheorems, SequenceTheorems, TLAPS

-----------------------------------------------------------------------------
(* Sessions.  What is kept of a session anywhere is faithful to the log of *)
(* the messages that were added under its id: in order, and within the     *)
(* limits.  Ids are not used twice, so the log of an id is one session's.  *)

Entry == {"user", "assistant"} \X Msgs
Histories == Seq(Entry)
SessionRecord == [id : Ids, key : Keys, messages : Histories, messageCount : Nat,
                  lastMessageAt : Nat, status : {"active", "closed"}]

\* Everything that is kept of sessions.
Snapshots == InMemory \cup writes \cup db \cup UNION {found[k] : k \in Keys}

WithinLimits(n) == n < maxMessages \/ n <= Kept

Faithful(s, chat) ==
  /\ s \in SessionRecord
  /\ InOrder(s.messages, chat)
  /\ Len(s.messages) <= s.messageCount
  /\ WithinLimits(Len(s.messages))

StoreTypes ==
  /\ now \in Nat
  /\ DOMAIN sessions = Keys /\ DOMAIN found = Keys
  /\ usedIds \subseteq Ids
  /\ handler \in [Msgs -> {"new", "asking", "done", "lost"}]
  /\ sessionOf \in [Msgs -> SUBSET usedIds]
  /\ added \in [Ids -> Histories]
  /\ \A id \in Ids \ usedIds : added[id] = <<>>

Recorded == \A s \in Snapshots : s.id \in usedIds /\ Faithful(s, added[s.id])

Asked(chat, m) == \E i \in DOMAIN chat : chat[i] = <<"user", m>>

QuestionsLogged ==
  \A m \in Msgs : handler[m] = "asking" => \A id \in sessionOf[m] : Asked(added[id], m)

Answers(chat) ==
  \A i \in DOMAIN chat : chat[i][1] = "assistant" =>
    \E j \in 1..(i - 1) : chat[j] = <<"user", chat[i][2]>>

SessionInv ==
  /\ StoreTypes /\ Recorded /\ QuestionsLogged
  /\ \A id \in Ids : Answers(added[id])

-----------------------------------------------------------------------------
(* Histories.                                                              *)

LEMMA Appended ==
  ASSUME NEW s \in Histories, NEW e \in Entry
  PROVE  /\ Append(s, e) \in Histories
         /\ DOMAIN s = 1..Len(s) /\ Len(s) \in Nat
         /\ DOMAIN Append(s, e) = 1..(Len(s) + 1) /\ Len(Append(s, e)) = Len(s) + 1
         /\ \A i \in 1..Len(s) : Append(s, e)[i] = s[i]
         /\ Append(s, e)[Len(s) + 1] = e
<1> DEFINE E == Entry
<1>1. s \in Seq(E) /\ e \in E
  BY DEF Histories
<1> HIDE DEF E
<1>2. /\ Append(s, e) \in Seq(E)
      /\ DOMAIN s = 1..Len(s) /\ Len(s) \in Nat
      /\ DOMAIN Append(s, e) = 1..(Len(s) + 1) /\ Len(Append(s, e)) = Len(s) + 1
      /\ \A i \in 1..Len(s) : Append(s, e)[i] = s[i]
      /\ Append(s, e)[Len(s) + 1] = e
  BY <1>1
<1> QED
  BY <1>2 DEF Histories, E

\* An old snapshot stays in order while the log goes on.
LEMMA LogGoesOn ==
  ASSUME NEW s \in Histories, NEW chat \in Histories, NEW e \in Entry, InOrder(s, chat)
  PROVE  InOrder(s, Append(chat, e))
<1>1. /\ DOMAIN chat = 1..Len(chat) /\ Len(chat) \in Nat
      /\ DOMAIN Append(chat, e) = 1..(Len(chat) + 1)
      /\ \A i \in 1..Len(chat) : Append(chat, e)[i] = chat[i]
  BY Appended
<1>2. \A i \in DOMAIN chat : i \in DOMAIN Append(chat, e) /\ Append(chat, e)[i] = chat[i]
  BY <1>1
<1> QED
  BY <1>2 DEF InOrder

LEMMA BothGoOn ==
  ASSUME NEW s \in Histories, NEW chat \in Histories, NEW e \in Entry, InOrder(s, chat)
  PROVE  InOrder(Append(s, e), Append(chat, e))
<1> DEFINE longer == Append(s, e)
           log2 == Append(chat, e)
           n == Len(chat) + 1
<1>1. /\ DOMAIN chat = 1..Len(chat) /\ Len(chat) \in Nat /\ DOMAIN log2 = 1..n
      /\ \A i \in 1..Len(chat) : log2[i] = chat[i]
      /\ log2[n] = e
  BY Appended
<1>2. /\ DOMAIN s = 1..Len(s) /\ Len(s) \in Nat /\ DOMAIN longer = 1..(Len(s) + 1)
      /\ \A i \in 1..Len(s) : longer[i] = s[i]
      /\ longer[Len(s) + 1] = e
  BY Appended
<1> HIDE DEF longer, log2
<1>3. \A i \in DOMAIN chat : i \in DOMAIN log2 /\ i < n /\ log2[i] = chat[i]
  BY <1>1
<1>4. n \in DOMAIN log2
  BY <1>1
<1> HIDE DEF n
<1>5. \A i \in DOMAIN longer : (i \in DOMAIN s /\ longer[i] = s[i]) \/ i = Len(s) + 1
  BY <1>2
<1>6. \A i \in DOMAIN longer : \E j \in DOMAIN log2 : log2[j] = longer[i]
  BY <1>1, <1>2, <1>3, <1>4, <1>5 DEF InOrder
<1>7. ASSUME NEW i \in DOMAIN longer, NEW j \in DOMAIN longer, i < j
      PROVE  \E p, q \in DOMAIN log2 : p < q /\ log2[p] = longer[i] /\ log2[q] = longer[j]
  <2>1. i \in DOMAIN s /\ longer[i] = s[i]
    BY <1>2, <1>7
  <2>2. CASE j = Len(s) + 1
    <3>1. PICK p \in DOMAIN chat : chat[p] = s[i]
      BY <2>1 DEF InOrder
    <3> QED
      BY <1>1, <1>2, <1>3, <1>4, <2>1, <2>2, <3>1
  <2>3. CASE j # Len(s) + 1
    <3>1. j \in DOMAIN s /\ longer[j] = s[j]
      BY <1>5, <2>3
    <3>2. PICK p \in DOMAIN chat, q \in DOMAIN chat : p < q /\ chat[p] = s[i] /\ chat[q] = s[j]
      BY <1>7, <2>1, <3>1 DEF InOrder
    <3> QED
      BY <1>3, <2>1, <3>1, <3>2
  <2> QED
    BY <2>2, <2>3
<1> QED
  BY <1>6, <1>7 DEF InOrder, longer, log2

\* What markForSummary keeps is a stretch of the history.
LEMMA StretchInOrder ==
  ASSUME NEW s \in Histories, NEW chat, NEW k \in 1..Len(s), InOrder(s, chat)
  PROVE  /\ SubSeq(s, k, Len(s)) \in Histories
         /\ Len(SubSeq(s, k, Len(s))) = Len(s) - k + 1
         /\ InOrder(SubSeq(s, k, Len(s)), chat)
<1> DEFINE E == Entry
           n == Len(s)
           part == SubSeq(s, k, n)
<1>1. s \in Seq(E)
  BY DEF Histories
<1> HIDE DEF E
<1>2. n \in Nat /\ DOMAIN s = 1..n /\ k \in Nat
  BY <1>1
<1>3. /\ part \in Seq(E)
      /\ Len(part) = n - k + 1
      /\ \A i \in 1..(n - k + 1) : part[i] = s[k + i - 1]
  BY <1>1, <1>2, SubSeqProperties
<1>4. DOMAIN part = 1..(n - k + 1)
  BY <1>3
<1> HIDE DEF part
<1>5. \A i \in DOMAIN part : i \in Int /\ k + i - 1 \in DOMAIN s /\ part[i] = s[k + i - 1]
  BY <1>2, <1>3, <1>4
<1>6. \A i, j \in DOMAIN part : i < j => k + i - 1 < k + j - 1
  BY <1>2, <1>5
<1>7. InOrder(part, chat)
  BY <1>5, <1>6 DEF InOrder
<1> QED
  BY <1>3, <1>7 DEF Histories, E, part

LEMMA AnswersGoOn ==
  ASSUME NEW chat \in Histories, NEW m \in Msgs, NEW who \in {"user", "assistant"},
         Answers(chat), who = "user" \/ Asked(chat, m)
  PROVE  Answers(Append(chat, <<who, m>>))
<1> DEFINE e == <<who, m>>
           n == Len(chat) + 1
<1>1. e \in Entry /\ e[1] = who /\ e[2] = m
  BY DEF Entry
<1>2. /\ DOMAIN chat = 1..Len(chat) /\ Len(chat) \in Nat /\ DOMAIN Append(chat, e) = 1..n
      /\ \A i \in 1..Len(chat) : Append(chat, e)[i] = chat[i]
      /\ Append(chat, e)[n] = e
  BY <1>1, Appended
<1> HIDE DEF e
<1> SUFFICES ASSUME NEW i \in 1..n, Append(chat, e)[i][1] = "assistant"
             PROVE  \E j \in 1..(i - 1) : Append(chat, e)[j] = <<"user", Append(chat, e)[i][2]>>
  BY <1>2 DEF Answers, e
<1>3. CASE i = n
  <2>1. PICK j \in DOMAIN chat : chat[j] = <<"user", m>>
    BY <1>1, <1>2, <1>3 DEF Asked
  <2> QED
    BY <1>1, <1>2, <1>3, <2>1
<1>4. CASE i # n
  <2>1. i \in 1..Len(chat) /\ i \in Int
    BY <1>2, <1>4
  <2>2. PICK j \in 1..(i - 1) : chat[j] = <<"user", chat[i][2]>>
    BY <1>2, <2>1 DEF Answers
  <2>3. j \in 1..Len(chat)
    BY <1>2, <2>1
  <2> QED
    BY <1>2, <2>1, <2>2, <2>3
<1> QED
  BY <1>3, <1>4

-----------------------------------------------------------------------------
(* What the operations make of a session.                                  *)

\* withMessage before the history is trimmed.
Longer(s, e) ==
  [s EXCEPT !.messages = Append(@, e), !.messageCount = @ + 1, !.lastMessageAt = now]

LEMMA LongerIs ==
  ASSUME NEW s \in SessionRecord, NEW e \in Entry, now \in Nat
  PROVE  /\ Longer(s, e) \in SessionRecord
         /\ Longer(s, e).id = s.id
         /\ Longer(s, e).messages = Append(s.messages, e)
         /\ Longer(s, e).messageCount = s.messageCount + 1
<1>1. s.messages \in Histories /\ Append(s.messages, e) \in Histories /\ s.messageCount + 1 \in Nat
  BY Appended DEF SessionRecord
<1> DEFINE longer == Append(s.messages, e)
           H == Histories
<1>2. longer \in H /\ s \in [id : Ids, key : Keys, messages : H, messageCount : Nat,
                  lastMessageAt : Nat, status : {"active", "closed"}]
  BY <1>1 DEF SessionRecord
<1>3. Longer(s, e) = [s EXCEPT !.messages = longer, !.messageCount = s.messageCount + 1,
                               !.lastMessageAt = now]
  BY DEF Longer
<1> HIDE DEF longer, H
<1>4. /\ [s EXCEPT !.messages = longer, !.messageCount = s.messageCount + 1,
                   !.lastMessageAt = now]
           \in [id : Ids, key : Keys, messages : H, messageCount : Nat,
                lastMessageAt : Nat, status : {"active", "closed"}]
      /\ [s EXCEPT !.messages = longer, !.messageCount = s.messageCount + 1,
                   !.lastMessageAt = now].id = s.id
      /\ [s EXCEPT !.messages = longer, !.messageCount = s.messageCount + 1,
                   !.lastMessageAt = now].messages = longer
      /\ [s EXCEPT !.messages = longer, !.messageCount = s.messageCount + 1,
                   !.lastMessageAt = now].messageCount = s.messageCount + 1
  BY <1>1, <1>2
<1> QED
  BY <1>3, <1>4 DEF SessionRecord, longer, H

KeptOf(messages) ==
  LET n == Len(messages)
  IN  IF n > Kept THEN SubSeq(messages, n - Kept + 1, n) ELSE messages

LEMMA MarkedIs ==
  ASSUME NEW s \in SessionRecord
  PROVE  /\ KeptOf(s.messages) \in Histories => markForSummary(s) \in SessionRecord
         /\ markForSummary(s).id = s.id
         /\ markForSummary(s).messages = KeptOf(s.messages)
         /\ markForSummary(s).messageCount = s.messageCount
<1> DEFINE kept == KeptOf(s.messages)
           H == Histories
<1>1. markForSummary(s) = [s EXCEPT !.messages = kept, !.status = "active"]
  BY DEF markForSummary, KeptOf
<1>2. s \in [id : Ids, key : Keys, messages : H, messageCount : Nat,
             lastMessageAt : Nat, status : {"active", "closed"}]
  BY DEF SessionRecord
<1> HIDE DEF kept, H
<1>3. /\ kept \in H => [s EXCEPT !.messages = kept, !.status = "active"]
           \in [id : Ids, key : Keys, messages : H, messageCount : Nat,
                lastMessageAt : Nat, status : {"active", "closed"}]
      /\ [s EXCEPT !.messages = kept, !.status = "active"].id = s.id
      /\ [s EXCEPT !.messages = kept, !.status = "active"].messages = kept
      /\ [s EXCEPT !.messages = kept, !.status = "active"].messageCount = s.messageCount
  BY <1>2
<1>4. /\ kept \in H => markForSummary(s) \in SessionRecord
      /\ markForSummary(s).id = s.id
      /\ markForSummary(s).messages = kept
      /\ markForSummary(s).messageCount = s.messageCount
  BY <1>1, <1>3 DEF SessionRecord, H
<1> QED
  BY <1>4 DEF kept, H

\* What is kept of a history is no shorter than the limits ask, and in order.
LEMMA KeptInOrder ==
  ASSUME NEW s \in Histories, NEW chat, InOrder(s, chat), Len(s) > 0
  PROVE  /\ KeptOf(s) \in Histories
         /\ Len(KeptOf(s)) <= Kept /\ Len(KeptOf(s)) <= Len(s)
         /\ InOrder(KeptOf(s), chat)
<1> DEFINE n == Len(s)
<1>1. n \in Nat /\ Kept \in Nat /\ Kept > 0
  BY SessionAssumption DEF Histories
<1>2. CASE n > Kept
  <2>1. n - Kept + 1 \in 1..n
    BY <1>1, <1>2
  <2>2. /\ SubSeq(s, n - Kept + 1, n) \in Histories
        /\ Len(SubSeq(s, n - Kept + 1, n)) = n - (n - Kept + 1) + 1
        /\ InOrder(SubSeq(s, n - Kept + 1, n), chat)
    BY <2>1, StretchInOrder
  <2>3. KeptOf(s) = SubSeq(s, n - Kept + 1, n)
    BY <1>2 DEF KeptOf
  <2>4. n - (n - Kept + 1) + 1 = Kept /\ Kept <= n
    BY <1>1, <1>2
  <2> QED
    BY <1>1, <2>2, <2>3, <2>4
<1>3. CASE ~(n > Kept)
  <2>1. KeptOf(s) = s
    BY <1>3 DEF KeptOf
  <2> QED
    BY <1>1, <1>3, <2>1
<1> QED
  BY <1>2, <1>3

\* A message is added to a session as to the log of its id.
LEMMA MessageKept ==
  ASSUME NEW s, NEW e \in Entry, NEW chat \in Histories, Faithful(s, chat), now \in Nat
  PROVE  Faithful(withMessage(s, e), Append(chat, e)) /\ withMessage(s, e).id = s.id
<1> DEFINE longer == Longer(s, e)
           marked == markForSummary(longer)
           log2 == Append(chat, e)
           n == Len(longer.messages)
<1>1. /\ s \in SessionRecord /\ s.messages \in Histories /\ s.messageCount \in Nat
      /\ InOrder(s.messages, chat) /\ Len(s.messages) <= s.messageCount
  BY DEF Faithful, SessionRecord
<1>2. /\ longer \in SessionRecord /\ longer.id = s.id
      /\ longer.messages = Append(s.messages, e)
      /\ longer.messageCount = s.messageCount + 1
  BY <1>1, LongerIs
<1>3. InOrder(longer.messages, log2)
  BY <1>1, <1>2, BothGoOn
<1>4. n \in Nat /\ n > 0 /\ n <= longer.messageCount /\ longer.messages \in Histories
  BY <1>1, <1>2, Appended
<1>5. withMessage(s, e) = IF longer.messageCount >= maxMessages THEN marked ELSE longer
  BY DEF withMessage, Longer
<1>6. /\ marked \in SessionRecord /\ marked.id = s.id
      /\ InOrder(marked.messages, log2)
      /\ marked.messageCount = longer.messageCount
      /\ Len(marked.messages) <= Kept /\ Len(marked.messages) <= n
      /\ marked.messages \in Histories
  BY <1>2, <1>3, <1>4, KeptInOrder, MarkedIs
<1>7. maxMessages \in Nat /\ longer.messageCount \in Nat /\ Len(marked.messages) \in Nat
  BY <1>1, <1>2, <1>6, SessionAssumption DEF Histories
<1> HIDE DEF longer, log2, marked
<1>8. CASE longer.messageCount >= maxMessages
  <2>1. Len(marked.messages) <= marked.messageCount
    BY <1>4, <1>6, <1>7
  <2>2. Faithful(marked, log2)
    BY <1>6, <2>1 DEF Faithful, WithinLimits
  <2> QED
    BY <1>5, <1>6, <1>8, <2>2 DEF log2
<1>9. CASE ~(longer.messageCount >= maxMessages)
  <2>1. n < maxMessages
    BY <1>4, <1>7, <1>9
  <2>2. Faithful(longer, log2)
    BY <1>2, <1>3, <1>4, <2>1 DEF Faithful, WithinLimits
  <2> QED
    BY <1>2, <1>5, <1>9, <2>2 DEF log2
<1> QED
  BY <1>8, <1>9

LEMMA FirstMessage ==
  ASSUME NEW id \in Ids, NEW k \in Keys, NEW e \in Entry, now \in Nat
  PROVE  /\ Faithful(withMessage(newSession(id, k), e), Append(<<>>, e))
         /\ withMessage(newSession(id, k), e).id = id
<1> DEFINE s == newSession(id, k)
           none == <<>>
<1>1. none \in Histories /\ Len(none) = 0 /\ DOMAIN none = {}
  BY DEF Histories
<1>2. s.messages = none /\ s.id = id /\ s.messageCount = 0
  BY DEF newSession
<1>3. s \in SessionRecord
  BY <1>1 DEF newSession, SessionRecord
<1> HIDE DEF s, none
<1>4. Faithful(s, none)
  BY <1>1, <1>2, <1>3, SessionAssumption DEF Faithful, InOrder, WithinLimits
<1> QED
  BY <1>1, <1>2, <1>4, MessageKept DEF s, none

Closed(s) == [s EXCEPT !.status = "closed"]

LEMMA ClosedIs ==
  ASSUME NEW s, NEW chat, Faithful(s, chat)
  PROVE  Faithful(Closed(s), chat) /\ Closed(s).id = s.id
<1>1. s \in SessionRecord
  BY DEF Faithful
<1>2. /\ Closed(s) \in SessionRecord /\ Closed(s).id = s.id /\ Closed(s).messages = s.messages
      /\ Closed(s).messageCount = s.messageCount
  BY <1>1 DEF SessionRecord, Closed
<1> QED
  BY <1>2 DEF Faithful

-----------------------------------------------------------------------------
(* The two kinds of steps: one that adds a message to a log, and one that  *)
(* adds none; both keep snapshots as they were or closed.                  *)

LEMMA Spoken ==
  ASSUME SessionInv, NEW id \in Ids, NEW m \in Msgs, NEW who \in {"user", "assistant"},
         added' = [added EXCEPT ![id] = Append(@, <<who, m>>)],
         usedIds' = usedIds \cup {id}, now' = now,
         who = "user" \/ Asked(added[id], m),
         DOMAIN sessions' = Keys, DOMAIN found' = Keys,
         handler' \in [Msgs -> {"new", "asking", "done", "lost"}],
         sessionOf' \in [Msgs -> SUBSET usedIds'],
         \A x \in Msgs : handler'[x] = "asking" =>
           \/ handler[x] = "asking" /\ sessionOf'[x] = sessionOf[x]
           \/ x = m /\ who = "user" /\ sessionOf'[x] = {id},
         \A s \in Snapshots' : \/ s \in Snapshots
                               \/ \E t \in Snapshots : s = Closed(t)
                               \/ s.id = id /\ Faithful(s, Append(added[id], <<who, m>>))
  PROVE  SessionInv'
<1> DEFINE e == <<who, m>>
           log2 == Append(added[id], e)
<1>1. StoreTypes /\ Recorded /\ QuestionsLogged /\ \A x \in Ids : Answers(added[x])
  BY DEF SessionInv
<1>2. e \in Entry
  BY DEF Entry
<1>3. added[id] \in Histories /\ log2 \in Histories
  BY <1>1, <1>2, Appended DEF StoreTypes
<1>4. added'[id] = log2 /\ \A x \in Ids \ {id} : added'[x] = added[x]
  BY <1>1 DEF StoreTypes
<1>5. added' \in [Ids -> Histories]
  BY <1>1, <1>3 DEF StoreTypes
<1>6. StoreTypes'
  BY <1>1, <1>4, <1>5 DEF StoreTypes
<1>7. ASSUME NEW s, NEW x \in Ids, Faithful(s, added[x])
      PROVE  Faithful(s, added'[x])
  <2>1. s.messages \in Histories
    BY <1>7 DEF Faithful, SessionRecord
  <2>2. CASE x = id
    BY <1>2, <1>3, <1>4, <1>7, <2>1, <2>2, LogGoesOn DEF Faithful
  <2> QED
    BY <1>4, <1>7, <2>2
<1>8. Recorded'
  <2> SUFFICES ASSUME NEW s \in Snapshots'
               PROVE  s.id \in usedIds' /\ Faithful(s, added'[s.id])
    BY DEF Recorded
  <2>1. \A t \in Snapshots : t.id \in usedIds /\ t.id \in Ids /\ Faithful(t, added[t.id])
    BY <1>1 DEF Recorded, StoreTypes
  <2>2. CASE s \in Snapshots
    BY <1>7, <2>1, <2>2
  <2>3. ASSUME NEW t \in Snapshots, s = Closed(t)
        PROVE  s.id \in usedIds' /\ Faithful(s, added'[s.id])
    <3>1. Faithful(s, added[t.id]) /\ s.id = t.id
      BY <2>1, <2>3, ClosedIs
    <3> QED
      BY <1>7, <2>1, <3>1
  <2>4. CASE s.id = id /\ Faithful(s, log2)
    BY <1>4, <2>4
  <2> QED
    BY <2>2, <2>3, <2>4
<1>9. ASSUME NEW x \in Ids, NEW y \in Msgs, Asked(added[x], y)
      PROVE  Asked(added'[x], y)
  <2>1. CASE x = id
    <3>1. /\ DOMAIN added[id] = 1..Len(added[id]) /\ Len(added[id]) \in Nat
          /\ DOMAIN log2 = 1..(Len(added[id]) + 1)
          /\ \A i \in 1..Len(added[id]) : log2[i] = added[id][i]
      BY <1>2, <1>3, Appended
    <3>2. \A i \in DOMAIN added[id] : i \in DOMAIN log2 /\ log2[i] = added[id][i]
      BY <3>1
    <3> QED
      BY <1>4, <1>9, <2>1, <3>2 DEF Asked
  <2> QED
    BY <1>4, <1>9, <2>1
<1>10. who = "user" => Asked(added'[id], m)
  <2>1. /\ Len(added[id]) \in Nat /\ DOMAIN log2 = 1..(Len(added[id]) + 1)
        /\ log2[Len(added[id]) + 1] = e
    BY <1>2, <1>3, Appended
  <2>2. Len(added[id]) + 1 \in DOMAIN added'[id] /\ added'[id][Len(added[id]) + 1] = <<who, m>>
    BY <1>4, <2>1
  <2> QED
    BY <2>2 DEF Asked
<1>11. QuestionsLogged'
  <2> SUFFICES ASSUME NEW x \in Msgs, handler'[x] = "asking", NEW y \in sessionOf'[x]
               PROVE  Asked(added'[y], x)
    BY DEF QuestionsLogged
  <2>1. CASE handler[x] = "asking" /\ sessionOf'[x] = sessionOf[x]
    <3>1. y \in Ids /\ Asked(added[y], x)
      BY <1>1, <2>1 DEF StoreTypes, QuestionsLogged
    <3> QED
      BY <1>9, <3>1
  <2>2. CASE x = m /\ who = "user" /\ sessionOf'[x] = {id}
    BY <1>10, <2>2
  <2> QED
    BY <2>1, <2>2
<1>12. \A x \in Ids : Answers(added'[x])
  <2>1. Answers(log2)
    BY <1>1, <1>3, AnswersGoOn
  <2> QED
    BY <1>1, <1>4, <2>1
<1> QED
  BY <1>6, <1>8, <1>11, <1>12 DEF SessionInv

LEMMA Quiet ==
  ASSUME SessionInv, now' \in Nat, UNCHANGED <<usedIds, sessionOf, added>>,
         DOMAIN sessions' = Keys, DOMAIN found' = Keys,
         handler' \in [Msgs -> {"new", "asking", "done", "lost"}],
         \A x \in Msgs : handler'[x] = "asking" => handler[x] = "asking",
         \A s \in Snapshots' : s \in Snapshots \/ \E t \in Snapshots : s = Closed(t)
  PROVE  SessionInv'
<1>1. StoreTypes /\ Recorded /\ QuestionsLogged /\ \A x \in Ids : Answers(added[x])
  BY DEF SessionInv
<1>2. StoreTypes'
  BY <1>1 DEF StoreTypes
<1>3. Recorded'
  <2> SUFFICES ASSUME NEW s \in Snapshots'
               PROVE  s.id \in usedIds /\ Faithful(s, added[s.id])
    BY DEF Recorded
  <2>1. \A t \in Snapshots : t.id \in usedIds /\ Faithful(t, added[t.id])
    BY <1>1 DEF Recorded
  <2>2. ASSUME NEW t \in Snapshots, s = Closed(t)
        PROVE  s.id \in usedIds /\ Faithful(s, added[s.id])
    BY <2>1, <2>2, ClosedIs
  <2> QED
    BY <2>1, <2>2
<1>4. QuestionsLogged'
  BY <1>1 DEF QuestionsLogged
<1> QED
  BY <1>1, <1>2, <1>3, <1>4 DEF SessionInv

-----------------------------------------------------------------------------
(* The operations.                                                         *)

LEMMA SnapshotsAre ==
  ASSUME SessionInv
  PROVE  /\ \A k \in Keys : sessions[k] \subseteq Snapshots /\ found[k] \subseteq Snapshots
         /\ writes \subseteq Snapshots /\ db \subseteq Snapshots
         /\ \A s \in Snapshots : /\ s.id \in usedIds /\ s.id \in Ids /\ s.key \in Keys
                                 /\ Faithful(s, added[s.id]) /\ added[s.id] \in Histories
BY DEF SessionInv, StoreTypes, Recorded, Snapshots, InMemory, Faithful, SessionRecord

\* One key's session is replaced, and what is written with it.
LEMMA Replaced ==
  ASSUME SessionInv, NEW k \in Keys, NEW S, sessions' = [sessions EXCEPT ![k] = S]
  PROVE  /\ DOMAIN sessions' = Keys /\ sessions'[k] = S
         /\ \A x \in Keys : sessions'[x] \subseteq Snapshots \cup S
BY SnapshotsAre DEF SessionInv, StoreTypes

LEMMA ExpiredAreClosed ==
  ASSUME NEW k \in Keys, NEW s \in expired(k)
  PROVE  \E t \in sessions[k] : s = Closed(t)
BY DEF expired, Closed

LEMMA SessionResumed ==
  ASSUME SessionInv, NEW m \in Msgs, ResumeSession(m)
  PROVE  SessionInv'
<1> DEFINE k == KeyOf[m]
           e == <<"user", m>>
<1>1. k \in Keys
  BY SessionAssumption
<1>2. PICK s \in sessions[k] :
        /\ sessions' = [sessions EXCEPT ![k] = {withMessage(s, e)}]
        /\ sessionOf' = [sessionOf EXCEPT ![m] = {s.id}]
        /\ added' = [added EXCEPT ![s.id] = Append(@, e)]
  BY DEF ResumeSession
<1>3. /\ writes' = writes \cup sessions'[k]
      /\ handler' = [handler EXCEPT ![m] = "asking"]
      /\ UNCHANGED <<now, found, db, usedIds>>
  BY DEF ResumeSession
<1>4. s \in Snapshots /\ s.id \in usedIds /\ s.id \in Ids /\ Faithful(s, added[s.id])
        /\ added[s.id] \in Histories
  BY <1>1, <1>2, SnapshotsAre
<1> DEFINE new == withMessage(s, e)
<1>5. new.id = s.id /\ Faithful(new, Append(added[s.id], e))
  BY <1>4, MessageKept DEF Entry, SessionInv, StoreTypes
<1>6. /\ DOMAIN sessions' = Keys /\ sessions'[k] = {new}
      /\ \A x \in Keys : sessions'[x] \subseteq Snapshots \cup {new}
  BY <1>1, <1>2, Replaced
<1> HIDE DEF new
<1>7. \A x \in Snapshots' : x \in Snapshots \/ x = new
  BY <1>3, <1>6, SnapshotsAre DEF Snapshots, InMemory
<1>8. /\ handler' \in [Msgs -> {"new", "asking", "done", "lost"}]
      /\ sessionOf' \in [Msgs -> SUBSET usedIds]
      /\ \A x \in Msgs \ {m} : handler'[x] = handler[x] /\ sessionOf'[x] = sessionOf[x]
      /\ sessionOf'[m] = {s.id}
  BY <1>2, <1>3, <1>4 DEF SessionInv, StoreTypes
<1>9. usedIds' = usedIds \cup {s.id} /\ DOMAIN found' = Keys
  BY <1>3, <1>4 DEF SessionInv, StoreTypes
<1>10. \A x \in Msgs : handler'[x] = "asking" =>
         \/ handler[x] = "asking" /\ sessionOf'[x] = sessionOf[x]
         \/ x = m /\ "user" = "user" /\ sessionOf'[x] = {s.id}
  BY <1>8
<1>11. \A x \in Snapshots' : \/ x \in Snapshots
                             \/ \E t \in Snapshots : x = Closed(t)
                             \/ x.id = s.id /\ Faithful(x, Append(added[s.id], <<"user", m>>))
  BY <1>5, <1>7
<1> QED
  BY <1>2, <1>3, <1>4, <1>6, <1>8, <1>9, <1>10, <1>11, Spoken

LEMMA SessionCreated ==
  ASSUME SessionInv, NEW m \in Msgs, CreateSession(m)
  PROVE  SessionInv'
<1> DEFINE k == KeyOf[m]
           e == <<"user", m>>
<1>1. k \in Keys
  BY SessionAssumption
<1>2. PICK id \in Ids \ usedIds :
        /\ sessions' = [sessions EXCEPT ![k] = {withMessage(newSession(id, k), e)}]
        /\ sessionOf' = [sessionOf EXCEPT ![m] = {id}]
        /\ added' = [added EXCEPT ![id] = <<e>>]
        /\ usedIds' = usedIds \cup {id}
  BY DEF CreateSession
<1>3. /\ writes' = writes \cup expired(k) \cup sessions'[k]
      /\ handler' = [handler EXCEPT ![m] = "asking"]
      /\ UNCHANGED <<now, found, db>>
  BY DEF CreateSession
<1>4. added[id] = <<>> /\ Append(added[id], e) = <<e>>
  <2>1. added[id] = <<>>
    BY <1>2 DEF SessionInv, StoreTypes
  <2> HIDE DEF e
  <2>2. Append(<<>>, e) = <<e>>
    OBVIOUS
  <2> QED
    BY <2>1, <2>2
<1> DEFINE new == withMessage(newSession(id, k), e)
<1>5. new.id = id /\ Faithful(new, Append(added[id], e))
  BY <1>1, <1>4, FirstMessage DEF Entry, SessionInv, StoreTypes
<1>6. /\ DOMAIN sessions' = Keys /\ sessions'[k] = {new}
      /\ \A x \in Keys : sessions'[x] \subseteq Snapshots \cup {new}
  <2>1. sessions' = [sessions EXCEPT ![k] = {new}]
    BY <1>2
  <2> HIDE DEF new
  <2> QED
    BY <1>1, <2>1, Replaced
<1> HIDE DEF new
<1>7. \A x \in Snapshots' : x \in Snapshots \/ x \in expired(k) \/ x = new
  BY <1>3, <1>6, SnapshotsAre DEF Snapshots, InMemory
<1>8. \A x \in expired(k) : \E t \in Snapshots : x = Closed(t)
  BY <1>1, ExpiredAreClosed, SnapshotsAre
<1>9. /\ handler' \in [Msgs -> {"new", "asking", "done", "lost"}]
      /\ sessionOf' \in [Msgs -> SUBSET usedIds']
      /\ \A x \in Msgs \ {m} : handler'[x] = handler[x] /\ sessionOf'[x] = sessionOf[x]
      /\ sessionOf'[m] = {id}
  BY <1>2, <1>3 DEF SessionInv, StoreTypes
<1>10. \A x \in Msgs : handler'[x] = "asking" =>
         \/ handler[x] = "asking" /\ sessionOf'[x] = sessionOf[x]
         \/ x = m /\ "user" = "user" /\ sessionOf'[x] = {id}
  BY <1>9
<1>11. \A x \in Snapshots' : \/ x \in Snapshots
                             \/ \E t \in Snapshots : x = Closed(t)
                             \/ x.id = id /\ Faithful(x, Append(added[id], <<"user", m>>))
  BY <1>5, <1>7, <1>8
<1>12. added' = [added EXCEPT ![id] = Append(@, <<"user", m>>)] /\ DOMAIN found' = Keys
  BY <1>2, <1>3, <1>4 DEF SessionInv, StoreTypes
<1> QED
  BY <1>2, <1>3, <1>6, <1>9, <1>10, <1>11, <1>12, Spoken

LEMMA AnswerAdded ==
  ASSUME SessionInv, NEW m \in Msgs, AddAnswer(m)
  PROVE  SessionInv'
<1> DEFINE e == <<"assistant", m>>
<1>1. PICK s \in InMemory :
        /\ s.id \in sessionOf[m]
        /\ sessions' = [sessions EXCEPT ![s.key] = {withMessage(s, e)}]
        /\ writes' = writes \cup sessions'[s.key]
        /\ added' = [added EXCEPT ![s.id] = Append(@, e)]
  BY DEF AddAnswer
<1>2. /\ handler[m] = "asking" /\ handler' = [handler EXCEPT ![m] = "done"]
      /\ UNCHANGED <<now, found, db, usedIds, sessionOf>>
  BY DEF AddAnswer
<1>3. s \in Snapshots /\ s.id \in usedIds /\ s.id \in Ids /\ Faithful(s, added[s.id])
        /\ added[s.id] \in Histories /\ s.key \in Keys
  BY <1>1, SnapshotsAre DEF Snapshots
<1>4. Asked(added[s.id], m)
  BY <1>1, <1>2 DEF SessionInv, QuestionsLogged
<1> DEFINE new == withMessage(s, e)
<1>5. new.id = s.id /\ Faithful(new, Append(added[s.id], e))
  BY <1>3, MessageKept DEF Entry, SessionInv, StoreTypes
<1>6. /\ DOMAIN sessions' = Keys /\ sessions'[s.key] = {new}
      /\ \A x \in Keys : sessions'[x] \subseteq Snapshots \cup {new}
  BY <1>1, <1>3, Replaced
<1> HIDE DEF new
<1>7. \A x \in Snapshots' : x \in Snapshots \/ x = new
  BY <1>1, <1>2, <1>6, SnapshotsAre DEF Snapshots, InMemory
<1>8. /\ handler' \in [Msgs -> {"new", "asking", "done", "lost"}]
      /\ \A x \in Msgs : handler'[x] = "asking" => handler[x] = "asking"
      /\ sessionOf' \in [Msgs -> SUBSET usedIds']
  BY <1>2 DEF SessionInv, StoreTypes
<1>9. usedIds' = usedIds \cup {s.id} /\ DOMAIN found' = Keys
  BY <1>2, <1>3 DEF SessionInv, StoreTypes
<1>10. \A x \in Msgs : handler'[x] = "asking" =>
         \/ handler[x] = "asking" /\ sessionOf'[x] = sessionOf[x]
         \/ x = m /\ "assistant" = "user" /\ sessionOf'[x] = {s.id}
  BY <1>2, <1>8
<1>11. \A x \in Snapshots' : \/ x \in Snapshots
                             \/ \E t \in Snapshots : x = Closed(t)
                             \/ x.id = s.id /\ Faithful(x, Append(added[s.id], <<"assistant", m>>))
  BY <1>5, <1>7
<1> QED
  BY <1>1, <1>2, <1>3, <1>4, <1>6, <1>8, <1>9, <1>10, <1>11, Spoken

\* Every other step keeps the logs.
LEMMA AnswerDropped ==
  ASSUME SessionInv, NEW m \in Msgs, DropAnswer(m)
  PROVE  SessionInv'
<1>1. /\ handler' = [handler EXCEPT ![m] = "done"]
      /\ UNCHANGED <<now, sessions, found, writes, db, usedIds, sessionOf, added>>
  BY DEF DropAnswer
<1>2. /\ handler' \in [Msgs -> {"new", "asking", "done", "lost"}]
      /\ \A x \in Msgs : handler'[x] = "asking" => handler[x] = "asking"
      /\ DOMAIN sessions' = Keys /\ DOMAIN found' = Keys /\ now' \in Nat
  BY <1>1 DEF SessionInv, StoreTypes
<1>3. Snapshots' = Snapshots
  BY <1>1 DEF Snapshots, InMemory
<1> QED
  BY <1>1, <1>2, <1>3, Quiet

LEMMA SessionClosed ==
  ASSUME SessionInv, NEW k \in Keys, close(k)
  PROVE  SessionInv'
<1>1. PICK s \in sessions[k] : sessions' = [sessions EXCEPT ![k] = {Closed(s)}]
  BY DEF close, Closed
<1>2. /\ writes' = writes \cup sessions'[k]
      /\ UNCHANGED <<now, found, db, usedIds, handler, sessionOf, added>>
  BY DEF close
<1>3. /\ DOMAIN sessions' = Keys /\ sessions'[k] = {Closed(s)}
      /\ \A x \in Keys : sessions'[x] \subseteq Snapshots \cup {Closed(s)}
  BY <1>1, Replaced
<1>4. s \in Snapshots
  BY SnapshotsAre
<1>5. \A x \in Snapshots' : x \in Snapshots \/ x = Closed(s)
  BY <1>2, <1>3, SnapshotsAre DEF Snapshots, InMemory
<1>6. /\ handler' \in [Msgs -> {"new", "asking", "done", "lost"}] /\ now' \in Nat
      /\ DOMAIN found' = Keys
  BY <1>2 DEF SessionInv, StoreTypes
<1> QED
  BY <1>2, <1>3, <1>4, <1>5, <1>6, Quiet

LEMMA IdleExpired ==
  ASSUME SessionInv, expireIdleSessions
  PROVE  SessionInv'
<1>1. /\ sessions' = [k \in Keys |-> IF expired(k) # {} THEN expired(k) ELSE sessions[k]]
      /\ writes' = writes \cup UNION {expired(k) : k \in Keys}
      /\ UNCHANGED <<now, found, db, usedIds, handler, sessionOf, added>>
  BY DEF expireIdleSessions
<1> DEFINE old == UNION {expired(k) : k \in Keys}
<1>2. \A x \in old : \E t \in Snapshots : x = Closed(t)
  BY ExpiredAreClosed, SnapshotsAre
<1>3. /\ DOMAIN sessions' = Keys
      /\ \A k \in Keys : sessions'[k] \subseteq Snapshots \cup old
  BY <1>1, SnapshotsAre
<1> HIDE DEF old
<1>4. \A x \in Snapshots' : x \in Snapshots \/ x \in old
  BY <1>1, <1>3, SnapshotsAre DEF Snapshots, InMemory, old
<1>5. /\ handler' \in [Msgs -> {"new", "asking", "done", "lost"}] /\ now' \in Nat
      /\ DOMAIN found' = Keys
  BY <1>1 DEF SessionInv, StoreTypes
<1> QED
  BY <1>1, <1>2, <1>3, <1>4, <1>5, Quiet

LEMMA TokensRecorded ==
  ASSUME SessionInv, NEW k \in Keys, recordTokens(k)
  PROVE  SessionInv'
<1>1. /\ writes' = writes \cup sessions[k]
      /\ UNCHANGED <<now, sessions, found, db, usedIds, handler, sessionOf, added>>
  BY DEF recordTokens
<1>2. \A x \in Snapshots' : x \in Snapshots
  BY <1>1, SnapshotsAre DEF Snapshots, InMemory
<1>3. /\ handler' \in [Msgs -> {"new", "asking", "done", "lost"}] /\ now' \in Nat
      /\ DOMAIN found' = Keys /\ DOMAIN sessions' = Keys
  BY <1>1 DEF SessionInv, StoreTypes
<1> QED
  BY <1>1, <1>2, <1>3, Quiet

\* The background load asks, is answered, and replaces the session or not.
LEMMA LoadGoesOn ==
  ASSUME SessionInv, NEW k \in Keys,
         LoadReads(k) \/ LoadFails(k) \/ Loaded(k) \/ NothingLoaded(k)
  PROVE  SessionInv'
<1>1. UNCHANGED <<now, usedIds, handler, sessionOf, added, db>>
  BY DEF LoadReads, LoadFails, Loaded, NothingLoaded
<1>2. DOMAIN sessions = Keys /\ DOMAIN found = Keys
  BY DEF SessionInv, StoreTypes
<1>3. /\ handler' \in [Msgs -> {"new", "asking", "done", "lost"}] /\ now' \in Nat
      /\ \A x \in Msgs : handler'[x] = "asking" => handler[x] = "asking"
  BY <1>1 DEF SessionInv, StoreTypes
<1>4. CASE LoadReads(k)
  <2>1. UNCHANGED <<sessions, writes>>
    BY <1>4 DEF LoadReads
  <2>2. PICK S \in SUBSET db : found' = [found EXCEPT ![k] = S] \/ found' = found
    <3>1. CASE \E r \in Latest(k) : found' = [found EXCEPT ![k] = {r}]
      <4>1. Latest(k) \subseteq db
        BY DEF Latest
      <4> QED
        BY <3>1, <4>1
    <3> QED
      BY <1>4, <3>1 DEF LoadReads
  <2>3. DOMAIN found' = Keys /\ \A x \in Keys : found'[x] \subseteq Snapshots
    BY <1>2, <2>2, SnapshotsAre
  <2>4. \A x \in Snapshots' : x \in Snapshots
    BY <1>1, <2>1, <2>3, SnapshotsAre DEF Snapshots, InMemory
  <2> QED
    BY <1>1, <1>2, <1>3, <2>1, <2>3, <2>4, Quiet
<1>5. CASE LoadFails(k)
  <2>1. UNCHANGED <<sessions, found, writes>>
    BY <1>5 DEF LoadFails
  <2>2. Snapshots' = Snapshots
    BY <1>1, <2>1 DEF Snapshots, InMemory
  <2> QED
    BY <1>1, <1>2, <1>3, <2>1, <2>2, Quiet
<1>6. CASE Loaded(k)
  <2>1. PICK r \in found[k] : sessions' = [sessions EXCEPT ![k] = {r}]
    BY <1>6 DEF Loaded
  <2>2. found' = [found EXCEPT ![k] = {}] /\ writes' = writes
    BY <1>6 DEF Loaded
  <2>3. DOMAIN sessions' = Keys /\ \A x \in Keys : sessions'[x] \subseteq Snapshots \cup {r}
    BY <2>1, Replaced
  <2>4. DOMAIN found' = Keys /\ \A x \in Keys : found'[x] \subseteq Snapshots
    BY <1>2, <2>2, SnapshotsAre
  <2>5. r \in Snapshots
    BY SnapshotsAre
  <2>6. \A x \in Snapshots' : x \in Snapshots
    BY <1>1, <2>2, <2>3, <2>4, <2>5, SnapshotsAre DEF Snapshots, InMemory
  <2> QED
    BY <1>1, <1>3, <2>3, <2>4, <2>6, Quiet
<1>7. CASE NothingLoaded(k)
  <2>1. /\ writes' = writes \cup {Closed(r) : r \in found[k]}
        /\ found' = [found EXCEPT ![k] = {}] /\ sessions' = sessions
    BY <1>7 DEF NothingLoaded, Closed
  <2>2. DOMAIN found' = Keys /\ \A x \in Keys : found'[x] \subseteq Snapshots
    BY <1>2, <2>1, SnapshotsAre
  <2>3. \A x \in Snapshots' : x \in Snapshots \/ \E t \in Snapshots : x = Closed(t)
    <3>1. \A x \in {Closed(r) : r \in found[k]} : \E t \in Snapshots : x = Closed(t)
      BY SnapshotsAre
    <3>2. \A x \in Snapshots' : x \in Snapshots \/ x \in {Closed(r) : r \in found[k]}
      BY <1>1, <2>1, <2>2, SnapshotsAre DEF Snapshots, InMemory
    <3> QED
      BY <3>1, <3>2
  <2> QED
    BY <1>1, <1>2, <1>3, <2>1, <2>2, <2>3, Quiet
<1> QED
  BY <1>4, <1>5, <1>6, <1>7

LEMMA WriteEnds ==
  ASSUME SessionInv, NEW w \in writes, Written(w) \/ WriteFails(w)
  PROVE  SessionInv'
<1>1. /\ writes' \subseteq writes /\ db' \subseteq db \cup {w}
      /\ UNCHANGED <<now, sessions, found, usedIds, handler, sessionOf, added>>
  BY DEF Written, WriteFails
<1>2. \A x \in Snapshots' : x \in Snapshots
  BY <1>1, SnapshotsAre DEF Snapshots, InMemory
<1>3. /\ handler' \in [Msgs -> {"new", "asking", "done", "lost"}] /\ now' \in Nat
      /\ DOMAIN found' = Keys /\ DOMAIN sessions' = Keys
  BY <1>1 DEF SessionInv, StoreTypes
<1> QED
  BY <1>1, <1>2, <1>3, Quiet

LEMMA GatewayRestarts ==
  ASSUME SessionInv, Restart
  PROVE  SessionInv'
<1>1. /\ sessions' = [k \in Keys |-> {}] /\ found' = [k \in Keys |-> {}] /\ writes' = {}
      /\ handler' = [m \in Msgs |-> IF handler[m] = "asking" THEN "lost" ELSE handler[m]]
      /\ UNCHANGED <<now, db, usedIds, sessionOf, added>>
  BY DEF Restart
<1>2. \A x \in Snapshots' : x \in Snapshots
  BY <1>1 DEF Snapshots, InMemory
<1>3. /\ handler' \in [Msgs -> {"new", "asking", "done", "lost"}]
      /\ \A x \in Msgs : handler'[x] = "asking" => handler[x] = "asking"
      /\ DOMAIN found' = Keys /\ DOMAIN sessions' = Keys /\ now' \in Nat
  BY <1>1 DEF SessionInv, StoreTypes
<1> QED
  BY <1>1, <1>2, <1>3, Quiet

LEMMA TimeGoesOn ==
  ASSUME SessionInv, UNCHANGED vars \/ Tick
  PROVE  SessionInv'
<1>1. UNCHANGED <<sessions, found, writes, db, usedIds, handler, sessionOf, added>>
  BY DEF vars, Tick
<1>2. Snapshots' = Snapshots
  BY <1>1 DEF Snapshots, InMemory
<1>3. /\ handler' \in [Msgs -> {"new", "asking", "done", "lost"}]
      /\ DOMAIN found' = Keys /\ DOMAIN sessions' = Keys /\ now' \in Nat
  BY <1>1 DEF SessionInv, StoreTypes, vars, Tick
<1> QED
  BY <1>1, <1>2, <1>3, Quiet

LEMMA SessionInvHolds == Spec => []SessionInv
<1>1. Init => SessionInv
  <2> SUFFICES ASSUME Init
               PROVE  SessionInv
    OBVIOUS
  <2>1. Snapshots = {}
    BY DEF Init, Snapshots, InMemory
  <2>2. <<>> \in Histories /\ DOMAIN <<>> = {}
    BY DEF Histories
  <2>3. added \in [Ids -> Histories] /\ \A id \in Ids : added[id] = <<>>
    BY <2>2 DEF Init
  <2>4. StoreTypes
    BY <2>3 DEF Init, StoreTypes
  <2>5. \A id \in Ids : Answers(added[id])
    BY <2>2, <2>3 DEF Answers
  <2>6. QuestionsLogged
    BY DEF Init, QuestionsLogged
  <2> QED
    BY <2>1, <2>4, <2>5, <2>6 DEF SessionInv, Recorded
<1>2. SessionInv /\ [Next]_vars => SessionInv'
  BY SessionResumed, SessionCreated, AnswerAdded, AnswerDropped, SessionClosed, IdleExpired,
     TokensRecorded, LoadGoesOn, WriteEnds, GatewayRestarts, TimeGoesOn DEF Next, StoreStep
<1> QED
  BY <1>1, <1>2, PTL DEF Spec

(* Whatever snapshots overtake each other, are loaded again or written     *)
(* late, and however often the gateway restarts, every copy of a session   *)
(* holds messages of its log, in its order and within the limits           *)
(* (addMessage, markForSummary, persist, loadFromDB).                      *)
THEOREM HistoryStaysInOrder == Spec => []HistoryInOrder
<1>1. SessionInv => HistoryInOrder
  BY DEF SessionInv, Recorded, Snapshots, Faithful, WithinLimits, HistoryInOrder
<1> QED
  BY <1>1, SessionInvHolds, PTL

(* For every number of messages, customers and restarts: an answer is      *)
(* logged only behind its question, in the session the question was added  *)
(* to (handleMessage, addMessage).                                         *)
THEOREM AnswersFollowQuestions == Spec => []AnswerJoinsQuestion
<1>1. SessionInv => AnswerJoinsQuestion
  BY DEF SessionInv, Answers, AnswerJoinsQuestion
<1> QED
  BY <1>1, SessionInvHolds, PTL

-----------------------------------------------------------------------------
(* Conversations.  A delivery that is about to create a row knows of every *)
(* such row that was there when it looked; one that came in since is by a  *)
(* delivery that was stored at the same time.                              *)

BeforeThread == {"arrives", "filtered", "account", "contact", "find thread", "create thread"}
AfterCreation == {"count message", "import", "link", "stored", "rejected"}
StoringSteps == BeforeThread \cup AfterCreation
                  \cup {"bump thread", "find message", "create message"}

DeliveryRecord ==
  [pc : StoringSteps, turn : BOOLEAN, reply : BOOLEAN, thread : Deliveries]

RowTypes ==
  /\ store \in [Deliveries -> DeliveryRecord]
  /\ DOMAIN threadRow \subseteq Deliveries
  /\ messageRow \subseteq [by : Deliveries, reply : BOOLEAN, thread : Deliveries]

Overlapping ==
  \A d, e \in Deliveries : d # e /\ d \in Storing /\ e \in Storing => {d, e} \in concurrent

\* A delivery has one row for its message and one for the answer, each in a
\* thread of its own chat.
OwnRows ==
  /\ \A m, n \in messageRow : m.by = n.by /\ m.reply = n.reply => m = n
  /\ \A m \in messageRow : Chat(m.thread) = Chat(m.by)

Misplaced(d) ==
  \E e \in Deliveries \ {d} : MessageKey(e, FALSE) = MessageKey(d, FALSE) /\ Chat(e) # Chat(d)
Raced(d) ==
  \E e \in Deliveries \ {d} :
    {d, e} \in concurrent /\ Chat(e) = Chat(d) /\ inbound[d].group # DirectMessage

Consistent(d) ==
  /\ d \in DOMAIN threadRow => store[d].pc \notin BeforeThread
  /\ store[d].pc = "create thread" => \A t \in ThreadsOf(d) : {d, t} \in concurrent
  /\ Chat(store[d].thread) = Chat(d)
  /\ \A m \in messageRow : m.by = d =>
       /\ m.reply = store[d].reply => store[d].pc \in AfterCreation
       /\ m.reply => store[d].reply
  /\ store[d].pc = "create message" =>
       \A m \in messageRow : MessageKey(m.by, m.reply) = MessageKey(d, store[d].reply) =>
         {m.by, d} \in concurrent
  /\ store[d].pc \in {"count message", "import", "link", "stored"} \/ store[d].reply =>
       InPlace(d) \/ Misplaced(d)
  /\ store[d].pc = "rejected" => d \in broken \/ Raced(d)

ConversationInv ==
  /\ RowTypes /\ Overlapping /\ OwnRows
  /\ \A d \in Deliveries : Consistent(d)
  /\ OnceUnlessTogether

-----------------------------------------------------------------------------
(* A delivery moves on.                                                    *)

\* g is f with another row at d; the other rows are as they were.
Sets(g, f, D, S, B, T, d, pc, turn, reply, thread) ==
  /\ g \in [D -> [pc : S, turn : B, reply : B, thread : T]]
  /\ g[d].pc = pc /\ g[d].turn = turn /\ g[d].reply = reply /\ g[d].thread = thread
  /\ \A e \in D \ {d} : g[e] = f[e]

LEMMA FieldsSet ==
  ASSUME NEW D, NEW S, NEW B, NEW T, NEW d \in D, NEW pc \in S, NEW flag \in B, NEW t \in T,
         NEW f \in [D -> [pc : S, turn : B, reply : B, thread : T]]
  PROVE  /\ Sets([f EXCEPT ![d].pc = pc], f, D, S, B, T, d,
                 pc, f[d].turn, f[d].reply, f[d].thread)
         /\ Sets([f EXCEPT ![d].pc = pc, ![d].turn = flag], f, D, S, B, T, d,
                 pc, flag, f[d].reply, f[d].thread)
         /\ Sets([f EXCEPT ![d].pc = pc, ![d].reply = flag], f, D, S, B, T, d,
                 pc, f[d].turn, flag, f[d].thread)
         /\ Sets([f EXCEPT ![d].pc = pc, ![d].thread = t], f, D, S, B, T, d,
                 pc, f[d].turn, f[d].reply, t)
<1> DEFINE g == [f EXCEPT ![d].pc = pc]
<1>1. Sets(g, f, D, S, B, T, d, pc, f[d].turn, f[d].reply, f[d].thread)
  BY DEF Sets
<1>2. /\ [f EXCEPT ![d].pc = pc, ![d].turn = flag] = [g EXCEPT ![d].turn = flag]
      /\ [f EXCEPT ![d].pc = pc, ![d].reply = flag] = [g EXCEPT ![d].reply = flag]
      /\ [f EXCEPT ![d].pc = pc, ![d].thread = t] = [g EXCEPT ![d].thread = t]
  OBVIOUS
<1> HIDE DEF g
<1>3. Sets([g EXCEPT ![d].turn = flag], f, D, S, B, T, d, pc, flag, f[d].reply, f[d].thread)
  BY <1>1 DEF Sets
<1>4. Sets([g EXCEPT ![d].reply = flag], f, D, S, B, T, d, pc, f[d].turn, flag, f[d].thread)
  BY <1>1 DEF Sets
<1>5. Sets([g EXCEPT ![d].thread = t], f, D, S, B, T, d, pc, f[d].turn, f[d].reply, t)
  BY <1>1 DEF Sets
<1> QED
  BY <1>1, <1>2, <1>3, <1>4, <1>5 DEF g

\* d moves to pc; what else it holds may change, the other deliveries do not.
Moves(d, pc, turn, reply, thread) ==
  Sets(store', store, Deliveries, StoringSteps, BOOLEAN, Deliveries, d, pc, turn, reply, thread)

LEMMA GoesTo ==
  ASSUME RowTypes, NEW d \in Deliveries, NEW pc \in StoringSteps
  PROVE  /\ Goto(d, pc) => Moves(d, pc, store[d].turn, store[d].reply, store[d].thread)
         /\ store' = [store EXCEPT ![d].pc = pc, ![d].turn = TRUE] =>
              Moves(d, pc, TRUE, store[d].reply, store[d].thread)
         /\ store' = [store EXCEPT ![d].pc = pc, ![d].reply = TRUE] =>
              Moves(d, pc, store[d].turn, TRUE, store[d].thread)
         /\ \A t \in Deliveries :
              store' = [store EXCEPT ![d].pc = pc, ![d].thread = t] =>
                Moves(d, pc, store[d].turn, store[d].reply, t)
<1> DEFINE S == StoringSteps
           B == BOOLEAN
           T == Deliveries
<1>1. store \in [Deliveries -> [pc : S, turn : B, reply : B, thread : T]]
        /\ d \in T /\ pc \in S /\ TRUE \in B
  BY DEF RowTypes, DeliveryRecord
<1> HIDE DEF S, B, T
<1>2. \A t \in T :
         /\ Sets([store EXCEPT ![d].pc = pc], store, Deliveries, S, B, T, d,
                 pc, store[d].turn, store[d].reply, store[d].thread)
         /\ Sets([store EXCEPT ![d].pc = pc, ![d].turn = TRUE], store, Deliveries, S, B, T, d,
                 pc, TRUE, store[d].reply, store[d].thread)
         /\ Sets([store EXCEPT ![d].pc = pc, ![d].reply = TRUE], store, Deliveries, S, B, T, d,
                 pc, store[d].turn, TRUE, store[d].thread)
         /\ Sets([store EXCEPT ![d].pc = pc, ![d].thread = t], store, Deliveries, S, B, T, d,
                 pc, store[d].turn, store[d].reply, t)
  BY <1>1, FieldsSet
<1> QED
  BY <1>1, <1>2, Zenon DEF Moves, Goto, S, B, T

LEMMA ThreadAdded ==
  ASSUME NEW rows, NEW d, NEW row
  PROVE  DOMAIN WithRow(rows, d, row) = DOMAIN rows \cup {d}
BY DEF WithRow

\* What one delivery does leaves the others as consistent as they were.
LEMMA OthersConsistent ==
  ASSUME ConversationInv, NEW d \in Deliveries, inbound' = inbound,
         concurrent \subseteq concurrent', broken \subseteq broken',
         messageRow \subseteq messageRow',
         \A m \in messageRow' \ messageRow : m.by = d /\ d \in Storing,
         DOMAIN threadRow \subseteq DOMAIN threadRow',
         \A t \in DOMAIN threadRow' \ DOMAIN threadRow : t = d /\ d \in Storing,
         NEW e \in Deliveries \ {d}, store'[e] = store[e]
  PROVE  Consistent(e)'
<1>1. Consistent(e) /\ Overlapping
  BY DEF ConversationInv
<1>2. e \in Storing /\ d \in Storing => {e, d} \in concurrent /\ {d, e} \in concurrent
  BY <1>1 DEF Overlapping
<1>3. /\ \A t : Chat(t)' = Chat(t)
      /\ \A t, r : MessageKey(t, r)' = MessageKey(t, r)
  BY DEF Chat, MessageKey
<1>4. (e \in DOMAIN threadRow' => store[e].pc \notin BeforeThread)
  BY <1>1 DEF Consistent
<1>5. store[e].pc = "create thread" => \A t \in ThreadsOf(e)' : {e, t} \in concurrent'
  <2> SUFFICES ASSUME store[e].pc = "create thread", NEW t \in ThreadsOf(e)'
               PROVE  {e, t} \in concurrent'
    OBVIOUS
  <2>1. t \in DOMAIN threadRow' /\ Chat(t) = Chat(e)
    BY <1>3 DEF ThreadsOf
  <2>2. CASE t \in DOMAIN threadRow
    BY <1>1, <2>1, <2>2 DEF Consistent, ThreadsOf
  <2>3. CASE t \notin DOMAIN threadRow
    BY <1>2, <2>1, <2>3 DEF Storing, Ended
  <2> QED
    BY <2>2, <2>3
<1>6. \A m \in messageRow' : m.by = e => m \in messageRow
  OBVIOUS
<1>7. store[e].pc = "create message" =>
        \A m \in messageRow' : MessageKey(m.by, m.reply) = MessageKey(e, store[e].reply) =>
          {m.by, e} \in concurrent'
  <2> SUFFICES ASSUME store[e].pc = "create message", NEW m \in messageRow',
                      MessageKey(m.by, m.reply) = MessageKey(e, store[e].reply)
               PROVE  {m.by, e} \in concurrent'
    OBVIOUS
  <2>1. CASE m \in messageRow
    BY <1>1, <2>1 DEF Consistent
  <2>2. CASE m \notin messageRow
    BY <1>2, <2>2 DEF Storing, Ended
  <2> QED
    BY <2>1, <2>2
<1>8. (InPlace(e) => InPlace(e)') /\ (Misplaced(e) => Misplaced(e)')
  BY <1>3 DEF InPlace, Misplaced
<1>9. Raced(e) => Raced(e)'
  BY <1>3 DEF Raced
<1> QED
  BY <1>1, <1>3, <1>4, <1>5, <1>6, <1>7, <1>8, <1>9 DEF Consistent

LEMMA StillOverlapping ==
  ASSUME ConversationInv, NEW d \in Deliveries, concurrent \subseteq concurrent',
         \A e \in Deliveries \ {d} : store'[e] = store[e],
         d \in Storing' => d \in Storing \/ \A e \in Storing : {d, e} \in concurrent'
  PROVE  Overlapping'
<1> SUFFICES ASSUME NEW x \in Deliveries, NEW y \in Deliveries, x # y,
                    x \in Storing', y \in Storing'
             PROVE  {x, y} \in concurrent'
  BY DEF Overlapping
<1>1. \A e \in Deliveries \ {d} : e \in Storing' => e \in Storing
  BY DEF Storing
<1>2. \A a, b \in Deliveries : a # b /\ a \in Storing /\ b \in Storing => {a, b} \in concurrent
  BY DEF ConversationInv, Overlapping
<1>3. {x, y} = {y, x}
  OBVIOUS
<1>4. CASE x = d
  BY <1>1, <1>2, <1>4
<1>5. CASE y = d
  BY <1>1, <1>2, <1>3, <1>5
<1>6. CASE x # d /\ y # d
  BY <1>1, <1>2, <1>6
<1> QED
  BY <1>4, <1>5, <1>6

\* d may be at pc, with that reply and thread, as far as the rows that are there go.
Fits(d, pc, reply, thread) ==
  /\ d \in DOMAIN threadRow => pc \notin BeforeThread
  /\ pc = "create thread" => ThreadsOf(d) = {}
  /\ Chat(thread) = Chat(d)
  /\ \A m \in messageRow : m.by = d =>
       (m.reply = reply => pc \in AfterCreation) /\ (m.reply => reply)
  /\ pc = "create message" =>
       \A m \in messageRow : MessageKey(m.by, m.reply) # MessageKey(d, reply)
  /\ pc \in {"count message", "import", "link", "stored"} \/ reply =>
       InPlace(d) \/ Misplaced(d)

\* The step of a delivery that creates no row: what is to be shown of it.
LEMMA RowlessStep ==
  ASSUME ConversationInv, NEW d \in Deliveries,
         NEW pc, NEW turn, NEW reply, NEW thread, Moves(d, pc, turn, reply, thread),
         UNCHANGED <<inbound, messageRow>>, DOMAIN threadRow' = DOMAIN threadRow,
         concurrent \subseteq concurrent', broken \subseteq broken',
         d \in Storing \/ pc \in Ended \/ \A e \in Storing : {d, e} \in concurrent',
         Fits(d, pc, reply, thread),
         pc = "rejected" => d \in broken' \/ Raced(d)
  PROVE  ConversationInv'
<1>1. /\ store' \in [Deliveries -> DeliveryRecord]
      /\ store'[d].pc = pc /\ store'[d].reply = reply /\ store'[d].thread = thread
      /\ \A e \in Deliveries \ {d} : store'[e] = store[e]
  BY DEF Moves, Sets, DeliveryRecord
<1>2. RowTypes /\ OwnRows /\ OnceUnlessTogether
  BY DEF ConversationInv
<1>3. RowTypes'
  BY <1>1, <1>2 DEF RowTypes
<1>4. Overlapping'
  <2>1. d \in Storing' => pc \notin Ended
    BY <1>1 DEF Storing, Ended
  <2> QED
    BY <1>1, <2>1, StillOverlapping
<1>5. OwnRows' /\ OnceUnlessTogether'
  BY <1>2 DEF OwnRows, OnceUnlessTogether, Chat, MessageKey
<1>6. \A e \in Deliveries \ {d} : Consistent(e)'
  BY <1>1, OthersConsistent
<1>7. Consistent(d)'
  <2>1. /\ \A t : Chat(t)' = Chat(t)
        /\ \A t, r : MessageKey(t, r)' = MessageKey(t, r)
    BY DEF Chat, MessageKey
  <2>2. ThreadsOf(d)' = ThreadsOf(d)
    BY <2>1 DEF ThreadsOf
  <2>3. (InPlace(d) => InPlace(d)') /\ (Misplaced(d) => Misplaced(d)') /\ (Raced(d) => Raced(d)')
    BY <2>1 DEF InPlace, Misplaced, Raced
  <2> QED
    BY <1>1, <2>1, <2>2, <2>3 DEF Consistent, Fits
<1> QED
  BY <1>3, <1>4, <1>5, <1>6, <1>7 DEF ConversationInv

-----------------------------------------------------------------------------
(* The queries.                                                            *)

LEMMA DeliveryBegins ==
  ASSUME ConversationInv, NEW d \in Deliveries, storeInboundMessage(d) \/ storeConversation(d)
  PROVE  ConversationInv'
<1>1. /\ store[d].pc = "arrives" /\ Consistent(d) /\ RowTypes
      /\ UNCHANGED <<inbound, threadRow, messageRow, broken>>
      /\ concurrent \subseteq concurrent'
  BY DEF ConversationInv, storeInboundMessage, storeConversation, At
<1>2. /\ d \notin DOMAIN threadRow /\ Chat(store[d].thread) = Chat(d)
      /\ \A m \in messageRow : m.by = d => m.reply # store[d].reply /\ (m.reply => store[d].reply)
      /\ store[d].reply => InPlace(d) \/ Misplaced(d)
  BY <1>1 DEF Consistent, BeforeThread, AfterCreation
<1>3. PICK pc \in {"account", "filtered"}, turn \in BOOLEAN :
        /\ Moves(d, pc, turn, store[d].reply, store[d].thread)
        /\ pc = "account" => \A e \in Storing : {d, e} \in concurrent'
  <2>1. {"account", "filtered"} \subseteq StoringSteps
    BY DEF StoringSteps, BeforeThread
  <2>2. CASE storeInboundMessage(d)
    <3>1. store[d].turn \in BOOLEAN
      BY <1>1 DEF RowTypes, DeliveryRecord
    <3>2. CASE shouldStore(d)
      <4>1. Goto(d, "account") /\ \A e \in Storing : {d, e} \in concurrent'
        BY <2>2, <3>2 DEF storeInboundMessage
      <4>2. Moves(d, "account", store[d].turn, store[d].reply, store[d].thread)
        BY <1>1, <2>1, <4>1, GoesTo
      <4> QED
        BY <3>1, <4>1, <4>2
    <3>3. CASE ~shouldStore(d)
      <4>1. Goto(d, "filtered")
        BY <2>2, <3>3 DEF storeInboundMessage
      <4>2. Moves(d, "filtered", store[d].turn, store[d].reply, store[d].thread)
        BY <1>1, <2>1, <4>1, GoesTo
      <4> QED
        BY <3>1, <4>2
    <3> QED
      BY <3>2, <3>3
  <2>3. CASE storeConversation(d)
    <3>1. \A e \in Storing : {d, e} \in concurrent'
      BY <2>3 DEF storeConversation
    <3>2. Moves(d, "account", TRUE, store[d].reply, store[d].thread)
      BY <1>1, <2>1, <2>3, GoesTo DEF storeConversation
    <3> QED
      BY <3>1, <3>2
  <2> QED
    BY <2>2, <2>3
<1>4. pc \in Ended \/ \A e \in Storing : {d, e} \in concurrent'
  BY <1>3 DEF Ended
<1>5. Fits(d, pc, store[d].reply, store[d].thread) /\ pc # "rejected"
  BY <1>2, <1>3 DEF Fits
<1> QED
  BY <1>1, <1>3, <1>4, <1>5, RowlessStep

\* The steps before the thread, and those after the message, create nothing.
LEMMA DeliveryGoesOn ==
  ASSUME ConversationInv, NEW d \in Deliveries,
         \/ upsertAccount(d) \/ upsertContact(d) \/ UpdateThread(d) \/ QueryFails(d)
         \/ importContactFromMessage(d) \/ tryCRMLink(d) \/ ImportFails(d)
  PROVE  ConversationInv'
<1>1. /\ Consistent(d) /\ RowTypes /\ inbound' = inbound /\ messageRow' = messageRow
      /\ concurrent' = concurrent /\ broken \subseteq broken'
  BY DEF ConversationInv, upsertAccount, upsertContact, UpdateThread, QueryFails,
         importContactFromMessage, tryCRMLink, ImportFails, Same
<1>2. DOMAIN threadRow' = DOMAIN threadRow
  BY DEF upsertAccount, upsertContact, UpdateThread, QueryFails, BumpThread,
         importContactFromMessage, tryCRMLink, ImportFails
<1>3. PICK pc \in StoringSteps :
        /\ Goto(d, pc)
        /\ \/ <<store[d].pc, pc>> \in {<<"account", "contact">>, <<"contact", "find thread">>,
                                       <<"bump thread", "find message">>}
           \/ store[d].pc \in {"import", "link"} /\ pc \in {"link", "stored"}
           \/ pc = "rejected" /\ d \in broken'
  BY DEF upsertAccount, upsertContact, UpdateThread, QueryFails, BumpThread, At,
         importContactFromMessage, tryCRMLink, ImportFails, StoringSteps, BeforeThread,
         AfterCreation
<1>4. Moves(d, pc, store[d].turn, store[d].reply, store[d].thread)
  BY <1>1, <1>3, GoesTo
<1>5. d \in Storing
  BY DEF Storing, Ended, upsertAccount, upsertContact, UpdateThread, QueryFails, BumpThread, At,
         importContactFromMessage, tryCRMLink, ImportFails
<1>6. Fits(d, pc, store[d].reply, store[d].thread)
  BY <1>1, <1>3 DEF Consistent, Fits, BeforeThread, AfterCreation
<1>7. pc = "rejected" => d \in broken'
  BY <1>1, <1>3
<1> QED
  BY <1>1, <1>2, <1>4, <1>5, <1>6, <1>7, RowlessStep

LEMMA ThreadLookedUp ==
  ASSUME ConversationInv, NEW d \in Deliveries, FindThread(d)
  PROVE  ConversationInv'
<1>1. /\ Consistent(d) /\ RowTypes /\ store[d].pc = "find thread" /\ d \in Storing
      /\ UNCHANGED <<inbound, threadRow, messageRow, concurrent, broken>>
  BY DEF ConversationInv, FindThread, Same, At, Storing, Ended
<1>2. /\ d \notin DOMAIN threadRow /\ Chat(store[d].thread) = Chat(d)
      /\ \A m \in messageRow : m.by = d => m.reply # store[d].reply /\ (m.reply => store[d].reply)
      /\ store[d].reply => InPlace(d) \/ Misplaced(d)
  BY <1>1 DEF Consistent, BeforeThread, AfterCreation
<1>3. "create thread" \in StoringSteps /\ "bump thread" \in StoringSteps
  BY DEF StoringSteps, BeforeThread
<1>4. CASE ThreadsOf(d) = {} /\ Goto(d, "create thread")
  <2>1. Moves(d, "create thread", store[d].turn, store[d].reply, store[d].thread)
    BY <1>1, <1>3, <1>4, GoesTo
  <2>2. Fits(d, "create thread", store[d].reply, store[d].thread)
    BY <1>2, <1>4 DEF Fits
  <2> QED
    BY <1>1, <2>1, <2>2, RowlessStep
<1>5. ASSUME NEW t \in ThreadsOf(d),
             store' = [store EXCEPT ![d].pc = "bump thread", ![d].thread = t]
      PROVE  ConversationInv'
  <2>1. t \in Deliveries /\ Chat(t) = Chat(d)
    BY <1>1 DEF ThreadsOf, RowTypes
  <2>2. Moves(d, "bump thread", store[d].turn, store[d].reply, t)
    BY <1>1, <1>3, <1>5, <2>1, GoesTo
  <2>3. Fits(d, "bump thread", store[d].reply, t)
    BY <1>2, <2>1 DEF Fits
  <2> QED
    BY <1>1, <2>2, <2>3, RowlessStep
<1> QED
  BY <1>4, <1>5 DEF FindThread

LEMMA ThreadCreated ==
  ASSUME ConversationInv, NEW d \in Deliveries, CreateThread(d)
  PROVE  ConversationInv'
<1>1. /\ Consistent(d) /\ RowTypes /\ OwnRows /\ OnceUnlessTogether
      /\ store[d].pc = "create thread" /\ d \in Storing
      /\ UNCHANGED <<inbound, messageRow, concurrent, broken>>
  BY DEF ConversationInv, CreateThread, Same, At, Storing, Ended
<1>2. /\ d \notin DOMAIN threadRow /\ Chat(store[d].thread) = Chat(d)
      /\ \A m \in messageRow : m.by = d => m.reply # store[d].reply /\ (m.reply => store[d].reply)
      /\ store[d].reply => InPlace(d) \/ Misplaced(d)
      /\ \A t \in ThreadsOf(d) : {d, t} \in concurrent
  BY <1>1 DEF Consistent, BeforeThread, AfterCreation
<1>3. "rejected" \in StoringSteps /\ "find message" \in StoringSteps
  BY DEF StoringSteps, AfterCreation
<1>4. CASE inbound[d].group # DirectMessage /\ ThreadsOf(d) # {}
  <2>1. Goto(d, "rejected") /\ threadRow' = threadRow
    BY <1>4 DEF CreateThread
  <2>2. Moves(d, "rejected", store[d].turn, store[d].reply, store[d].thread)
    BY <1>1, <1>3, <2>1, GoesTo
  <2>3. PICK t \in ThreadsOf(d) : TRUE
    BY <1>4
  <2>4. t \in Deliveries \ {d} /\ Chat(t) = Chat(d) /\ {d, t} \in concurrent
    BY <1>1, <1>2 DEF ThreadsOf, RowTypes
  <2>5. Raced(d)
    BY <1>4, <2>4 DEF Raced
  <2>6. Fits(d, "rejected", store[d].reply, store[d].thread)
    BY <1>2 DEF Fits
  <2> QED
    BY <1>1, <2>1, <2>2, <2>5, <2>6, RowlessStep
<1>5. CASE ~(inbound[d].group # DirectMessage /\ ThreadsOf(d) # {})
  <2>1. Goto(d, "find message") /\ threadRow' = WithRow(threadRow, d, 1)
    BY <1>5 DEF CreateThread
  <2>2. Moves(d, "find message", store[d].turn, store[d].reply, store[d].thread)
    BY <1>1, <1>3, <2>1, GoesTo
  <2>3. DOMAIN threadRow' = DOMAIN threadRow \cup {d}
    BY <2>1, ThreadAdded
  <2>4. /\ store' \in [Deliveries -> DeliveryRecord]
        /\ store'[d].pc = "find message" /\ store'[d].reply = store[d].reply
        /\ store'[d].thread = store[d].thread
        /\ \A e \in Deliveries \ {d} : store'[e] = store[e]
    BY <2>2 DEF Moves, Sets, DeliveryRecord
  <2>5. RowTypes'
    BY <1>1, <2>3, <2>4 DEF RowTypes
  <2>6. Overlapping'
    BY <1>1, <2>4, StillOverlapping
  <2>7. \A e \in Deliveries \ {d} : Consistent(e)'
    BY <1>1, <2>3, <2>4, OthersConsistent
  <2>8. /\ \A t : Chat(t)' = Chat(t)
        /\ \A t, r : MessageKey(t, r)' = MessageKey(t, r)
    BY <1>1 DEF Chat, MessageKey
  <2>9. (InPlace(d) => InPlace(d)') /\ (Misplaced(d) => Misplaced(d)')
    BY <1>1, <2>8 DEF InPlace, Misplaced
  <2>10. Consistent(d)'
    BY <1>1, <1>2, <2>4, <2>8, <2>9 DEF Consistent, BeforeThread
  <2>11. OwnRows'
    BY <1>1, <2>8 DEF OwnRows
  <2>12. OnceUnlessTogether'
    <3>1. ASSUME NEW t \in DOMAIN threadRow', NEW u \in DOMAIN threadRow',
                 t # u, Chat(t) = Chat(u)
          PROVE  {t, u} \in concurrent /\ inbound[t].group = DirectMessage
      <4>1. inbound[t].group = inbound[u].group
        BY <3>1 DEF Chat
      <4>2. {t, u} = {u, t}
        OBVIOUS
      <4>3. CASE t = d
        <5>1. u \in ThreadsOf(d)
          BY <2>3, <3>1, <4>3 DEF ThreadsOf
        <5> QED
          BY <1>2, <1>5, <4>3, <5>1
      <4>4. CASE u = d
        <5>1. t \in ThreadsOf(d)
          BY <2>3, <3>1, <4>4 DEF ThreadsOf
        <5> QED
          BY <1>2, <1>5, <4>1, <4>2, <4>4, <5>1
      <4>5. CASE t # d /\ u # d
        BY <1>1, <2>3, <3>1, <4>5 DEF OnceUnlessTogether
      <4> QED
        BY <4>3, <4>4, <4>5
    <3> QED
      BY <1>1, <2>8, <3>1 DEF OnceUnlessTogether
  <2> QED
    BY <2>5, <2>6, <2>7, <2>10, <2>11, <2>12 DEF ConversationInv
<1> QED
  BY <1>4, <1>5

\* The message, or the answer, is in; the delivery's own row or another one.
LEMMA AfterwardsPlaced ==
  ASSUME ConversationInv, NEW d \in Deliveries, AfterMessage(d),
         store[d].pc \in {"find message", "count message"}, InPlace(d) \/ Misplaced(d),
         UNCHANGED <<inbound, messageRow, concurrent, broken>>,
         DOMAIN threadRow' = DOMAIN threadRow
  PROVE  ConversationInv'
<1>1. Consistent(d) /\ RowTypes /\ d \in Storing
  BY DEF ConversationInv, Storing, Ended
<1>2. /\ Chat(store[d].thread) = Chat(d)
      /\ \A m \in messageRow : m.by = d => (m.reply => store[d].reply)
  BY <1>1 DEF Consistent
<1>3. {"find message", "stored", "import"} \subseteq StoringSteps
  BY DEF StoringSteps, AfterCreation
<1>4. CASE store[d].turn /\ ~store[d].reply
  <2>1. Moves(d, "find message", store[d].turn, TRUE, store[d].thread)
    BY <1>1, <1>3, <1>4, GoesTo DEF AfterMessage
  <2>2. \A m \in messageRow : m.by = d => m.reply # TRUE
    BY <1>2, <1>4
  <2>3. Fits(d, "find message", TRUE, store[d].thread)
    BY <1>2, <2>2 DEF Fits, BeforeThread
  <2> QED
    BY <1>1, <2>1, <2>3, RowlessStep
<1>5. CASE ~(store[d].turn /\ ~store[d].reply)
  <2>1. PICK pc \in {"stored", "import"} : Goto(d, pc)
    BY <1>5 DEF AfterMessage
  <2>2. Moves(d, pc, store[d].turn, store[d].reply, store[d].thread)
    BY <1>1, <1>3, <2>1, GoesTo
  <2>3. Fits(d, pc, store[d].reply, store[d].thread)
    BY <1>2 DEF Fits, BeforeThread, AfterCreation
  <2> QED
    BY <1>1, <2>2, <2>3, RowlessStep
<1> QED
  BY <1>4, <1>5

LEMMA MessageLookedUp ==
  ASSUME ConversationInv, NEW d \in Deliveries, FindMessage(d)
  PROVE  ConversationInv'
<1>1. /\ Consistent(d) /\ RowTypes /\ OwnRows
      /\ store[d].pc = "find message" /\ d \in Storing
      /\ UNCHANGED <<inbound, threadRow, messageRow, concurrent, broken>>
  BY DEF ConversationInv, FindMessage, Same, At, Storing, Ended
<1>2. CASE FoundMessage(d)
  <2>1. PICK m \in messageRow : MessageKey(m.by, m.reply) = MessageKey(d, store[d].reply)
    BY <1>2 DEF FoundMessage
  <2>2. m.by \in Deliveries /\ Chat(m.thread) = Chat(m.by)
    BY <1>1 DEF RowTypes, OwnRows
  <2>3. CASE store[d].reply
    <3>1. InPlace(d) \/ Misplaced(d)
      BY <1>1, <2>3 DEF Consistent
    <3> QED
      BY <1>1, <1>2, <3>1, AfterwardsPlaced DEF FindMessage
  <2>4. CASE ~store[d].reply
    <3>1. MessageKey(m.by, m.reply) = MessageKey(d, FALSE)
      <4>1. store[d].reply = FALSE
        BY <1>1, <2>4 DEF RowTypes, DeliveryRecord
      <4> QED
        BY <2>1, <4>1
    <3>2. MessageKey(m.by, FALSE) = MessageKey(d, FALSE)
      BY <3>1 DEF MessageKey
    <3>3. InPlace(d) \/ Misplaced(d)
      <4>1. CASE Chat(m.by) = Chat(d)
        BY <2>2, <3>1, <4>1 DEF InPlace
      <4>2. CASE Chat(m.by) # Chat(d)
        BY <2>2, <3>2, <4>2 DEF Misplaced
      <4> QED
        BY <4>1, <4>2
    <3> QED
      BY <1>1, <1>2, <3>3, AfterwardsPlaced DEF FindMessage
  <2> QED
    BY <2>3, <2>4
<1>3. CASE ~FoundMessage(d)
  <2>1. Goto(d, "create message") /\ "create message" \in StoringSteps
    BY <1>3 DEF FindMessage, StoringSteps
  <2>2. Moves(d, "create message", store[d].turn, store[d].reply, store[d].thread)
    BY <1>1, <2>1, GoesTo
  <2>3. \A m \in messageRow : MessageKey(m.by, m.reply) # MessageKey(d, store[d].reply)
    BY <1>3 DEF FoundMessage
  <2>4. \A m \in messageRow : m.by = d =>
          m.reply # store[d].reply /\ (m.reply => store[d].reply)
    BY <1>1 DEF Consistent, AfterCreation
  <2>5. /\ "create message" \notin BeforeThread /\ Chat(store[d].thread) = Chat(d)
        /\ store[d].reply => InPlace(d) \/ Misplaced(d)
    BY <1>1 DEF Consistent, BeforeThread
  <2>6. Fits(d, "create message", store[d].reply, store[d].thread)
    BY <2>3, <2>4, <2>5 DEF Fits
  <2> QED
    BY <1>1, <2>2, <2>6, RowlessStep
<1> QED
  BY <1>2, <1>3

LEMMA MessageCounted ==
  ASSUME ConversationInv, NEW d \in Deliveries, CountMessage(d)
  PROVE  ConversationInv'
<1>1. /\ store[d].pc = "count message" /\ AfterMessage(d)
      /\ UNCHANGED <<inbound, messageRow, concurrent, broken>>
      /\ DOMAIN threadRow' = DOMAIN threadRow
  BY DEF CountMessage, Same, At
<1>2. InPlace(d) \/ Misplaced(d)
  BY <1>1 DEF ConversationInv, Consistent
<1> QED
  BY <1>1, <1>2, AfterwardsPlaced

LEMMA MessageCreated ==
  ASSUME ConversationInv, NEW d \in Deliveries, CreateMessage(d)
  PROVE  ConversationInv'
<1> DEFINE row == [by |-> d, reply |-> store[d].reply, thread |-> store[d].thread]
<1>1. /\ Consistent(d) /\ RowTypes /\ OwnRows /\ OnceUnlessTogether
      /\ store[d].pc = "create message" /\ d \in Storing
      /\ UNCHANGED <<inbound, threadRow, concurrent, broken>>
      /\ messageRow' = messageRow \cup {row}
  BY DEF ConversationInv, CreateMessage, Same, At, Storing, Ended
<1>2. /\ Chat(store[d].thread) = Chat(d)
      /\ \A m \in messageRow : m.by = d => m.reply # store[d].reply /\ (m.reply => store[d].reply)
      /\ \A m \in messageRow : MessageKey(m.by, m.reply) = MessageKey(d, store[d].reply) =>
           {m.by, d} \in concurrent
      /\ store[d].reply => InPlace(d) \/ Misplaced(d)
  BY <1>1 DEF Consistent, AfterCreation
<1>3. Goto(d, "count message") /\ "count message" \in StoringSteps
  BY DEF CreateMessage, StoringSteps, AfterCreation
<1>4. Moves(d, "count message", store[d].turn, store[d].reply, store[d].thread)
  BY <1>1, <1>3, GoesTo
<1>5. /\ store' \in [Deliveries -> DeliveryRecord]
      /\ store'[d].pc = "count message" /\ store'[d].reply = store[d].reply
      /\ store'[d].thread = store[d].thread
      /\ \A e \in Deliveries \ {d} : store'[e] = store[e]
  BY <1>4 DEF Moves, Sets, DeliveryRecord
<1>6. /\ row \in [by : Deliveries, reply : BOOLEAN, thread : Deliveries]
      /\ row.by = d /\ row.reply = store[d].reply /\ row.thread = store[d].thread
  BY <1>1 DEF RowTypes, DeliveryRecord
<1> HIDE DEF row
<1>7. RowTypes'
  BY <1>1, <1>5, <1>6 DEF RowTypes
<1>8. Overlapping'
  BY <1>1, <1>5, StillOverlapping
<1>9. \A e \in Deliveries \ {d} : Consistent(e)'
  BY <1>1, <1>5, <1>6, OthersConsistent
<1>10. /\ \A t : Chat(t)' = Chat(t)
       /\ \A t, r : MessageKey(t, r)' = MessageKey(t, r)
  BY <1>1 DEF Chat, MessageKey
<1>11. InPlace(d)' \/ Misplaced(d)'
  <2>1. CASE store[d].reply
    BY <1>1, <1>2, <1>10, <2>1 DEF InPlace, Misplaced
  <2>2. CASE ~store[d].reply
    <3>1. store[d].reply = FALSE
      BY <1>1, <2>2 DEF RowTypes, DeliveryRecord
    <3>2. Chat(row.thread) = Chat(d) /\ MessageKey(row.by, row.reply) = MessageKey(d, FALSE)
      BY <1>2, <1>6, <3>1
    <3> QED
      BY <1>1, <1>10, <3>2 DEF InPlace
  <2> QED
    BY <2>1, <2>2
<1>12. Consistent(d)'
  <2>1. ThreadsOf(d)' = ThreadsOf(d)
    BY <1>1, <1>10 DEF ThreadsOf
  <2>2. "count message" \in AfterCreation /\ "count message" \notin BeforeThread
    BY DEF AfterCreation, BeforeThread
  <2>3. \A m \in messageRow' : m.by = d => (m.reply => store[d].reply)
    BY <1>1, <1>2, <1>6
  <2> QED
    BY <1>2, <1>5, <1>10, <1>11, <2>2, <2>3 DEF Consistent
<1>13. OwnRows'
  <2>1. ASSUME NEW m \in messageRow', NEW n \in messageRow', m.by = n.by, m.reply = n.reply
        PROVE  m = n
    BY <1>1, <1>2, <1>6, <2>1 DEF OwnRows
  <2>2. \A m \in messageRow' : Chat(m.thread) = Chat(m.by)
    BY <1>1, <1>2, <1>6 DEF OwnRows
  <2> QED
    BY <1>10, <2>1, <2>2 DEF OwnRows
<1>14. OnceUnlessTogether'
  <2>1. ASSUME NEW m \in messageRow', NEW n \in messageRow', m # n,
               MessageKey(m.by, m.reply) = MessageKey(n.by, n.reply)
        PROVE  {m.by, n.by} \in concurrent
    <3>1. {m.by, n.by} = {n.by, m.by}
      OBVIOUS
    <3>2. CASE m = row
      BY <1>1, <1>2, <1>6, <2>1, <3>1, <3>2
    <3>3. CASE n = row
      BY <1>1, <1>2, <1>6, <2>1, <3>3
    <3>4. CASE m # row /\ n # row
      BY <1>1, <2>1, <3>4 DEF OnceUnlessTogether
    <3> QED
      BY <3>2, <3>3, <3>4
  <2> QED
    BY <1>1, <1>10, <2>1 DEF OnceUnlessTogether
<1> QED
  BY <1>7, <1>8, <1>9, <1>12, <1>13, <1>14 DEF ConversationInv

LEMMA ConversationInvHolds == ConversationSpec => []ConversationInv
<1>1. ConversationInit => ConversationInv
  <2> SUFFICES ASSUME ConversationInit
               PROVE  ConversationInv
    OBVIOUS
  <2> DEFINE first(d) == [pc |-> "arrives", turn |-> FALSE, reply |-> FALSE, thread |-> d]
  <2>1. store = [d \in Deliveries |-> first(d)] /\ DOMAIN threadRow = {} /\ messageRow = {}
    BY DEF ConversationInit
  <2>2. \A d \in Deliveries : /\ first(d) \in DeliveryRecord /\ first(d).pc = "arrives"
                              /\ first(d).reply = FALSE /\ first(d).thread = d
    BY DEF DeliveryRecord, StoringSteps, BeforeThread
  <2> HIDE DEF first
  <2>3. RowTypes
    BY <2>1, <2>2 DEF RowTypes
  <2>4. Storing = {}
    BY <2>1, <2>2 DEF Storing, Ended
  <2>5. \A d \in Deliveries : Consistent(d)
    BY <2>1, <2>2 DEF Consistent
  <2> QED
    BY <2>1, <2>3, <2>4, <2>5 DEF ConversationInv, Overlapping, OwnRows, OnceUnlessTogether
<1>2. ConversationInv /\ UNCHANGED conversationVars => ConversationInv'
  <2> SUFFICES ASSUME ConversationInv, UNCHANGED conversationVars
               PROVE  ConversationInv'
    OBVIOUS
  <2>1. UNCHANGED <<inbound, store, threadRow, messageRow, concurrent, broken>>
    BY DEF conversationVars
  <2>2. /\ \A t : Chat(t)' = Chat(t)
        /\ \A t, r : MessageKey(t, r)' = MessageKey(t, r)
    BY <2>1 DEF Chat, MessageKey
  <2>3. \A d \in Deliveries : Consistent(d)'
    <3> SUFFICES ASSUME NEW d \in Deliveries
                 PROVE  Consistent(d)'
      OBVIOUS
    <3>1. Consistent(d)
      BY DEF ConversationInv
    <3>2. ThreadsOf(d)' = ThreadsOf(d)
      BY <2>1, <2>2 DEF ThreadsOf
    <3>3. /\ InPlace(d) => InPlace(d)'
          /\ Misplaced(d) => Misplaced(d)'
          /\ Raced(d) => Raced(d)'
      BY <2>1, <2>2 DEF InPlace, Misplaced, Raced
    <3> QED
      BY <2>1, <2>2, <3>1, <3>2, <3>3 DEF Consistent
  <2>4. Storing' = Storing
    BY <2>1 DEF Storing
  <2>5. OwnRows' /\ OnceUnlessTogether'
    BY <2>1, <2>2 DEF ConversationInv, OwnRows, OnceUnlessTogether
  <2> QED
    BY <2>1, <2>3, <2>4, <2>5 DEF ConversationInv, RowTypes, Overlapping
<1>3. ConversationInv /\ [ConversationNext]_conversationVars => ConversationInv'
  BY <1>2, DeliveryBegins, DeliveryGoesOn, ThreadLookedUp, ThreadCreated, MessageLookedUp,
     MessageCreated, MessageCounted DEF ConversationNext
<1> QED
  BY <1>1, <1>3, PTL DEF ConversationSpec

(* For every number of deliveries in any order: no message and no chat has *)
(* two rows but by deliveries stored at the same time, and a message that  *)
(* passed the filter ends in a thread of its chat, but for the races and   *)
(* failures that are named (storeInboundMessage, storeConversation).       *)
THEOREM MessagesStoredOnce == ConversationSpec => []StoredOnceInPlace
<1>1. ConversationInv => StoredOnceInPlace
  <2> SUFFICES ASSUME ConversationInv
               PROVE  InPlaceUnlessRaced
    BY DEF ConversationInv, StoredOnceInPlace
  <2>1. \A d \in Deliveries :
          /\ store[d].pc = "stored" => InPlace(d) \/ Misplaced(d)
          /\ store[d].pc = "rejected" => d \in broken \/ Raced(d)
    BY DEF ConversationInv, Consistent
  <2> QED
    BY <2>1 DEF InPlaceUnlessRaced, Misplaced, Raced
<1> QED
  BY <1>1, ConversationInvHolds, PTL

-----------------------------------------------------------------------------
(* Customers.  No call, however late it comes back, and no end of the      *)
(* process takes a sender's customer away.                                 *)

CustomerTypes == DOMAIN memory = Senders /\ DOMAIN identity = Senders

(* For every number of calls in any order: the database's customer of a    *)
(* sender is drawn once, and memory does not leave it (resolveDB).         *)
THEOREM CustomersKept == CustomerSpec => IdentityKept
<1>1. CustomerInit => CustomerTypes
  BY DEF CustomerInit, CustomerTypes
<1>2. CustomerTypes /\ [CustomerNext]_customerVars => CustomerTypes'
  BY DEF CustomerTypes, CustomerNext, customerVars, resolve, resolveAsync, Start, resolveInMemory,
         FindIdentity, UpdateCustomer, CreateCustomer, ResolveFails, FallbackRejects, Restarts
<1>3. ASSUME CustomerTypes, CustomerNext, NEW s \in Senders, identity[s] # Nobody
      PROVE  /\ identity'[s] = identity[s]
             /\ memory[s] = identity[s] /\ running' => memory'[s] = memory[s]
  <2>1. ASSUME NEW r \in Resolves, NEW t \in Senders, resolve(r, t) \/ resolveAsync(r, t)
        PROVE  /\ identity'[s] = identity[s]
               /\ memory[s] = identity[s] => memory'[s] = memory[s]
    BY <1>3, <2>1 DEF CustomerTypes, resolve, resolveAsync, Start, resolveInMemory
  <2>2. ASSUME NEW r \in Resolves, UpdateCustomer(r)
        PROVE  /\ identity'[s] = identity[s]
               /\ memory[s] = identity[s] => memory'[s] = memory[s]
    BY <1>3, <2>2 DEF CustomerTypes, UpdateCustomer
  <2>3. ASSUME NEW r \in Resolves, CreateCustomer(r)
        PROVE  identity'[s] = identity[s] /\ memory'[s] = memory[s]
    BY <1>3, <2>3 DEF CustomerTypes, CreateCustomer
  <2>4. ASSUME NEW r \in Resolves, FindIdentity(r) \/ ResolveFails(r)
        PROVE  identity' = identity /\ memory' = memory
    BY <2>4 DEF FindIdentity, ResolveFails
  <2>5. ASSUME NEW r \in Resolves, FallbackRejects(r)
        PROVE  identity' = identity /\ ~running'
    BY <2>5 DEF FallbackRejects
  <2>6. CASE Restarts
    BY <2>6 DEF Restarts
  <2> QED
    BY <1>3, <2>1, <2>2, <2>3, <2>4, <2>5, <2>6 DEF CustomerNext
<1>4. CustomerTypes /\ [CustomerNext]_customerVars =>
        [\A s \in Senders :
           identity[s] # Nobody =>
             /\ identity'[s] = identity[s]
             /\ memory[s] = identity[s] /\ running' => memory'[s] = memory[s]]_customerVars
  BY <1>3
<1> QED
  BY <1>1, <1>2, <1>4, PTL DEF CustomerSpec, IdentityKept

-----------------------------------------------------------------------------
(* The CRM.  A push that is about to create a person, or whose creation    *)
(* the CRM still holds, knows of every person of its contact that was      *)
(* there when it looked; one that came in since is by a push that was at   *)
(* work with it.                                                           *)

CrmSteps == {"waits", "find", "create", "activity", "done"}

PushTypes ==
  /\ push \in [Pushes -> [pc : CrmSteps, contact : Contacts, only : BOOLEAN]]
  /\ persons \subseteq Pushes
  /\ \A p \in persons : push[p].pc \in {"activity", "done"}
  /\ late \subseteq Pushes
  /\ \A p \in late : push[p].pc = "done"

Overlap ==
  \A p, q \in Pushes : p # q /\ p \in AtWork /\ q \in AtWork => {p, q} \in together

\* Push p has looked, and its creation is still to come.
Creating(p) == push[p].pc = "create" \/ p \in late

LookedFirst ==
  \A p \in Pushes : Creating(p) =>
    \A q \in persons : push[q].contact = push[p].contact =>
      {p, q} \in together \/ p \in misled

PersonInv == PushTypes /\ Overlap /\ LookedFirst /\ OnePersonPerContact

\* A push moves: its contact and the other pushes stay.
LEMMA PushMoves ==
  ASSUME PushTypes, NEW p \in Pushes, NEW pc \in CrmSteps, PushTo(p, pc)
  PROVE  /\ push' \in [Pushes -> [pc : CrmSteps, contact : Contacts, only : BOOLEAN]]
         /\ push'[p].pc = pc
         /\ \A q \in Pushes : push'[q].contact = push[q].contact
         /\ \A q \in Pushes \ {p} : push'[q] = push[q]
BY DEF PushTypes, PushTo, CrmSteps

\* A push that moves on and creates nobody disturbs nothing but, perhaps, the
\* overlaps and the lookup of its own; it may leave its creation to the CRM.
LEMMA PushStep ==
  ASSUME PersonInv, NEW p \in Pushes, NEW pc \in CrmSteps, PushTo(p, pc),
         push[p].pc # "done",
         persons' = persons, together \subseteq together', misled \subseteq misled',
         \/ late' = late
         \/ late' = late \cup {p} /\ push[p].pc = "create" /\ pc = "done",
         p \in Underway \/ (\A q \in AtWork : {p, q} \in together'),
         p \in persons => pc \in {"activity", "done"},
         pc = "create" => PersonsOf(p) = {} \/ p \in misled'
  PROVE  PersonInv'
<1>1. /\ push' \in [Pushes -> [pc : CrmSteps, contact : Contacts, only : BOOLEAN]]
      /\ push'[p].pc = pc
      /\ \A q \in Pushes : push'[q].contact = push[q].contact
      /\ \A q \in Pushes \ {p} : push'[q] = push[q]
  BY PushMoves DEF PersonInv
<1>2. /\ persons \subseteq Pushes /\ \A q \in persons : push[q].pc \in {"activity", "done"}
      /\ late \subseteq Pushes /\ \A q \in late : push[q].pc = "done"
  BY DEF PersonInv, PushTypes
<1>3. PushTypes'
  BY <1>1, <1>2 DEF PushTypes
<1>4. Overlap'
  <2> SUFFICES ASSUME NEW q \in Pushes, NEW r \in Pushes, q # r, q \in AtWork', r \in AtWork'
               PROVE  {q, r} \in together'
    BY DEF Overlap
  <2>1. \A x \in Pushes \ {p} : x \in AtWork' => x \in AtWork
    BY <1>1 DEF AtWork, Underway
  <2>2. \A x, y \in Pushes : x # y /\ x \in AtWork /\ y \in AtWork => {x, y} \in together
    BY DEF PersonInv, Overlap
  <2>0. p \in AtWork \/ (\A x \in AtWork : {p, x} \in together')
    BY DEF AtWork
  <2>3. CASE q = p
    BY <2>0, <2>1, <2>2, <2>3
  <2>4. CASE r = p
    <3>1. {q, r} = {r, q}
      OBVIOUS
    <3> QED
      BY <2>0, <2>1, <2>2, <2>4, <3>1
  <2>5. CASE q # p /\ r # p
    BY <2>1, <2>2, <2>5
  <2> QED
    BY <2>3, <2>4, <2>5
<1>5. LookedFirst'
  <2> SUFFICES ASSUME NEW r \in Pushes, Creating(r)', NEW q \in persons,
                      push'[q].contact = push'[r].contact
               PROVE  {r, q} \in together' \/ r \in misled'
    BY DEF LookedFirst
  <2>1. push[q].contact = push[r].contact
    BY <1>1, <1>2
  <2>2. CASE Creating(r)
    BY <2>1, <2>2 DEF PersonInv, LookedFirst
  <2>3. CASE ~Creating(r)
    <3>1. r = p /\ pc = "create"
      BY <1>1, <1>2, <2>3 DEF Creating
    <3> QED
      BY <2>1, <3>1 DEF PersonsOf
  <2> QED
    BY <2>2, <2>3
<1>6. OnePersonPerContact'
  BY <1>1, <1>2 DEF PersonInv, OnePersonPerContact
<1> QED
  BY <1>3, <1>4, <1>5, <1>6 DEF PersonInv

\* A person is created, by a push that waits for it or by the CRM on its own.
LEMMA PersonCreated ==
  ASSUME PersonInv, NEW p \in Pushes, Creating(p),
         push' \in [Pushes -> [pc : CrmSteps, contact : Contacts, only : BOOLEAN]],
         push'[p].pc \in {"activity", "done"},
         \A q \in Pushes : push'[q].contact = push[q].contact,
         \A q \in Pushes \ {p} : push'[q] = push[q],
         persons' = persons \cup {p}, late' = late \ {p},
         together' = together, misled' = misled
  PROVE  PersonInv'
<1>4. /\ persons \subseteq Pushes /\ \A q \in persons : push[q].pc \in {"activity", "done"}
      /\ late \subseteq Pushes /\ \A q \in late : push[q].pc = "done"
  BY DEF PersonInv, PushTypes
<1>5. PushTypes'
  BY <1>4 DEF PushTypes
<1>6. \A q \in Pushes : q \in AtWork' => q \in AtWork
  BY DEF AtWork, Underway, Creating
<1>7. Overlap'
  BY <1>6 DEF PersonInv, Overlap
<1>8. LookedFirst'
  <2> SUFFICES ASSUME NEW r \in Pushes, Creating(r)', NEW q \in persons',
                      push'[q].contact = push'[r].contact
               PROVE  {r, q} \in together' \/ r \in misled'
    BY DEF LookedFirst
  <2>1. r # p /\ Creating(r)
    BY <1>4 DEF Creating
  <2>2. CASE q = p
    <3>1. r \in AtWork /\ p \in AtWork
      BY <2>1 DEF AtWork, Underway, Creating
    <3> QED
      BY <2>1, <2>2, <3>1 DEF PersonInv, Overlap
  <2>3. CASE q # p
    BY <1>4, <2>1, <2>3 DEF PersonInv, LookedFirst
  <2> QED
    BY <2>2, <2>3
<1>9. OnePersonPerContact'
  <2> SUFFICES ASSUME NEW q \in persons', NEW r \in persons', q # r,
                      push'[q].contact = push'[r].contact
               PROVE  {q, r} \in together' \/ {q, r} \cap misled' # {}
    BY DEF OnePersonPerContact
  <2>1. \A x \in persons : push[x].contact = push[p].contact => {p, x} \in together \/ p \in misled
    BY DEF PersonInv, LookedFirst
  <2>2. push[q].contact = push[r].contact
    BY <1>4
  <2>3. CASE q = p
    BY <2>1, <2>2, <2>3
  <2>4. CASE r = p
    <3>1. {q, r} = {r, q}
      OBVIOUS
    <3> QED
      BY <2>1, <2>2, <2>4, <3>1
  <2>5. CASE q # p /\ r # p
    BY <2>2, <2>5 DEF PersonInv, OnePersonPerContact
  <2> QED
    BY <2>3, <2>4, <2>5
<1> QED
  BY <1>5, <1>7, <1>8, <1>9 DEF PersonInv

LEMMA PersonInvHolds == CrmSpec => []PersonInv
<1>1. CrmInit => PersonInv
  BY DEF CrmInit, PersonInv, PushTypes, CrmSteps, Overlap, LookedFirst, OnePersonPerContact,
         Creating, AtWork, Underway
<1>2. PersonInv /\ [CrmNext]_crmVars => PersonInv'
  <2> SUFFICES ASSUME PersonInv, [CrmNext]_crmVars
               PROVE  PersonInv'
    OBVIOUS
  <2>1. CASE UNCHANGED crmVars
    BY <2>1 DEF crmVars, PersonInv, PushTypes, Overlap, LookedFirst, OnePersonPerContact,
                Creating, AtWork, Underway
  <2> SUFFICES ASSUME NEW p \in Pushes,
                      \/ Push(p) \/ findPersonByContact(p) \/ FindAnswersErrors(p)
                      \/ createPerson(p) \/ CreateTimesOut(p) \/ ExecutedLate(p)
                      \/ createTimelineActivity(p) \/ RequestFails(p)
               PROVE  PersonInv'
    BY <2>1 DEF CrmNext
  <2>2. /\ push \in [Pushes -> [pc : CrmSteps, contact : Contacts, only : BOOLEAN]]
        /\ persons \subseteq Pushes
        /\ \A q \in persons : push[q].pc \in {"activity", "done"}
        /\ late \subseteq Pushes
        /\ \A q \in late : push[q].pc = "done"
    BY DEF PersonInv, PushTypes
  <2>3. CASE Push(p)
    <3>1. \A q \in AtWork : {p, q} \in together'
      BY <2>3 DEF Push
    <3> QED
      BY <2>2, <2>3, <3>1, PushStep DEF Push, PushAt, CrmSteps
  <2>4. CASE findPersonByContact(p)
    <3>1. PICK pc \in CrmSteps : PushTo(p, pc) /\ (pc = "create" => PersonsOf(p) = {})
      BY <2>4 DEF findPersonByContact, CrmSteps
    <3> QED
      BY <2>2, <2>4, <3>1, PushStep DEF findPersonByContact, PushAt, Underway
  <2>5. CASE FindAnswersErrors(p)
    BY <2>2, <2>5, PushStep DEF FindAnswersErrors, PushAt, Underway, CrmSteps
  <2>6. CASE createPerson(p)
    <3>1. PICK pc \in {"activity", "done"} : PushTo(p, pc)
      BY <2>6 DEF createPerson
    <3>2. /\ push' \in [Pushes -> [pc : CrmSteps, contact : Contacts, only : BOOLEAN]]
          /\ push'[p].pc = pc
          /\ \A q \in Pushes : push'[q].contact = push[q].contact
          /\ \A q \in Pushes \ {p} : push'[q] = push[q]
      BY <3>1, PushMoves DEF PersonInv, CrmSteps
    <3>3. Creating(p) /\ late' = late \ {p}
      BY <2>2, <2>6 DEF createPerson, PushAt, Creating
    <3> QED
      BY <2>6, <3>1, <3>2, <3>3, PersonCreated DEF createPerson
  <2>7. CASE createTimelineActivity(p)
    BY <2>2, <2>7, PushStep DEF createTimelineActivity, PushAt, Underway, CrmSteps
  <2>8. CASE RequestFails(p)
    BY <2>2, <2>8, PushStep DEF RequestFails, Underway, CrmSteps
  <2>9. CASE CreateTimesOut(p)
    BY <2>2, <2>9, PushStep DEF CreateTimesOut, PushAt, Underway, CrmSteps
  <2>10. CASE ExecutedLate(p)
    <3>1. CASE persons' = persons \cup {p}
      BY <2>2, <2>10, <3>1, PersonCreated DEF ExecutedLate, Creating
    <3>2. CASE persons' = persons
      <4>1. /\ push' = push /\ persons' = persons /\ late' = late \ {p}
            /\ together' = together /\ misled' = misled
        BY <2>10, <3>2 DEF ExecutedLate
      <4> QED
        BY <4>1 DEF PersonInv, PushTypes, Overlap, LookedFirst, OnePersonPerContact,
                    Creating, AtWork, Underway
    <3> QED
      BY <2>10, <3>1, <3>2 DEF ExecutedLate
  <2> QED
    BY <2>3, <2>4, <2>5, <2>6, <2>7, <2>8, <2>9, <2>10
<1> QED
  BY <1>1, <1>2, PTL DEF CrmSpec

(* However many pushes of however many contacts there are, and whatever    *)
(* the CRM executes after a push gave up, a contact has a second person    *)
(* only by two pushes that were at work at the same time or a lookup       *)
(* answered with an error (pushConversationToCRM, ensureCRMContact).       *)
THEOREM PersonsAreUnique == CrmSpec => []OnePersonPerContact
<1>1. PersonInv => OnePersonPerContact
  BY DEF PersonInv
<1> QED
  BY <1>1, PersonInvHolds, PTL

-----------------------------------------------------------------------------
(* Analytics.  A flush carries totals that were in memory, which holds no  *)
(* more than was recorded; and as long as no two flushes overlap, a row    *)
(* this session wrote for today is not above what memory holds, nor above  *)
(* what the flush on its way has read.                                     *)

FlushRecord == [date : Nat, stats : [Groups -> Nat], left : SUBSET Groups]

TotalTypes ==
  /\ day \in 1..Days /\ session \in Nat /\ overlapped \in BOOLEAN
  /\ inMemory \in [DayGroups -> Nat]
  /\ recorded \in [DayGroups -> Nat]
  /\ daily \in [DayGroups -> Nat \cup {NoRow}]
  /\ writer \in [DayGroups -> Nat]
  /\ flush \in [Flushes -> FlushRecord]

Sound ==
  /\ \A dg \in DayGroups : inMemory[dg] <= recorded[dg] /\ daily[dg] <= recorded[dg]
  /\ \A dg \in DayGroups : writer[dg] <= session /\ (daily[dg] # NoRow => dg[1] <= day)
  /\ \A f \in Flushes : flush[f].left # {} => flush[f].date \in 1..day
  /\ \A f \in Flushes : \A g \in flush[f].left :
       /\ flush[f].stats[g] <= recorded[<<flush[f].date, g>>]
       /\ flush[f].date = day => flush[f].stats[g] <= inMemory[<<day, g>>]

OneAtATime == \A f, h \in Flushing : f = h \/ overlapped

Growing ==
  /\ \A g \in Groups :
       writer[<<day, g>>] = session => overlapped \/ daily[<<day, g>>] <= inMemory[<<day, g>>]
  /\ \A f \in Flushes : \A g \in flush[f].left :
       writer[<<flush[f].date, g>>] = session =>
         overlapped \/ daily[<<flush[f].date, g>>] <= flush[f].stats[g]

TotalInv == TotalTypes /\ Sound /\ OneAtATime /\ Growing

LEMMA DayGroupsAre ==
  /\ \A d \in 1..Days, g \in Groups : <<d, g>> \in DayGroups
  /\ \A dg \in DayGroups : dg[1] \in 1..Days /\ dg[2] \in Groups /\ dg = <<dg[1], dg[2]>>
BY DEF DayGroups

\* A date that is not after today is a day.
LEMMA DaysSoFar ==
  ASSUME TotalTypes
  PROVE  Days \in Nat /\ day \in Nat /\ \A d \in 1..day : d \in 1..Days /\ d \in Nat
BY AnalyticsAssumption DEF TotalTypes

LEMMA EventRecorded ==
  ASSUME TotalInv, NEW h \in Groups, record(h)
  PROVE  TotalInv'
<1> DEFINE dg == <<day, h>>
<1>1. /\ inMemory' = [inMemory EXCEPT ![dg] = @ + 1]
      /\ recorded' = [recorded EXCEPT ![dg] = @ + 1]
      /\ UNCHANGED <<day, session, daily, flush, writer, overlapped>>
  BY DEF record
<1>2. TotalTypes /\ Sound /\ OneAtATime /\ Growing
  BY DEF TotalInv
<1>3. dg \in DayGroups
  BY <1>2, DayGroupsAre, DaysSoFar DEF TotalTypes
<1> HIDE DEF dg
<1>4. inMemory' \in [DayGroups -> Nat] /\ recorded' \in [DayGroups -> Nat]
  BY <1>1, <1>2, <1>3 DEF TotalTypes
<1>5. \A x \in DayGroups :
        /\ inMemory'[x] = inMemory[x] + (IF x = dg THEN 1 ELSE 0)
        /\ recorded'[x] = recorded[x] + (IF x = dg THEN 1 ELSE 0)
        /\ inMemory[x] \in Nat /\ recorded[x] \in Nat
        /\ daily[x] \in Int /\ daily'[x] = daily[x]
  BY <1>1, <1>2, <1>3 DEF TotalTypes, NoRow
<1>6. \A x \in DayGroups : inMemory[x] <= inMemory'[x] /\ recorded[x] <= recorded'[x]
  BY <1>5
<1>7. TotalTypes'
  BY <1>1, <1>2, <1>4 DEF TotalTypes
<1>8. \A x \in DayGroups : inMemory'[x] <= recorded'[x] /\ daily'[x] <= recorded'[x]
  BY <1>2, <1>5 DEF Sound
<1>9. \A f \in Flushes : \A g \in flush[f].left :
        /\ g \in Groups /\ flush[f].stats[g] \in Nat
        /\ <<flush[f].date, g>> \in DayGroups /\ <<day, g>> \in DayGroups
  BY <1>2, DayGroupsAre, DaysSoFar DEF TotalTypes, Sound, FlushRecord
<1>10. Sound'
  <2>1. \A f \in Flushes : \A g \in flush[f].left :
          /\ flush[f].stats[g] <= recorded'[<<flush[f].date, g>>]
          /\ flush[f].date = day => flush[f].stats[g] <= inMemory'[<<day, g>>]
    BY <1>2, <1>5, <1>6, <1>9 DEF Sound
  <2> QED
    BY <1>1, <1>2, <1>8, <2>1 DEF Sound
<1>11. OneAtATime'
  BY <1>1, <1>2 DEF OneAtATime, Flushing
<1>12. Growing'
  <2>1. \A g \in Groups : <<day, g>> \in DayGroups
    BY <1>2, DayGroupsAre DEF TotalTypes
  <2>2. \A g \in Groups : writer[<<day, g>>] = session =>
          overlapped \/ daily[<<day, g>>] <= inMemory'[<<day, g>>]
    BY <1>2, <1>5, <1>6, <2>1 DEF Growing
  <2> QED
    BY <1>1, <1>2, <2>2 DEF Growing
<1> QED
  BY <1>7, <1>10, <1>11, <1>12 DEF TotalInv

\* The totals of the day, as a flush takes them.
Totals == [g \in Groups |-> IF inMemory[<<day, g>>] > 0 THEN inMemory[<<day, g>>] ELSE 0]

LEMMA FlushStarted ==
  ASSUME TotalInv, NEW f \in Flushes, FlushStarts(f)
  PROVE  TotalInv'
<1> DEFINE left == {h \in Groups : inMemory[<<day, h>>] > 0}
           new == [date |-> day, left |-> left, stats |-> Totals]
<1>1. TotalTypes /\ Sound /\ OneAtATime /\ Growing
  BY DEF TotalInv
<1>2. /\ flush' = [flush EXCEPT ![f] = new]
      /\ overlapped' = (overlapped \/ Flushing # {})
      /\ UNCHANGED <<day, session, inMemory, daily, writer, recorded>>
  <2>1. DOMAIN getDailyStats(day) = left
    BY DEF getDailyStats
  <2>2. \A g \in left : getDailyStats(day)[g] = inMemory[<<day, g>>]
    BY DEF getDailyStats
  <2>3. [g \in Groups |-> IF g \in DOMAIN getDailyStats(day) THEN getDailyStats(day)[g] ELSE 0]
          = Totals
    BY <2>1, <2>2 DEF Totals
  <2> QED
    BY <2>1, <2>3 DEF FlushStarts
<1>3. /\ \A g \in Groups : <<day, g>> \in DayGroups /\ inMemory[<<day, g>>] \in Nat
      /\ day \in Nat /\ day \in 1..day
  BY <1>1, DayGroupsAre, AnalyticsAssumption DEF TotalTypes
<1>4. new \in FlushRecord /\ new.date = day /\ new.left = left
        /\ \A g \in left : new.stats[g] = inMemory[<<day, g>>]
  BY <1>3 DEF FlushRecord, Totals
<1>5. \A h \in Flushes \ {f} : flush'[h] = flush[h]
  BY <1>1, <1>2 DEF TotalTypes
<1>6. flush'[f] = new
  BY <1>1, <1>2 DEF TotalTypes
<1> HIDE DEF new
<1>7. TotalTypes'
  <2>1. flush' \in [Flushes -> FlushRecord]
    BY <1>1, <1>2, <1>4 DEF TotalTypes
  <2>2. overlapped' \in BOOLEAN
    BY <1>2
  <2> QED
    BY <1>1, <1>2, <2>1, <2>2 DEF TotalTypes
<1>8. Sound'
  <2>1. \A h \in Flushes : flush'[h].left # {} => flush'[h].date \in 1..day
    BY <1>1, <1>3, <1>4, <1>5, <1>6 DEF Sound
  <2>2. ASSUME NEW h \in Flushes, NEW g \in flush'[h].left
        PROVE  /\ flush'[h].stats[g] <= recorded[<<flush'[h].date, g>>]
               /\ flush'[h].date = day => flush'[h].stats[g] <= inMemory[<<day, g>>]
    <3>1. CASE h = f
      <4>1. g \in Groups /\ flush'[h].stats[g] = inMemory[<<day, g>>] /\ flush'[h].date = day
        BY <1>4, <1>6, <2>2, <3>1
      <4> QED
        BY <1>1, <1>3, <4>1 DEF Sound
    <3>2. CASE h # f
      BY <1>1, <1>5, <2>2, <3>2 DEF Sound
    <3> QED
      BY <3>1, <3>2
  <2> QED
    BY <1>1, <1>2, <2>1, <2>2 DEF Sound
<1>9. OneAtATime'
  <2> SUFFICES ASSUME NEW x \in Flushing', NEW y \in Flushing', x # y
               PROVE  overlapped'
    BY DEF OneAtATime
  <2>1. x \in Flushing \/ y \in Flushing
    BY <1>5 DEF Flushing
  <2> QED
    BY <1>2, <2>1
<1>10. Growing'
  <2>1. ~overlapped' => \A h \in Flushes : h # f => flush'[h].left = {}
    BY <1>2, <1>5 DEF Flushing
  <2>2. \A g \in left : writer[<<day, g>>] = session =>
          overlapped \/ daily[<<day, g>>] <= new.stats[g]
    BY <1>1, <1>4 DEF Growing
  <2>3. ASSUME NEW h \in Flushes, NEW g \in flush'[h].left,
               writer[<<flush'[h].date, g>>] = session, ~overlapped'
        PROVE  daily[<<flush'[h].date, g>>] <= flush'[h].stats[g]
    <3>1. h = f
      BY <2>1, <2>3
    <3>2. ~overlapped
      BY <1>2, <2>3
    <3> QED
      BY <1>4, <1>6, <2>2, <2>3, <3>1, <3>2
  <2>4. ASSUME NEW g \in Groups, writer[<<day, g>>] = session, ~overlapped'
        PROVE  daily[<<day, g>>] <= inMemory[<<day, g>>]
    BY <1>1, <1>2, <2>4 DEF Growing
  <2> QED
    BY <1>2, <2>3, <2>4 DEF Growing
<1> QED
  BY <1>7, <1>8, <1>9, <1>10 DEF TotalInv

\* A flush goes on: it has less left, and is otherwise as it was.
FlushHas(f, rest) == [flush EXCEPT ![f].left = rest]

LEMMA FlushLess ==
  ASSUME TotalTypes, NEW f \in Flushes, NEW rest \in SUBSET flush[f].left
  PROVE  /\ FlushHas(f, rest) \in [Flushes -> FlushRecord]
         /\ FlushHas(f, rest)[f].left = rest
         /\ \A h \in Flushes \ {f} : FlushHas(f, rest)[h] = flush[h]
         /\ \A h \in Flushes : /\ FlushHas(f, rest)[h].date = flush[h].date
                               /\ FlushHas(f, rest)[h].stats = flush[h].stats
                               /\ FlushHas(f, rest)[h].left \subseteq flush[h].left
BY DEF TotalTypes, FlushRecord, FlushHas

LEMMA RowWritten ==
  ASSUME TotalInv, NEW f \in Flushes, NEW h \in Groups, FlushWrites(f, h)
  PROVE  /\ TotalInv'
         /\ \A dg \in DayGroups : daily'[dg] < daily[dg] => overlapped \/ writer[dg] # session
<1> DEFINE dg == <<flush[f].date, h>>
           rest == flush[f].left \ {h}
<1>1. TotalTypes /\ Sound /\ OneAtATime /\ Growing
  BY DEF TotalInv
<1>2. /\ h \in flush[f].left
      /\ daily' = [daily EXCEPT ![dg] = flush[f].stats[h]]
      /\ writer' = [writer EXCEPT ![dg] = session]
      /\ flush' = FlushHas(f, rest)
      /\ UNCHANGED <<day, session, inMemory, recorded, overlapped>>
  BY DEF FlushWrites, FlushHas
<1>3. /\ flush' \in [Flushes -> FlushRecord]
      /\ flush'[f].left = rest
      /\ \A x \in Flushes \ {f} : flush'[x] = flush[x]
      /\ \A x \in Flushes : /\ flush'[x].date = flush[x].date
                            /\ flush'[x].stats = flush[x].stats
                            /\ flush'[x].left \subseteq flush[x].left
  BY <1>1, <1>2, FlushLess
<1>4. /\ dg \in DayGroups /\ flush[f].date \in 1..day /\ flush[f].stats[h] \in Nat
      /\ dg[1] = flush[f].date /\ day \in Nat
  BY <1>1, <1>2, DaysSoFar, DayGroupsAre DEF Sound, TotalTypes, FlushRecord
<1> DEFINE n == flush[f].stats[h]
<1>5. /\ n \in Nat /\ n <= recorded[dg] /\ (flush[f].date = day => n <= inMemory[<<day, h>>])
      /\ writer[dg] = session => overlapped \/ daily[dg] <= n
  BY <1>1, <1>2, <1>4 DEF Sound, Growing
<1>6. daily'[dg] = n /\ writer'[dg] = session
        /\ \A x \in DayGroups \ {dg} : daily'[x] = daily[x] /\ writer'[x] = writer[x]
  BY <1>1, <1>2, <1>4 DEF TotalTypes
<1>7. TotalTypes'
  <2>1. daily' \in [DayGroups -> Nat \cup {NoRow}] /\ writer' \in [DayGroups -> Nat]
    BY <1>1, <1>2, <1>4 DEF TotalTypes
  <2> QED
    BY <1>1, <1>2, <1>3, <2>1 DEF TotalTypes
<1>8. \A x \in DayGroups : daily[x] \in Int /\ inMemory[x] \in Nat
  BY <1>1 DEF TotalTypes, NoRow
<1>9. ASSUME NEW x \in DayGroups, daily'[x] < daily[x]
      PROVE  overlapped \/ writer[x] # session
  <2>1. x = dg
    BY <1>6, <1>8, <1>9
  <2> QED
    BY <1>4, <1>5, <1>6, <1>8, <1>9, <2>1
<1>10. \A x \in Flushes : \A g \in flush'[x].left :
         g \in Groups /\ g \in flush[x].left /\ flush[x].date \in 1..day /\ flush[x].date \in Nat
  BY <1>1, <1>3, <1>4, DaysSoFar DEF Sound, TotalTypes, FlushRecord
<1>11. ASSUME NEW x \in Flushes, NEW g \in flush'[x].left, x # f
       PROVE  overlapped
  BY <1>1, <1>2, <1>3, <1>10, <1>11 DEF OneAtATime, Flushing
<1>12. \A x \in DayGroups : daily'[x] <= recorded[x] /\ writer'[x] <= session
                            /\ (daily'[x] # NoRow => x[1] <= day)
  <2> SUFFICES ASSUME NEW x \in DayGroups
               PROVE  daily'[x] <= recorded[x] /\ writer'[x] <= session
                            /\ (daily'[x] # NoRow => x[1] <= day)
    OBVIOUS
  <2>1. CASE x = dg
    BY <1>1, <1>4, <1>5, <1>6, <2>1 DEF TotalTypes
  <2>2. CASE x # dg
    BY <1>1, <1>6, <2>2 DEF Sound
  <2> QED
    BY <2>1, <2>2
<1>13. Sound'
  BY <1>1, <1>2, <1>3, <1>10, <1>12 DEF Sound
<1>14. OneAtATime'
  BY <1>1, <1>2, <1>3 DEF OneAtATime, Flushing
<1>15. Growing'
  <2>1. ASSUME NEW g \in Groups, writer'[<<day, g>>] = session, ~overlapped
        PROVE  daily'[<<day, g>>] <= inMemory[<<day, g>>]
    <3>1. <<day, g>> \in DayGroups
      BY <1>1, DayGroupsAre DEF TotalTypes
    <3>2. CASE <<day, g>> = dg
      <4>1. g = h /\ flush[f].date = day
        BY <3>2
      <4> QED
        BY <1>5, <1>6, <3>2, <4>1
    <3>3. CASE <<day, g>> # dg
      BY <1>1, <1>6, <2>1, <3>1, <3>3 DEF Growing
    <3> QED
      BY <3>2, <3>3
  <2>2. ASSUME NEW x \in Flushes, NEW g \in flush'[x].left,
               writer'[<<flush[x].date, g>>] = session, ~overlapped
        PROVE  daily'[<<flush[x].date, g>>] <= flush[x].stats[g]
    <3>1. x = f
      BY <1>11, <2>2
    <3>2. g # h /\ <<flush[x].date, g>> # dg
      BY <1>3, <2>2, <3>1
    <3>3. <<flush[x].date, g>> \in DayGroups
      BY <1>1, <1>10, <2>2, DaysSoFar, DayGroupsAre
    <3> QED
      BY <1>1, <1>6, <1>10, <2>2, <3>2, <3>3 DEF Growing
  <2> QED
    BY <1>2, <1>3, <2>1, <2>2 DEF Growing
<1> QED
  BY <1>7, <1>9, <1>13, <1>14, <1>15 DEF TotalInv

LEMMA FlushFailed ==
  ASSUME TotalInv, NEW f \in Flushes, FlushFails(f)
  PROVE  TotalInv'
<1>1. TotalTypes /\ Sound /\ OneAtATime /\ Growing
  BY DEF TotalInv
<1>2. /\ flush' = FlushHas(f, {})
      /\ UNCHANGED <<day, session, inMemory, daily, writer, recorded, overlapped>>
  BY DEF FlushFails, FlushHas
<1>3. /\ flush' \in [Flushes -> FlushRecord]
      /\ \A x \in Flushes : /\ flush'[x].date = flush[x].date
                            /\ flush'[x].stats = flush[x].stats
                            /\ flush'[x].left \subseteq flush[x].left
  BY <1>1, <1>2, FlushLess
<1>4. TotalTypes'
  BY <1>1, <1>2, <1>3 DEF TotalTypes
<1>5. Sound'
  BY <1>1, <1>2, <1>3 DEF Sound
<1>6. OneAtATime'
  BY <1>1, <1>2, <1>3 DEF OneAtATime, Flushing
<1>7. Growing'
  BY <1>1, <1>2, <1>3 DEF Growing
<1> QED
  BY <1>4, <1>5, <1>6, <1>7 DEF TotalInv

LEMMA Pruned ==
  ASSUME TotalInv, prune
  PROVE  TotalInv'
<1>1. TotalTypes /\ Sound /\ OneAtATime /\ Growing
  BY DEF TotalInv
<1>2. inMemory' = [dg \in DayGroups |-> IF dg[1] < day - TtlDays THEN 0 ELSE inMemory[dg]]
        /\ UNCHANGED <<day, session, daily, flush, writer, recorded, overlapped>>
  BY DEF prune
<1>3. inMemory' \in [DayGroups -> Nat] /\ \A dg \in DayGroups :
        inMemory'[dg] = 0 \/ inMemory'[dg] = inMemory[dg]
  BY <1>1, <1>2 DEF TotalTypes
<1>4. \A g \in Groups : <<day, g>> \in DayGroups /\ inMemory'[<<day, g>>] = inMemory[<<day, g>>]
  <2> SUFFICES ASSUME NEW g \in Groups
               PROVE  <<day, g>> \in DayGroups /\ inMemory'[<<day, g>>] = inMemory[<<day, g>>]
    OBVIOUS
  <2> DEFINE dg == <<day, g>>
  <2>1. dg \in DayGroups /\ dg[1] = day /\ day \in Nat
    BY <1>1, DayGroupsAre, AnalyticsAssumption DEF TotalTypes
  <2> QED
    BY <1>2, <2>1, AnalyticsAssumption
<1>5. TotalTypes'
  BY <1>1, <1>2, <1>3 DEF TotalTypes
<1>6. \A dg \in DayGroups : inMemory'[dg] <= recorded[dg]
  BY <1>1, <1>3 DEF TotalTypes, Sound
<1>7. Sound'
  <2>1. \A f \in Flushes : \A g \in flush[f].left : g \in Groups
    BY <1>1 DEF TotalTypes, FlushRecord
  <2> QED
    BY <1>1, <1>2, <1>4, <1>6, <2>1 DEF Sound
<1>8. OneAtATime'
  BY <1>1, <1>2 DEF OneAtATime, Flushing
<1>9. Growing'
  BY <1>1, <1>2, <1>4 DEF Growing
<1> QED
  BY <1>5, <1>7, <1>8, <1>9 DEF TotalInv

\* A row of a day that has not come is not there, so the day starts from nothing.
LEMMA DayPasses ==
  ASSUME TotalInv, NextDay
  PROVE  TotalInv'
<1>1. TotalTypes /\ Sound /\ OneAtATime /\ Growing
  BY DEF TotalInv
<1>2. /\ day < Days /\ day' = day + 1
      /\ UNCHANGED <<session, inMemory, daily, flush, writer, recorded, overlapped>>
  BY DEF NextDay
<1>3. day \in Nat /\ day' \in Nat /\ day' \in 1..Days /\ 1..day \subseteq 1..day'
  BY <1>1, <1>2, AnalyticsAssumption DEF TotalTypes
<1>4. TotalTypes'
  BY <1>1, <1>2, <1>3 DEF TotalTypes
<1>5. \A dg \in DayGroups : dg[1] \in Nat /\ (daily[dg] # NoRow => dg[1] <= day /\ dg[1] <= day')
  BY <1>1, <1>2, <1>3, DayGroupsAre DEF Sound
<1>6. \A f \in Flushes : flush[f].left # {} => flush[f].date \in 1..day' /\ flush[f].date # day'
  BY <1>1, <1>2, <1>3 DEF Sound
<1>7. Sound'
  BY <1>1, <1>2, <1>5, <1>6 DEF Sound
<1>8. OneAtATime'
  BY <1>1, <1>2 DEF OneAtATime, Flushing
<1>9. Growing'
  <2>1. ASSUME NEW g \in Groups
        PROVE  daily[<<day', g>>] <= inMemory[<<day', g>>]
    <3> DEFINE dg == <<day', g>>
    <3>1. dg \in DayGroups /\ dg[1] = day'
      BY <1>3, DayGroupsAre
    <3>2. daily[dg] = NoRow
      BY <1>2, <1>3, <1>5, <3>1
    <3>3. inMemory[dg] \in Nat
      BY <1>1, <3>1 DEF TotalTypes
    <3> QED
      BY <3>2, <3>3 DEF NoRow
  <2> QED
    BY <1>1, <1>2, <2>1 DEF Growing
<1> QED
  BY <1>4, <1>7, <1>8, <1>9 DEF TotalInv

\* No row is the new session's yet.
LEMMA CountsLost ==
  ASSUME TotalInv, AnalyticsRestart
  PROVE  TotalInv'
<1>1. TotalTypes /\ Sound /\ OneAtATime /\ Growing
  BY DEF TotalInv
<1>2. /\ session' = session + 1 /\ inMemory' = Zero /\ flush' = [f \in Flushes |-> NoFlush]
      /\ UNCHANGED <<day, daily, writer, recorded, overlapped>>
  BY DEF AnalyticsRestart
<1>3. session' \in Nat /\ Zero \in [DayGroups -> Nat] /\ \A dg \in DayGroups : Zero[dg] = 0
  BY <1>1, <1>2 DEF TotalTypes, Zero
<1>4. NoFlush \in FlushRecord /\ NoFlush.left = {}
  BY DEF NoFlush, FlushRecord
<1>5. flush' \in [Flushes -> FlushRecord] /\ \A f \in Flushes : flush'[f].left = {}
  BY <1>2, <1>4
<1>6. TotalTypes'
  BY <1>1, <1>2, <1>3, <1>5 DEF TotalTypes
<1>7. \A dg \in DayGroups : writer[dg] <= session' /\ writer[dg] # session' /\ 0 <= recorded[dg]
  BY <1>1, <1>2 DEF TotalTypes, Sound
<1>8. Sound'
  BY <1>1, <1>2, <1>3, <1>5, <1>7 DEF Sound
<1>9. OneAtATime'
  BY <1>5 DEF OneAtATime, Flushing
<1>10. Growing'
  <2>1. \A g \in Groups : <<day, g>> \in DayGroups
    BY <1>1, DayGroupsAre DEF TotalTypes
  <2> QED
    BY <1>2, <1>5, <1>7, <2>1 DEF Growing
<1> QED
  BY <1>6, <1>8, <1>9, <1>10 DEF TotalInv

\* What is reported of a day is a row or a count, and neither exceeds the record.
LEMMA NeverTooMany ==
  ASSUME TotalInv
  PROVE  \A dg \in DayGroups : getDailyStatsAsync(dg[1])[dg[2]] <= recorded[dg]
<1> SUFFICES ASSUME NEW dg \in DayGroups
             PROVE  getDailyStatsAsync(dg[1])[dg[2]] <= recorded[dg]
  OBVIOUS
<1>1. dg[2] \in Groups /\ dg = <<dg[1], dg[2]>>
  BY DayGroupsAre
<1>2. getDailyStatsAsync(dg[1])[dg[2]] \in {daily[dg], inMemory[dg]}
  BY <1>1 DEF getDailyStatsAsync
<1> QED
  BY <1>2 DEF TotalInv, Sound

LEMMA TotalsStart == AnalyticsInit => TotalInv
<1> SUFFICES ASSUME AnalyticsInit
             PROVE  TotalInv
  OBVIOUS
<1>1. Zero \in [DayGroups -> Nat] /\ \A dg \in DayGroups : Zero[dg] = 0
  BY DEF Zero
<1>2. NoFlush \in FlushRecord /\ NoFlush.left = {}
  BY DEF NoFlush, FlushRecord
<1>3. daily \in [DayGroups -> Nat \cup {NoRow}] /\ \A dg \in DayGroups : daily[dg] = NoRow
  BY DEF AnalyticsInit
<1>4. flush \in [Flushes -> FlushRecord] /\ \A f \in Flushes : flush[f].left = {}
  BY <1>2 DEF AnalyticsInit
<1>5. /\ day = 1 /\ session = 0 /\ inMemory = Zero /\ recorded = Zero /\ writer = Zero
      /\ overlapped = FALSE
  BY DEF AnalyticsInit
<1>6. 1 \in 1..Days
  BY AnalyticsAssumption
<1>7. TotalTypes
  BY <1>1, <1>3, <1>4, <1>5, <1>6 DEF TotalTypes
<1>8. Sound
  BY <1>1, <1>3, <1>4, <1>5 DEF Sound, NoRow
<1>9. OneAtATime
  BY <1>4 DEF OneAtATime, Flushing
<1>10. Growing
  <2>1. \A g \in Groups : <<day, g>> \in DayGroups
    BY <1>5, <1>6, DayGroupsAre
  <2> QED
    BY <1>1, <1>3, <1>4, <1>5, <2>1 DEF Growing, NoRow
<1> QED
  BY <1>7, <1>8, <1>9, <1>10 DEF TotalInv

LEMMA TotalsStep ==
  ASSUME TotalInv, AnalyticsNext
  PROVE  /\ TotalInv'
         /\ \A dg \in DayGroups : daily'[dg] < daily[dg] => overlapped \/ writer[dg] # session
<1>1. ASSUME daily' = daily
      PROVE  \A dg \in DayGroups : ~(daily'[dg] < daily[dg])
  <2>1. \A dg \in DayGroups : daily[dg] \in Int
    BY DEF TotalInv, TotalTypes, NoRow
  <2> QED
    BY <1>1, <2>1
<1>2. CASE NextDay
  BY <1>1, <1>2, DayPasses DEF NextDay
<1>3. CASE AnalyticsRestart
  BY <1>1, <1>3, CountsLost DEF AnalyticsRestart
<1>4. CASE prune
  BY <1>1, <1>4, Pruned DEF prune
<1>5. ASSUME NEW g \in Groups, record(g)
      PROVE  TotalInv' /\ daily' = daily
  BY <1>5, EventRecorded DEF record
<1>6. ASSUME NEW f \in Flushes, FlushStarts(f)
      PROVE  TotalInv' /\ daily' = daily
  BY <1>6, FlushStarted DEF FlushStarts
<1>7. ASSUME NEW f \in Flushes, FlushFails(f)
      PROVE  TotalInv' /\ daily' = daily
  BY <1>7, FlushFailed DEF FlushFails
<1> QED
  BY <1>1, <1>2, <1>3, <1>4, <1>5, <1>6, <1>7, RowWritten DEF AnalyticsNext

(* For every number of groups, days, flushes and sessions: a day is never  *)
(* reported with more events than were recorded on it, and a row shrinks   *)
(* only by a later session's flush or by one that overlapped another       *)
(* (flushDailyStats).                                                      *)
THEOREM TotalsNeverInflate == AnalyticsSpec => DailyTotals
<1>1. AnalyticsInit => TotalInv
  BY TotalsStart
<1>2. TotalInv /\ [AnalyticsNext]_analyticsVars => TotalInv'
  <2>1. TotalInv /\ UNCHANGED analyticsVars => TotalInv'
    BY DEF analyticsVars, TotalInv, TotalTypes, Sound, OneAtATime, Growing, Flushing
  <2> QED
    BY <2>1, TotalsStep
<1>3. TotalInv /\ TotalInv' /\ [AnalyticsNext]_analyticsVars =>
        [\A dg \in DayGroups :
           /\ (getDailyStatsAsync(dg[1])[dg[2]] <= recorded[dg])'
           /\ daily'[dg] < daily[dg] => overlapped \/ writer[dg] # session]_analyticsVars
  <2>1. TotalInv' => (\A dg \in DayGroups : getDailyStatsAsync(dg[1])[dg[2]] <= recorded[dg])'
    BY NeverTooMany, PTL
  <2> QED
    BY <2>1, TotalsStep
<1> QED
  BY <1>1, <1>2, <1>3, PTL DEF AnalyticsSpec, DailyTotals

-----------------------------------------------------------------------------
(* The relay.  A client that is kept and has not answered its last ping    *)
(* has the timer of that ping, and no older one, before it; one that has,  *)
(* was heard since the last heartbeat.                                     *)

Moments == SUBSET Nat
ClientRecord ==
  [socket : {"new", "open", "closing", "closed"}, mapped : BOOLEAN, authenticated : BOOLEAN,
   alive : BOOLEAN, authTimer : Moments, pongTimers : Moments,
   opened : Nat, pinged : Nat, heard : Nat, lost : BOOLEAN]

\* s at the time at, when the next heartbeat is at next.
Watched(s, at, next) ==
  /\ s.heard <= at
  /\ \A t \in s.pongTimers : at <= t
  /\ s.mapped =>
       /\ ~s.authenticated => at <= s.opened + AuthTimeout /\ s.opened + AuthTimeout \in s.authTimer
       /\ \A t \in s.pongTimers : t = s.pinged + PongTimeout /\ s.pinged + HeartbeatInterval <= next
       /\ s.authenticated /\ s.alive => next <= s.heard + HeartbeatInterval
       /\ ~s.alive => /\ s.authenticated /\ s.heard <= s.pinged
                      /\ s.pinged + PongTimeout \in s.pongTimers
                      /\ next = s.pinged + HeartbeatInterval
                      /\ s.pinged <= s.heard + HeartbeatInterval

\* The next heartbeat of a client that is kept is at most one interval away.
Soon(s, at, next) == s.mapped => next <= at + HeartbeatInterval

RelayInv ==
  /\ instant \in Nat /\ heartbeat \in Nat
  /\ relay = "on" => instant <= heartbeat /\ heartbeat <= instant + HeartbeatInterval
  /\ client \in [Clients -> ClientRecord]
  /\ \A c \in Clients : Watched(client[c], instant, heartbeat)
  /\ \A c \in Clients : client[c].mapped => relay = "on"

\* A client that was given up: only what was to come of its timers is left.
GivenUp(s, new) ==
  /\ new \in ClientRecord /\ ~new.mapped
  /\ new.pongTimers \subseteq s.pongTimers /\ new.heard = s.heard

LEMMA GivingUp ==
  ASSUME NEW s \in ClientRecord
  PROVE  /\ GivenUp(s, Dropped(s)) /\ Dropped(s).lost = s.lost
         /\ GivenUp(s, Lost(s))
         /\ GivenUp(s, [Dropped(s) EXCEPT !.authTimer = {}])
         /\ [Dropped(s) EXCEPT !.authTimer = {}].lost = s.lost
         /\ GivenUp(s, [s EXCEPT !.socket = "closed", !.mapped = FALSE, !.authTimer = {}])
         /\ [s EXCEPT !.socket = "closed", !.mapped = FALSE, !.authTimer = {}].lost = s.lost
         /\ GivenUp(s, [s EXCEPT !.socket = "closing", !.mapped = FALSE])
         /\ [s EXCEPT !.socket = "closing", !.mapped = FALSE].lost = s.lost
<1> DEFINE M == Moments
           K == {"new", "open", "closing", "closed"}
           B == BOOLEAN
           R == [socket : K, mapped : B, authenticated : B,
                 alive : B, authTimer : M, pongTimers : M,
                 opened : Nat, pinged : Nat, heard : Nat, lost : B]
<1>1. s \in R /\ R = ClientRecord /\ {} \in M /\ "closing" \in K /\ "closed" \in K
        /\ FALSE \in B /\ TRUE \in B
  BY DEF ClientRecord, Moments
<1> HIDE DEF M, K, B
<1> DEFINE d == [s EXCEPT !.socket = "closing", !.mapped = FALSE]
<1>2. d \in R /\ d.mapped = FALSE /\ d.pongTimers = s.pongTimers /\ d.heard = s.heard
        /\ d.lost = s.lost /\ d = Dropped(s)
  BY <1>1 DEF Dropped
<1> DEFINE e == [s EXCEPT !.socket = "closed", !.mapped = FALSE, !.authTimer = {}]
<1>3. e \in R /\ e.mapped = FALSE /\ e.pongTimers = s.pongTimers /\ e.heard = s.heard
        /\ e.lost = s.lost
  BY <1>1
<1> HIDE DEF d, e
<1> DEFINE f == [d EXCEPT !.lost = TRUE]
           g == [d EXCEPT !.authTimer = {}]
<1>4. f \in R /\ f.mapped = FALSE /\ f.pongTimers = s.pongTimers /\ f.heard = s.heard
  BY <1>1, <1>2
<1>5. g \in R /\ g.mapped = FALSE /\ g.pongTimers = s.pongTimers /\ g.heard = s.heard
        /\ g.lost = s.lost
  BY <1>1, <1>2
<1>6. f = Lost(s) /\ g = [Dropped(s) EXCEPT !.authTimer = {}]
  BY <1>2 DEF Lost
<1> HIDE DEF f, g, R
<1>7. /\ GivenUp(s, d) /\ GivenUp(s, e) /\ GivenUp(s, f) /\ GivenUp(s, g)
  BY <1>1, <1>2, <1>3, <1>4, <1>5 DEF GivenUp
<1> QED
  BY <1>2, <1>3, <1>5, <1>6, <1>7 DEF d, e, Dropped

LEMMA UnwatchedStays ==
  ASSUME NEW s \in ClientRecord, NEW new, NEW at \in Nat, NEW next \in Nat, NEW next2 \in Nat,
         Watched(s, at, next), GivenUp(s, new)
  PROVE  Watched(new, at, next2)
BY DEF Watched, GivenUp

\* A client is connected, authenticated, heard; its timers run out; it is asked.
LEMMA Connecting ==
  ASSUME NEW at \in Nat, NEW next \in Nat, NEW new,
         new = [Fresh EXCEPT !.socket = "open", !.mapped = TRUE, !.opened = at,
                             !.authTimer = {at + AuthTimeout}]
  PROVE  new \in ClientRecord /\ Watched(new, at, next) /\ ~new.lost /\ new.mapped
<1> DEFINE s == Fresh
           M == Moments
           K == {"new", "open", "closing", "closed"}
           B == BOOLEAN
           R == [socket : K, mapped : B, authenticated : B,
                 alive : B, authTimer : M, pongTimers : M,
                 opened : Nat, pinged : Nat, heard : Nat, lost : B]
           timer == {at + AuthTimeout}
<1>1. s \in R /\ R = ClientRecord /\ timer \in M /\ "open" \in K /\ TRUE \in B
  BY RelayAssumption DEF ClientRecord, Moments, Fresh
<1>2. /\ s.authenticated = FALSE /\ s.alive = TRUE /\ s.pongTimers = {}
      /\ s.heard = 0 /\ s.lost = FALSE
  BY DEF Fresh
<1> HIDE DEF s, M, K, B, timer
<1>3. new = [s EXCEPT !.socket = "open", !.mapped = TRUE, !.opened = at, !.authTimer = timer]
  BY DEF s, timer
<1>4. /\ new \in R /\ new.mapped = TRUE /\ new.opened = at /\ new.authTimer = timer
      /\ new.authenticated = s.authenticated /\ new.alive = s.alive
      /\ new.pongTimers = s.pongTimers /\ new.heard = s.heard /\ new.lost = s.lost
  BY <1>1, <1>3
<1>5. Watched(new, at, next)
  BY <1>2, <1>4, RelayAssumption DEF Watched, timer
<1> QED
  BY <1>1, <1>2, <1>4, <1>5

Authenticated(s, at) == [s EXCEPT !.authenticated = TRUE, !.authTimer = {},
                                  !.heard = IF s.authenticated THEN @ ELSE at]
Heard(s, at) == [s EXCEPT !.alive = TRUE, !.heard = at]

LEMMA Authenticating ==
  ASSUME NEW at \in Nat, NEW next \in Nat, NEW s \in ClientRecord, NEW new,
         Watched(s, at, next), Soon(s, at, next), new = Authenticated(s, at)
  PROVE  new \in ClientRecord /\ Watched(new, at, next) /\ new.lost = s.lost
         /\ new.mapped = s.mapped
<1> DEFINE M == Moments
           K == {"new", "open", "closing", "closed"}
           B == BOOLEAN
           R == [socket : K, mapped : B, authenticated : B,
                 alive : B, authTimer : M, pongTimers : M,
                 opened : Nat, pinged : Nat, heard : Nat, lost : B]
           heard == IF s.authenticated THEN s.heard ELSE at
<1>1. s \in R /\ R = ClientRecord /\ {} \in M /\ heard \in Nat /\ TRUE \in B
  BY DEF ClientRecord, Moments
<1>2. new = [s EXCEPT !.authenticated = TRUE, !.authTimer = {}, !.heard = heard]
  BY DEF Authenticated
<1>3. s.authenticated => heard = s.heard
  OBVIOUS
<1>4. ~s.authenticated => heard = at
  OBVIOUS
<1> HIDE DEF M, K, B, heard
<1>5. /\ new \in R /\ new.mapped = s.mapped /\ new.authenticated = TRUE /\ new.alive = s.alive
      /\ new.pinged = s.pinged /\ new.pongTimers = s.pongTimers /\ new.heard = heard
      /\ new.lost = s.lost
  BY <1>1, <1>2
<1>6. new.heard \in Nat /\ new.pinged \in Nat /\ \A t \in new.pongTimers : t \in Nat
  BY <1>1, <1>5 DEF R, M, Moments
<1> HIDE DEF R
<1>7. Watched(new, at, next)
  <2>1. CASE s.authenticated
    BY <1>3, <1>5, <2>1 DEF Watched
  <2>2. CASE ~s.authenticated
    <3>1. new.heard = at /\ (s.mapped => s.alive)
      BY <1>4, <1>5, <2>2 DEF Watched
    <3> QED
      BY <1>5, <2>2, <3>1 DEF Watched, Soon
  <2> QED
    BY <2>1, <2>2
<1> QED
  BY <1>1, <1>5, <1>7

LEMMA Hearing ==
  ASSUME NEW at \in Nat, NEW next \in Nat, NEW s \in ClientRecord, NEW new,
         Watched(s, at, next), Soon(s, at, next), new = Heard(s, at)
  PROVE  new \in ClientRecord /\ Watched(new, at, next) /\ new.lost = s.lost
         /\ new.mapped = s.mapped
<1> DEFINE M == Moments
           K == {"new", "open", "closing", "closed"}
           B == BOOLEAN
           R == [socket : K, mapped : B, authenticated : B,
                 alive : B, authTimer : M, pongTimers : M,
                 opened : Nat, pinged : Nat, heard : Nat, lost : B]
<1>1. s \in R /\ R = ClientRecord /\ TRUE \in B
  BY DEF ClientRecord
<1> HIDE DEF M, K, B
<1>2. /\ new \in R /\ new.mapped = s.mapped /\ new.authenticated = s.authenticated
      /\ new.alive = TRUE /\ new.opened = s.opened /\ new.authTimer = s.authTimer
      /\ new.pinged = s.pinged /\ new.pongTimers = s.pongTimers /\ new.heard = at
      /\ new.lost = s.lost
  BY <1>1 DEF Heard
<1> HIDE DEF R
<1>3. Watched(new, at, next)
  BY <1>2 DEF Watched, Soon
<1> QED
  BY <1>1, <1>2, <1>3

\* The deadline passes for a client that has authenticated.
LEMMA DeadlineOver ==
  ASSUME NEW at \in Nat, NEW next \in Nat, NEW s \in ClientRecord, NEW new,
         Watched(s, at, next), new = [s EXCEPT !.authTimer = {}]
  PROVE  /\ new \in ClientRecord /\ new.lost = s.lost
         /\ new.authenticated = s.authenticated /\ new.mapped = s.mapped
         /\ s.authenticated => Watched(new, at, next)
         /\ GivenUp(s, Dropped(new)) /\ Dropped(new).lost = s.lost
<1> DEFINE M == Moments
           K == {"new", "open", "closing", "closed"}
           B == BOOLEAN
           R == [socket : K, mapped : B, authenticated : B,
                 alive : B, authTimer : M, pongTimers : M,
                 opened : Nat, pinged : Nat, heard : Nat, lost : B]
<1>1. s \in R /\ R = ClientRecord /\ {} \in M
  BY DEF ClientRecord, Moments
<1> HIDE DEF M, K, B
<1>2. /\ new \in R /\ new.mapped = s.mapped /\ new.authenticated = s.authenticated
      /\ new.alive = s.alive /\ new.opened = s.opened
      /\ new.pinged = s.pinged /\ new.pongTimers = s.pongTimers /\ new.heard = s.heard
      /\ new.lost = s.lost
  BY <1>1
<1> HIDE DEF R
<1>3. s.authenticated => Watched(new, at, next)
  BY <1>2 DEF Watched
<1>4. GivenUp(new, Dropped(new)) /\ Dropped(new).lost = new.lost
  BY <1>1, <1>2, GivingUp
<1> QED
  BY <1>1, <1>2, <1>3, <1>4 DEF GivenUp

\* The timer of a ping runs out: it was the last ping's, and time enough.
LEMMA PongOver ==
  ASSUME NEW at \in Nat, NEW next \in Nat, NEW s \in ClientRecord, NEW new,
         Watched(s, at, next), at \in s.pongTimers,
         new = [s EXCEPT !.pongTimers = @ \ {at}]
  PROVE  /\ new \in ClientRecord /\ new.lost = s.lost
         /\ new.alive = s.alive /\ new.mapped = s.mapped
         /\ s.alive \/ ~s.mapped => Watched(new, at, next)
         /\ GivenUp(s, Lost(new))
         /\ s.mapped => at = s.pinged + PongTimeout
<1> DEFINE M == Moments
           K == {"new", "open", "closing", "closed"}
           B == BOOLEAN
           R == [socket : K, mapped : B, authenticated : B,
                 alive : B, authTimer : M, pongTimers : M,
                 opened : Nat, pinged : Nat, heard : Nat, lost : B]
           rest == s.pongTimers \ {at}
<1>1. s \in R /\ R = ClientRecord /\ rest \in M
  BY DEF ClientRecord, Moments
<1>2. new = [s EXCEPT !.pongTimers = rest]
  OBVIOUS
<1>3. rest \subseteq s.pongTimers
  OBVIOUS
<1> HIDE DEF M, K, B, rest
<1>4. /\ new \in R /\ new.mapped = s.mapped /\ new.authenticated = s.authenticated
      /\ new.alive = s.alive /\ new.opened = s.opened /\ new.authTimer = s.authTimer
      /\ new.pinged = s.pinged /\ new.pongTimers = rest /\ new.heard = s.heard
      /\ new.lost = s.lost
  BY <1>1, <1>2
<1> HIDE DEF R
<1>5. s.alive \/ ~s.mapped => Watched(new, at, next)
  BY <1>3, <1>4 DEF Watched
<1>6. GivenUp(new, Lost(new))
  BY <1>1, <1>4, GivingUp
<1>7. s.mapped => at = s.pinged + PongTimeout
  BY DEF Watched
<1> QED
  BY <1>1, <1>3, <1>4, <1>5, <1>6, <1>7 DEF GivenUp

\* The heartbeat: whoever has not answered had longer than PongTimeout, and who
\* has is asked again, no timer of an older ping being left.
LEMMA Beating ==
  ASSUME NEW s \in ClientRecord, NEW new, instant \in Nat, Watched(s, instant, instant),
         new = Beats(s)
  PROVE  /\ new \in ClientRecord
         /\ Watched(new, instant, instant + HeartbeatInterval)
         /\ new.mapped => s.mapped
         /\ new.lost /\ ~s.lost =>
              s.heard <= s.pinged /\ instant >= s.pinged + PongTimeout
<1> DEFINE M == Moments
           K == {"new", "open", "closing", "closed"}
           B == BOOLEAN
           R == [socket : K, mapped : B, authenticated : B,
                 alive : B, authTimer : M, pongTimers : M,
                 opened : Nat, pinged : Nat, heard : Nat, lost : B]
           timers == s.pongTimers \cup {instant + PongTimeout}
<1>1. /\ s \in R /\ R = ClientRecord /\ FALSE \in B
      /\ instant + PongTimeout \in Nat /\ timers \in M
      /\ s.heard \in Nat /\ s.pinged \in Nat /\ s.opened \in Nat
      /\ \A t \in s.pongTimers : t \in Nat
  BY RelayAssumption DEF ClientRecord, Moments
<1>2. /\ HeartbeatInterval \in Nat /\ PongTimeout \in Nat /\ PongTimeout < HeartbeatInterval
      /\ AuthTimeout \in Nat
  BY RelayAssumption
<1>3. CASE ~(s.mapped /\ s.authenticated)
  <2>1. new = s
    BY <1>3 DEF Beats
  <2>2. s.mapped => s.alive
    BY <1>3 DEF Watched
  <2>3. Watched(s, instant, instant + HeartbeatInterval)
    <3>1. \A t \in s.pongTimers : s.mapped =>
            s.pinged + HeartbeatInterval <= instant + HeartbeatInterval
      BY <1>1, <1>2 DEF Watched
    <3> QED
      BY <1>3, <2>2, <3>1 DEF Watched
  <2> QED
    BY <2>1, <2>3
<1>4. CASE s.mapped /\ s.authenticated /\ ~s.alive
  <2>1. new = Lost(s)
    BY <1>4 DEF Beats
  <2>2. GivenUp(s, Lost(s))
    BY GivingUp
  <2>3. Watched(new, instant, instant + HeartbeatInterval)
    BY <1>2, <2>1, <2>2, UnwatchedStays
  <2>4. s.heard <= s.pinged /\ instant = s.pinged + HeartbeatInterval
    BY <1>4 DEF Watched
  <2>5. instant >= s.pinged + PongTimeout
    BY <1>1, <1>2, <2>4
  <2> QED
    BY <2>1, <2>2, <2>3, <2>4, <2>5 DEF GivenUp
<1>5. CASE s.mapped /\ s.authenticated /\ s.alive
  <2>1. new = [s EXCEPT !.alive = FALSE, !.pinged = instant, !.pongTimers = timers]
    BY <1>5 DEF Beats
  <2>2. s.pongTimers = {}
    <3> SUFFICES ASSUME NEW t \in s.pongTimers
                 PROVE  FALSE
      OBVIOUS
    <3>1. t = s.pinged + PongTimeout /\ s.pinged + HeartbeatInterval <= instant /\ instant <= t
      BY <1>5 DEF Watched
    <3> QED
      BY <1>1, <1>2, <3>1
  <2>3. \A t : t \in timers <=> t = instant + PongTimeout
    BY <2>2
  <2>4. s.heard <= instant /\ instant <= s.heard + HeartbeatInterval
    BY <1>5 DEF Watched
  <2> HIDE DEF M, K, B, timers
  <2>5. /\ new \in R /\ new.mapped = s.mapped /\ new.authenticated = s.authenticated
        /\ new.alive = FALSE /\ new.pinged = instant /\ new.pongTimers = timers
        /\ new.heard = s.heard /\ new.lost = s.lost
    BY <1>1, <2>1
  <2> HIDE DEF R
  <2>6. Watched(new, instant, instant + HeartbeatInterval)
    BY <1>1, <1>2, <1>5, <2>3, <2>4, <2>5 DEF Watched
  <2> QED
    BY <1>1, <1>5, <2>5, <2>6
<1> QED
  BY <1>3, <1>4, <1>5

\* What became of a client in one step that ends at time at.
Justly(s, new, at) ==
  new.lost /\ ~s.lost => s.heard <= s.pinged /\ at >= s.pinged + PongTimeout

LostJustly == \A c \in Clients : Justly(client[c], client'[c], instant)

Follows(s, new) ==
  /\ new \in ClientRecord /\ Watched(new, instant, heartbeat)
  /\ new.mapped => relay = "on"
  /\ Justly(s, new, instant)

LEMMA OneUpdated ==
  ASSUME RelayInv, NEW c \in Clients, NEW new, Update(c, new),
         Follows(client[c], new), UNCHANGED <<instant, relay, heartbeat>>
  PROVE  RelayInv' /\ LostJustly
<1>1. client \in [Clients -> ClientRecord]
  BY DEF RelayInv
<1>2. new \in ClientRecord /\ Watched(new, instant, heartbeat)
        /\ (new.mapped => relay = "on") /\ Justly(client[c], new, instant)
  BY DEF Follows
<1>3. client'[c] = new /\ \A d \in Clients \ {c} : client'[d] = client[d]
  BY <1>1 DEF Update
<1>4. client' \in [Clients -> ClientRecord]
  BY <1>1, <1>2 DEF Update
<1>5. \A d \in Clients : Watched(client'[d], instant, heartbeat)
  BY <1>2, <1>3 DEF RelayInv
<1>6. \A d \in Clients : client'[d].mapped => relay = "on"
  BY <1>2, <1>3 DEF RelayInv
<1>7. LostJustly
  <2> SUFFICES ASSUME NEW d \in Clients
               PROVE  Justly(client[d], client'[d], instant)
    BY DEF LostJustly
  <2>1. CASE d = c
    BY <1>2, <1>3, <2>1
  <2>2. CASE d # c
    BY <1>3, <2>2 DEF Justly
  <2> QED
    BY <2>1, <2>2
<1>8. \A d \in Clients : Watched(client'[d], instant', heartbeat')
  BY <1>5
<1> QED
  BY <1>4, <1>6, <1>7, <1>8 DEF RelayInv

\* A client that is given up follows, when it is not counted as lost.
LEMMA GivenUpFollows ==
  ASSUME RelayInv, NEW c \in Clients, NEW new, GivenUp(client[c], new),
         Justly(client[c], new, instant)
  PROVE  Follows(client[c], new)
<1>1. client[c] \in ClientRecord /\ Watched(client[c], instant, heartbeat)
        /\ instant \in Nat /\ heartbeat \in Nat
  BY DEF RelayInv
<1>2. Watched(new, instant, heartbeat)
  BY <1>1, UnwatchedStays
<1> QED
  BY <1>2 DEF Follows, GivenUp

\* The interval is at most HeartbeatInterval away from a client that is kept.
LEMMA KeptClient ==
  ASSUME RelayInv, NEW c \in Clients
  PROVE  /\ client[c] \in ClientRecord /\ Watched(client[c], instant, heartbeat)
         /\ instant \in Nat /\ heartbeat \in Nat
         /\ client[c].mapped =>
              relay = "on" /\ instant <= heartbeat
         /\ Soon(client[c], instant, heartbeat)
BY DEF RelayInv, Soon

LEMMA handleConnectionKeeps ==
  ASSUME RelayInv, NEW c \in Clients, handleConnection(c)
  PROVE  RelayInv' /\ LostJustly
<1> DEFINE new == [Fresh EXCEPT !.socket = "open", !.mapped = TRUE, !.opened = instant,
                                !.authTimer = {instant + AuthTimeout}]
<1>1. new \in ClientRecord /\ Watched(new, instant, heartbeat) /\ ~new.lost
  BY Connecting, KeptClient
<1>2. Update(c, new) /\ relay = "on" /\ UNCHANGED <<instant, relay, heartbeat>>
  BY DEF handleConnection
<1> HIDE DEF new
<1>3. Follows(client[c], new)
  BY <1>1, <1>2 DEF Follows, Justly
<1> QED
  BY <1>2, <1>3, OneUpdated

LEMMA handleAuthKeeps ==
  ASSUME RelayInv, NEW c \in Clients, NEW match \in BOOLEAN, handleAuth(c, match)
  PROVE  RelayInv' /\ LostJustly
<1>1. UNCHANGED <<instant, relay, heartbeat>>
  BY DEF handleAuth
<1>2. CASE match
  <2> DEFINE new == Authenticated(client[c], instant)
  <2>1. new \in ClientRecord /\ Watched(new, instant, heartbeat)
          /\ new.lost = client[c].lost /\ new.mapped = client[c].mapped
    BY Authenticating, KeptClient
  <2>2. Update(c, new)
    BY <1>2 DEF handleAuth, Authenticated
  <2> HIDE DEF new
  <2>3. Follows(client[c], new)
    BY <2>1, KeptClient DEF Follows, Justly
  <2> QED
    BY <1>1, <2>2, <2>3, OneUpdated
<1>3. CASE ~match
  <2>1. Update(c, Dropped(client[c]))
    BY <1>3 DEF handleAuth
  <2>2. GivenUp(client[c], Dropped(client[c])) /\ Dropped(client[c]).lost = client[c].lost
    BY KeptClient, GivingUp
  <2>3. Follows(client[c], Dropped(client[c]))
    BY <2>2, GivenUpFollows DEF Justly
  <2> QED
    BY <1>1, <2>1, <2>3, OneUpdated
<1> QED
  BY <1>2, <1>3

LEMMA PongKeeps ==
  ASSUME RelayInv, NEW c \in Clients, Pong(c)
  PROVE  RelayInv' /\ LostJustly
<1> DEFINE new == Heard(client[c], instant)
<1>1. new \in ClientRecord /\ Watched(new, instant, heartbeat)
        /\ new.lost = client[c].lost /\ new.mapped = client[c].mapped
  BY Hearing, KeptClient
<1>2. Update(c, new) /\ UNCHANGED <<instant, relay, heartbeat>>
  BY DEF Pong, Heard
<1> HIDE DEF new
<1>3. Follows(client[c], new)
  BY <1>1, KeptClient DEF Follows, Justly
<1> QED
  BY <1>2, <1>3, OneUpdated

LEMMA ClosingKeeps ==
  ASSUME RelayInv, NEW c \in Clients, CloseEvent(c) \/ ErrorEvent(c)
  PROVE  RelayInv' /\ LostJustly
<1> DEFINE closed == [client[c] EXCEPT !.socket = "closed", !.mapped = FALSE, !.authTimer = {}]
           closing == [client[c] EXCEPT !.socket = "closing", !.mapped = FALSE]
<1>1. /\ GivenUp(client[c], closed) /\ closed.lost = client[c].lost
      /\ GivenUp(client[c], closing) /\ closing.lost = client[c].lost
  BY KeptClient, GivingUp
<1>2. (Update(c, closed) \/ Update(c, closing)) /\ UNCHANGED <<instant, relay, heartbeat>>
  BY DEF CloseEvent, ErrorEvent
<1> HIDE DEF closed, closing
<1>3. Follows(client[c], closed) /\ Follows(client[c], closing)
  BY <1>1, GivenUpFollows DEF Justly
<1>4. CASE Update(c, closed)
  BY <1>2, <1>3, <1>4, OneUpdated
<1>5. CASE Update(c, closing)
  BY <1>2, <1>3, <1>5, OneUpdated
<1> QED
  BY <1>2, <1>4, <1>5

LEMMA AuthTimerKeeps ==
  ASSUME RelayInv, NEW c \in Clients, AuthTimerFires(c)
  PROVE  RelayInv' /\ LostJustly
<1> DEFINE fired == [client[c] EXCEPT !.authTimer = {}]
<1>1. /\ fired \in ClientRecord /\ fired.lost = client[c].lost
      /\ fired.authenticated = client[c].authenticated /\ fired.mapped = client[c].mapped
      /\ client[c].authenticated => Watched(fired, instant, heartbeat)
      /\ GivenUp(client[c], Dropped(fired)) /\ Dropped(fired).lost = client[c].lost
  BY DeadlineOver, KeptClient
<1>2. /\ Update(c, IF fired.authenticated THEN fired ELSE Dropped(fired))
      /\ UNCHANGED <<instant, relay, heartbeat>>
  BY DEF AuthTimerFires
<1> HIDE DEF fired
<1>3. CASE client[c].authenticated
  <2>1. Follows(client[c], fired)
    BY <1>1, <1>3, KeptClient DEF Follows, Justly
  <2>2. Update(c, fired)
    BY <1>1, <1>2, <1>3
  <2> QED
    BY <1>2, <2>1, <2>2, OneUpdated
<1>4. CASE ~client[c].authenticated
  <2>1. Follows(client[c], Dropped(fired))
    BY <1>1, GivenUpFollows DEF Justly
  <2>2. Update(c, Dropped(fired))
    BY <1>1, <1>2, <1>4
  <2> QED
    BY <1>2, <2>1, <2>2, OneUpdated
<1> QED
  BY <1>3, <1>4

LEMMA PongTimerKeeps ==
  ASSUME RelayInv, NEW c \in Clients, PongTimerFires(c)
  PROVE  RelayInv' /\ LostJustly
<1> DEFINE s == client[c]
           fired == [s EXCEPT !.pongTimers = @ \ {instant}]
<1>1. /\ s \in ClientRecord /\ Watched(s, instant, heartbeat) /\ instant \in Nat
      /\ heartbeat \in Nat /\ (s.mapped => relay = "on") /\ instant \in s.pongTimers
  BY KeptClient DEF PongTimerFires
<1>2. /\ Update(c, IF ~fired.alive /\ fired.mapped THEN Lost(fired) ELSE fired)
      /\ UNCHANGED <<instant, relay, heartbeat>>
  BY DEF PongTimerFires
<1> HIDE DEF s
<1>3. /\ fired \in ClientRecord /\ fired.lost = s.lost
      /\ fired.alive = s.alive /\ fired.mapped = s.mapped
      /\ s.alive \/ ~s.mapped => Watched(fired, instant, heartbeat)
      /\ GivenUp(s, Lost(fired))
      /\ s.mapped => instant = s.pinged + PongTimeout
  BY <1>1, PongOver
<1> HIDE DEF fired
<1>4. CASE ~s.alive /\ s.mapped
  <2>1. s.heard <= s.pinged /\ instant = s.pinged + PongTimeout
    BY <1>1, <1>3, <1>4 DEF Watched
  <2>2. instant >= s.pinged + PongTimeout
    BY <1>1, <2>1
  <2>3. Justly(s, Lost(fired), instant)
    BY <2>1, <2>2 DEF Justly
  <2>4. Follows(s, Lost(fired))
    BY <1>3, <2>3, GivenUpFollows DEF s
  <2>5. Update(c, Lost(fired))
    BY <1>2, <1>3, <1>4
  <2> QED
    BY <1>2, <2>4, <2>5, OneUpdated DEF s
<1>5. CASE s.alive \/ ~s.mapped
  <2>1. Follows(s, fired)
    BY <1>1, <1>3, <1>5 DEF Follows, Justly
  <2>2. Update(c, fired)
    BY <1>2, <1>3, <1>5
  <2> QED
    BY <1>2, <2>1, <2>2, OneUpdated DEF s
<1> QED
  BY <1>4, <1>5

LEMMA HeartbeatKeeps ==
  ASSUME RelayInv, HeartbeatFires
  PROVE  RelayInv' /\ LostJustly
<1>1. /\ relay = "on" /\ heartbeat = instant /\ heartbeat' = instant + HeartbeatInterval
      /\ client' = [c \in Clients |-> Beats(client[c])] /\ UNCHANGED <<instant, relay>>
      /\ instant \in Nat /\ HeartbeatInterval \in Nat
  BY RelayAssumption DEF HeartbeatFires, RelayInv
<1>2. ASSUME NEW c \in Clients
      PROVE  /\ Beats(client[c]) \in ClientRecord
             /\ Watched(Beats(client[c]), instant, heartbeat')
             /\ Justly(client[c], Beats(client[c]), instant)
  <2>1. client[c] \in ClientRecord /\ Watched(client[c], instant, instant)
    BY <1>1, KeptClient
  <2> QED
    BY <1>1, <2>1, Beating DEF Justly
<1>3. client' \in [Clients -> ClientRecord] /\ LostJustly
  BY <1>1, <1>2 DEF LostJustly
<1>4. \A c \in Clients : Watched(client'[c], instant', heartbeat')
  BY <1>1, <1>2
<1>5. instant' \in Nat /\ heartbeat' \in Nat /\ instant' <= heartbeat'
        /\ heartbeat' <= instant' + HeartbeatInterval /\ relay' = "on"
  BY <1>1
<1> QED
  BY <1>3, <1>4, <1>5 DEF RelayInv

LEMMA stopKeeps ==
  ASSUME RelayInv, stop
  PROVE  RelayInv' /\ LostJustly
<1> DEFINE gone(c) == [Dropped(client[c]) EXCEPT !.authTimer = {}]
<1>1. /\ client' = [c \in Clients |-> IF client[c].mapped THEN gone(c) ELSE client[c]]
      /\ relay' = "stopped" /\ UNCHANGED <<instant, heartbeat>>
  BY DEF stop
<1>2. ASSUME NEW c \in Clients
      PROVE  GivenUp(client[c], gone(c)) /\ gone(c).lost = client[c].lost
  BY KeptClient, GivingUp
<1> HIDE DEF gone
<1>3. ASSUME NEW c \in Clients
      PROVE  /\ client'[c] \in ClientRecord /\ ~client'[c].mapped
             /\ Watched(client'[c], instant, heartbeat)
             /\ Justly(client[c], client'[c], instant)
  <2>1. CASE client[c].mapped
    <3>1. client'[c] = gone(c)
      BY <1>1, <2>1
    <3>2. Justly(client[c], gone(c), instant)
      BY <1>2 DEF Justly
    <3>3. Follows(client[c], gone(c)) /\ ~gone(c).mapped
      BY <1>2, <3>2, GivenUpFollows DEF GivenUp
    <3> QED
      BY <3>1, <3>3 DEF Follows
  <2>2. CASE ~client[c].mapped
    <3>1. client'[c] = client[c]
      BY <1>1, <2>2
    <3> QED
      BY <2>2, <3>1, KeptClient DEF Justly
  <2> QED
    BY <2>1, <2>2
<1>4. client' \in [Clients -> ClientRecord]
  <2>1. client' = [c \in Clients |-> client'[c]]
    BY <1>1
  <2> QED
    BY <1>3, <2>1
<1>5. \A c \in Clients : Watched(client'[c], instant', heartbeat')
  BY <1>1, <1>3
<1>6. instant' \in Nat /\ heartbeat' \in Nat /\ relay' # "on"
  BY <1>1 DEF RelayInv
<1> QED
  BY <1>3, <1>4, <1>5, <1>6 DEF RelayInv, LostJustly

LEMMA startKeeps ==
  ASSUME RelayInv, start
  PROVE  RelayInv' /\ LostJustly
<1>1. /\ relay = "off" /\ heartbeat' = instant + HeartbeatInterval
      /\ UNCHANGED <<instant, client>> /\ relay' = "on"
      /\ instant \in Nat /\ HeartbeatInterval \in Nat
  BY RelayAssumption DEF start, RelayInv
<1>2. ASSUME NEW c \in Clients
      PROVE  ~client[c].mapped /\ Watched(client[c], instant, heartbeat')
  BY <1>1, KeptClient DEF Watched
<1>3. \A c \in Clients : Watched(client'[c], instant', heartbeat')
  BY <1>1, <1>2
<1>4. LostJustly
  BY <1>1 DEF LostJustly, Justly
<1>5. instant' \in Nat /\ heartbeat' \in Nat /\ instant' <= heartbeat'
        /\ heartbeat' <= instant' + HeartbeatInterval
  BY <1>1
<1> QED
  BY <1>1, <1>3, <1>4, <1>5 DEF RelayInv

\* Time goes on only when no timer is due.
LEMMA TickKeeps ==
  ASSUME RelayInv, RelayTick
  PROVE  RelayInv' /\ LostJustly
<1>1. /\ instant' = instant + 1 /\ UNCHANGED <<relay, heartbeat, client>>
      /\ instant \in Nat /\ heartbeat \in Nat /\ HeartbeatInterval \in Nat
      /\ relay = "on" => instant < heartbeat /\ heartbeat <= instant + HeartbeatInterval
  BY RelayAssumption DEF RelayTick, RelayInv
<1>2. ASSUME NEW c \in Clients
      PROVE  Watched(client[c], instant + 1, heartbeat)
  <2> DEFINE s == client[c]
             R == ClientRecord
  <2>1. /\ s \in R /\ Watched(s, instant, heartbeat)
        /\ instant \notin s.authTimer /\ instant \notin s.pongTimers
    BY KeptClient DEF RelayTick
  <2> HIDE DEF s, R
  <2>2. s.heard \in Nat /\ s.opened \in Nat /\ \A t \in s.pongTimers : t \in Nat
    BY <2>1 DEF R, ClientRecord, Moments
  <2>3. Watched(s, instant + 1, heartbeat)
    BY <1>1, <2>1, <2>2, RelayAssumption DEF Watched
  <2> QED
    BY <2>3 DEF s
<1>3. \A c \in Clients : Watched(client'[c], instant', heartbeat')
  BY <1>1, <1>2
<1>4. LostJustly
  BY <1>1 DEF LostJustly, Justly
<1>5. instant' \in Nat /\ (relay = "on" =>
        instant' <= heartbeat' /\ heartbeat' <= instant' + HeartbeatInterval)
  BY <1>1
<1> QED
  BY <1>1, <1>3, <1>4, <1>5 DEF RelayInv

LEMMA RelayStarts ==
  ASSUME RelayInit
  PROVE  RelayInv
<1>1. Fresh \in ClientRecord /\ ~Fresh.mapped /\ Fresh.heard = 0 /\ Fresh.pongTimers = {}
  BY DEF Fresh, ClientRecord, Moments
<1>2. Watched(Fresh, 0, 0)
  BY <1>1 DEF Watched
<1> QED
  BY <1>1, <1>2 DEF RelayInit, RelayInv

LEMMA RelayStep ==
  ASSUME RelayInv, [RelayNext]_relayVars
  PROVE  RelayInv' /\ (LostJustly \/ UNCHANGED relayVars)
<1>1. CASE RelayNext
  <2>1. CASE start \/ stop \/ HeartbeatFires \/ RelayTick
    BY <2>1, startKeeps, stopKeeps, HeartbeatKeeps, TickKeeps
  <2>2. ASSUME NEW c \in Clients,
               \/ handleConnection(c) \/ Pong(c) \/ CloseEvent(c) \/ ErrorEvent(c)
               \/ AuthTimerFires(c) \/ PongTimerFires(c)
               \/ \E match \in BOOLEAN : handleAuth(c, match)
        PROVE  RelayInv' /\ LostJustly
    BY <2>2, handleConnectionKeeps, PongKeeps, ClosingKeeps, AuthTimerKeeps,
       PongTimerKeeps, handleAuthKeeps
  <2> QED
    BY <1>1, <2>1, <2>2 DEF RelayNext
<1>2. CASE UNCHANGED relayVars
  BY <1>2 DEF relayVars, RelayInv
<1> QED
  BY <1>1, <1>2

LEMMA NoneKeptSilent ==
  ASSUME RelayInv
  PROVE  SilentClientsDropped
<1> SUFFICES ASSUME NEW c \in Clients, client[c].mapped
             PROVE  IF client[c].authenticated
                    THEN instant <= client[c].heard + HeartbeatInterval + PongTimeout
                    ELSE instant <= client[c].opened + AuthTimeout
  BY DEF SilentClientsDropped
<1> DEFINE s == client[c]
<1>1. /\ s \in ClientRecord /\ Watched(s, instant, heartbeat) /\ instant \in Nat
      /\ heartbeat \in Nat /\ instant <= heartbeat
  BY KeptClient
<1> HIDE DEF s
<1>2. s.heard \in Nat /\ s.opened \in Nat /\ s.pinged \in Nat
  BY <1>1 DEF ClientRecord
<1>3. PongTimeout \in Nat /\ HeartbeatInterval \in Nat
  BY RelayAssumption
<1>4. s.mapped
  BY DEF s
<1>5. CASE ~s.authenticated
  BY <1>1, <1>4, <1>5 DEF Watched, s
<1>6. CASE s.authenticated /\ s.alive
  <2>1. heartbeat <= s.heard + HeartbeatInterval
    BY <1>1, <1>4, <1>6 DEF Watched
  <2>2. instant <= s.heard + HeartbeatInterval + PongTimeout
    BY <1>1, <1>2, <1>3, <2>1
  <2> QED
    BY <1>6, <2>2 DEF s
<1>7. CASE s.authenticated /\ ~s.alive
  <2>1. /\ s.pinged + PongTimeout \in s.pongTimers
        /\ \A t \in s.pongTimers : instant <= t
        /\ s.pinged <= s.heard + HeartbeatInterval
    BY <1>1, <1>4, <1>7 DEF Watched
  <2>2. instant <= s.heard + HeartbeatInterval + PongTimeout
    BY <1>1, <1>2, <1>3, <2>1
  <2> QED
    BY <1>7, <2>2 DEF s
<1> QED
  BY <1>5, <1>6, <1>7

(* A client that is kept authenticated within AuthTimeout, and was heard     *)
(* within a heartbeat and PongTimeout; and every client that is closed for   *)
(* silence had PongTimeout to answer its last ping and was not heard since,  *)
(* whichever of the timer and the heartbeat looked (handleConnection,        *)
(* startHeartbeat).                                                          *)
THEOREM OnlySilentClientsLost == RelaySpec => OnlySilentDropped
<1>1. RelayInit => RelayInv
  BY RelayStarts
<1>2. RelayInv /\ [RelayNext]_relayVars => RelayInv'
  BY RelayStep
<1>3. RelayInv => SilentClientsDropped
  BY NoneKeptSilent
<1>4. RelayInv /\ [RelayNext]_relayVars =>
        [\A c \in Clients : client'[c].lost /\ ~client[c].lost =>
           /\ client[c].heard <= client[c].pinged
           /\ instant >= client[c].pinged + PongTimeout]_relayVars
  BY RelayStep DEF LostJustly, Justly
<1> QED
  BY <1>1, <1>2, <1>3, <1>4, PTL DEF RelaySpec, OnlySilentDropped
-----------------------------------------------------------------------------
(* Alerts.  The events kept are the end of the log, and all before them    *)
(* have left the window; so the places of the log that are in the window   *)
(* are those of the events kept, moved by the number that were let go.     *)

Event == [at : Nat, success : BOOLEAN, slow : BOOLEAN]

Sorted(s) == \A i, j \in 1..Len(s) : i <= j => s[i].at <= s[j].at
Gone(s, l) == Len(l) - Len(s)
EndOfLog(s, l) ==
  /\ s \in Seq(Event) /\ Len(s) <= Len(l)
  /\ \A i \in 1..Len(s) : s[i] = l[Gone(s, l) + i]

AlertInv ==
  /\ time \in Nat
  /\ log \in Seq(Event) /\ Sorted(log)
  /\ \A i \in 1..Len(log) : log[i].at <= time
  /\ EndOfLog(events, log)
  /\ \A i \in 1..Gone(events, log) : log[i].at < time - WindowMs

LEMMA CountTo ==
  ASSUME NEW n \in Nat
  PROVE  IsFiniteSet(1..n) /\ Cardinality(1..n) = n
BY FS_Interval

LEMMA EventsInTime ==
  ASSUME NEW s \in Seq(Event)
  PROVE  DOMAIN s = 1..Len(s) /\ Len(s) \in Nat /\ \A i \in 1..Len(s) : s[i].at \in Nat
<1>1. DOMAIN s = 1..Len(s) /\ Len(s) \in Nat /\ \A i \in 1..Len(s) : s[i] \in Event
  OBVIOUS
<1>2. \A e \in Event : e.at \in Nat
  BY DEF Event
<1> QED
  BY <1>1, <1>2

\* What leaves is exactly what is before the cutoff, as events are in order.
LEMMA PruningCuts ==
  ASSUME NEW s \in Seq(Event), Sorted(s), NEW cutoff \in Int
  PROVE  \E k \in 0..Len(s) :
           /\ WithoutBefore(s, cutoff) = SubSeq(s, k + 1, Len(s))
           /\ \A i \in 1..k : s[i].at < cutoff
           /\ \A i \in k + 1..Len(s) : s[i].at >= cutoff
<1> DEFINE old == {i \in DOMAIN s : \A j \in 1..i : s[j].at < cutoff}
           k == Cardinality(old)
<1>1. DOMAIN s = 1..Len(s) /\ Len(s) \in Nat /\ \A i \in 1..Len(s) : s[i].at \in Nat
  BY EventsInTime
<1>2. IsFiniteSet(1..Len(s)) /\ Cardinality(1..Len(s)) = Len(s)
  BY <1>1, CountTo
<1>3. IsFiniteSet(old) /\ k \in Nat /\ k <= Len(s)
  <2>1. old \in SUBSET (1..Len(s))
    BY <1>1
  <2> QED
    BY <1>2, <2>1, FS_Subset, FS_CardinalityType
<1>4. ASSUME NEW i \in old
      PROVE  i \in 1..k
  <2>1. i \in 1..Len(s) /\ \A j \in 1..i : s[j].at < cutoff
    BY <1>1
  <2>2. 1..i \in SUBSET old
    <3> SUFFICES ASSUME NEW j \in 1..i
                 PROVE  j \in DOMAIN s /\ \A n \in 1..j : s[n].at < cutoff
      OBVIOUS
    <3>1. j \in 1..Len(s) /\ \A n \in 1..j : n \in 1..i
      BY <1>1, <2>1
    <3> QED
      BY <1>1, <2>1, <3>1
  <2> HIDE DEF old
  <2>3. Cardinality(1..i) <= k
    BY <1>3, <2>2, FS_Subset
  <2>4. Cardinality(1..i) = i
    BY <2>1, <1>1, FS_Interval
  <2> QED
    BY <1>1, <1>3, <2>1, <2>3, <2>4
<1>5. old = 1..k
  <2> HIDE DEF old
  <2>1. IsFiniteSet(1..k) /\ Cardinality(1..k) = k
    BY <1>3, CountTo
  <2>2. old \in SUBSET (1..k)
    BY <1>4
  <2> QED
    BY <2>1, <2>2, FS_Subset
<1>6. \A i \in 1..k : s[i].at < cutoff
  <2> SUFFICES ASSUME NEW i \in 1..k
               PROVE  s[i].at < cutoff
    OBVIOUS
  <2>1. i \in old /\ i \in 1..i
    BY <1>3, <1>5
  <2> QED
    BY <2>1
<1>7. WithoutBefore(s, cutoff) = SubSeq(s, k + 1, Len(s))
  BY DEF WithoutBefore
<1>8. k < Len(s) => s[k + 1].at >= cutoff
  <2> SUFFICES ASSUME k < Len(s), ~(s[k + 1].at >= cutoff)
               PROVE  FALSE
    OBVIOUS
  <2> HIDE DEF k
  <2>1. k + 1 \in 1..Len(s) /\ k + 1 \notin 1..k
    BY <1>1, <1>3
  <2>2. s[k + 1].at < cutoff
    BY <1>1, <2>1
  <2>3. \A j \in 1..(k + 1) : j \in 1..k \/ j = k + 1
    BY <1>3
  <2>4. \A j \in 1..(k + 1) : s[j].at < cutoff
    BY <1>6, <2>2, <2>3
  <2>5. k + 1 \in old
    BY <1>1, <2>1, <2>4
  <2> QED
    BY <1>5, <2>1, <2>5
<1>9. \A i \in k + 1..Len(s) : s[i].at >= cutoff
  <2> SUFFICES ASSUME NEW i \in k + 1..Len(s)
               PROVE  s[i].at >= cutoff
    OBVIOUS
  <2> HIDE DEF k
  <2>1. i \in 1..Len(s) /\ k + 1 \in 1..Len(s) /\ k < Len(s) /\ k + 1 <= i
    BY <1>1, <1>3
  <2>2. s[k + 1].at <= s[i].at /\ s[i].at \in Nat /\ s[k + 1].at \in Nat
    BY <1>1, <2>1 DEF Sorted
  <2> QED
    BY <1>8, <2>1, <2>2
<1> HIDE DEF k
<1> QED
  BY <1>1, <1>3, <1>6, <1>7, <1>9

\* So what is kept of the end of the log is its end again, and is the window.
LEMMA PruningKeepsEnd ==
  ASSUME NEW l \in Seq(Event), Sorted(l), NEW s, EndOfLog(s, l), NEW cutoff \in Int,
         \A i \in 1..Gone(s, l) : l[i].at < cutoff
  PROVE  LET new == WithoutBefore(s, cutoff)
         IN /\ EndOfLog(new, l)
            /\ \A i \in 1..Gone(new, l) : l[i].at < cutoff
            /\ {i \in DOMAIN l : l[i].at >= cutoff} = Gone(new, l) + 1..Len(l)
<1> DEFINE g == Gone(s, l)
           new == WithoutBefore(s, cutoff)
<1>1. /\ s \in Seq(Event) /\ Len(s) \in Nat /\ Len(l) \in Nat /\ Len(s) <= Len(l)
      /\ g \in 0..Len(l) /\ g + Len(s) = Len(l)
      /\ DOMAIN l = 1..Len(l) /\ \A i \in 1..Len(s) : s[i] = l[g + i]
      /\ \A i \in 1..Len(l) : l[i].at \in Nat
      /\ \A i \in 1..g : l[i].at < cutoff
  <2>1. s \in Seq(Event) /\ Len(s) <= Len(l) /\ \A i \in 1..Len(s) : s[i] = l[g + i]
    BY DEF EndOfLog
  <2>2. Len(s) \in Nat /\ Len(l) \in Nat /\ DOMAIN l = 1..Len(l)
          /\ \A i \in 1..Len(l) : l[i].at \in Nat
    BY <2>1, EventsInTime
  <2>3. g \in 0..Len(l) /\ g + Len(s) = Len(l)
    BY <2>1, <2>2 DEF Gone
  <2> QED
    BY <2>1, <2>2, <2>3
<1>2. Sorted(s)
  <2> SUFFICES ASSUME NEW i \in 1..Len(s), NEW j \in 1..Len(s), i <= j
               PROVE  s[i].at <= s[j].at
    BY DEF Sorted
  <2> HIDE DEF g
  <2>1. g + i \in 1..Len(l) /\ g + j \in 1..Len(l) /\ g + i <= g + j
    BY <1>1
  <2> QED
    BY <1>1, <2>1 DEF Sorted
<1>3. PICK k \in 0..Len(s) :
        /\ new = SubSeq(s, k + 1, Len(s))
        /\ \A i \in 1..k : s[i].at < cutoff
        /\ \A i \in k + 1..Len(s) : s[i].at >= cutoff
  BY <1>1, <1>2, PruningCuts
<1> HIDE DEF new
<1>4. /\ new \in Seq(Event) /\ Len(new) = Len(s) - k
      /\ \A i \in 1..Len(new) : new[i] = s[k + i]
  <2>1. \A i \in k + 1..Len(s) : s[i] \in Event
    BY <1>1
  <2>2. k + 1 \in Int /\ Len(s) \in Int
    BY <1>1
  <2>3. /\ SubSeq(s, k + 1, Len(s)) \in Seq(Event)
        /\ Len(SubSeq(s, k + 1, Len(s))) =
             IF k + 1 <= Len(s) THEN Len(s) - (k + 1) + 1 ELSE 0
        /\ \A i \in 1..Len(s) - (k + 1) + 1 :
             SubSeq(s, k + 1, Len(s))[i] = s[(k + 1) + i - 1]
    BY <2>1, <2>2, SubSeqProperties
  <2>4. Len(s) - (k + 1) + 1 = Len(s) - k /\ \A i \in Nat : (k + 1) + i - 1 = k + i
    BY <1>1
  <2>5. Len(new) = Len(s) - k
    BY <1>1, <1>3, <2>3
  <2>6. ASSUME NEW i \in 1..Len(new)
        PROVE  new[i] = s[k + i]
    <3>1. i \in 1..Len(s) - (k + 1) + 1 /\ i \in Nat
      BY <1>1, <2>5
    <3>2. SubSeq(s, k + 1, Len(s))[i] = s[(k + 1) + i - 1]
      BY <2>3, <3>1
    <3>3. (k + 1) + i - 1 = k + i
      BY <3>1
    <3> QED
      BY <1>3, <3>2, <3>3
  <2> QED
    BY <1>3, <2>3, <2>5, <2>6
<1>5. Gone(new, l) = g + k
  BY <1>1, <1>4 DEF Gone
<1> HIDE DEF g
<1>6. EndOfLog(new, l)
  <2>1. Len(new) <= Len(l)
    BY <1>1, <1>4
  <2>2. ASSUME NEW i \in 1..Len(new)
        PROVE  new[i] = l[g + k + i]
    <3>1. k + i \in 1..Len(s) /\ new[i] = s[k + i] /\ g + (k + i) = g + k + i
      BY <1>1, <1>4
    <3> QED
      BY <1>1, <3>1
  <2> QED
    BY <1>4, <1>5, <2>1, <2>2 DEF EndOfLog
<1>7. ASSUME NEW i \in 1..(g + k)
      PROVE  l[i].at < cutoff
  <2>1. CASE i <= g
    BY <1>1, <2>1
  <2>2. CASE i > g
    <3>1. i - g \in 1..k /\ i - g \in 1..Len(s) /\ g + (i - g) = i
      BY <1>1, <2>2
    <3>2. s[i - g] = l[g + (i - g)]
      BY <1>1, <3>1
    <3> QED
      BY <1>3, <3>1, <3>2
  <2> QED
    BY <1>1, <2>1, <2>2
<1>8. ASSUME NEW i \in g + k + 1..Len(l)
      PROVE  i \in DOMAIN l /\ l[i].at >= cutoff
  <2>1. i \in 1..Len(l) /\ i - g \in k + 1..Len(s) /\ i - g \in 1..Len(s) /\ g + (i - g) = i
    BY <1>1
  <2>2. s[i - g] = l[g + (i - g)]
    BY <1>1, <2>1
  <2> QED
    BY <1>1, <1>3, <2>1, <2>2
<1>9. {i \in DOMAIN l : l[i].at >= cutoff} = g + k + 1..Len(l)
  <2>1. ASSUME NEW i \in DOMAIN l, l[i].at >= cutoff
        PROVE  i \in g + k + 1..Len(l)
    <3>1. i \in 1..Len(l) /\ l[i].at \in Nat
      BY <1>1
    <3>2. i \notin 1..(g + k)
      BY <1>7, <2>1, <3>1
    <3> QED
      BY <1>1, <3>1, <3>2
  <2> QED
    BY <1>8, <2>1
<1> QED
  BY <1>5, <1>6, <1>7, <1>9 DEF new

\* The metrics count the same, whether they look at the window in the log or
\* at the events that are kept: move is a bijection between the places.
Moved(I, d) == {d + i : i \in I}

LEMMA SameCount ==
  ASSUME NEW d \in Nat, NEW n \in Nat, NEW I \in SUBSET (1..n)
  PROVE  Cardinality(Moved(I, d)) = Cardinality(I) /\ Cardinality(I) \in Nat
<1> DEFINE J == Moved(I, d)
           move == [i \in I |-> d + i]
<1>1. IsFiniteSet(I) /\ Cardinality(I) \in Nat
  <2>1. IsFiniteSet(1..n)
    BY FS_Interval
  <2> QED
    BY <2>1, FS_Subset, FS_CardinalityType
<1>2. \A i \in I : i \in Nat
  OBVIOUS
<1>3. move \in [I -> J]
  BY DEF Moved
<1>4. \A i, j \in I : move[i] = move[j] => i = j
  BY <1>2
<1>5. \A j \in J : \E i \in I : move[i] = j
  BY DEF Moved
<1> HIDE DEF move
<1>6. move \in Injection(I, J)
  BY <1>3, <1>4, Fun_IsInj
<1>7. move \in Bijection(I, J)
  BY <1>3, <1>5, <1>6, Fun_IsSurj, Fun_IsBij
<1>8. ExistsBijection(I, J)
  BY <1>7 DEF ExistsBijection
<1> QED
  BY <1>1, <1>8, FS_Bijection

LEMMA SameMetrics ==
  ASSUME NEW l \in Seq(Event), NEW s, EndOfLog(s, l)
  PROVE  LET window == Gone(s, l) + 1..Len(l)
         IN /\ Cardinality(window) = Len(s)
            /\ TooManyErrors(l, window) <=> TooManyErrors(s, DOMAIN s)
            /\ HighLatency(l, window) <=> HighLatency(s, DOMAIN s)
<1> DEFINE g == Gone(s, l)
           I == DOMAIN s
           window == g + 1..Len(l)
<1>1. /\ I = 1..Len(s) /\ Len(s) \in Nat /\ g \in Nat /\ g + Len(s) = Len(l)
      /\ Len(l) \in Nat /\ \A i \in I : s[i] = l[g + i]
  <2>1. s \in Seq(Event) /\ Len(s) <= Len(l) /\ \A i \in 1..Len(s) : s[i] = l[g + i]
    BY DEF EndOfLog
  <2>2. Len(s) \in Nat /\ Len(l) \in Nat /\ I = 1..Len(s)
    BY <2>1, EventsInTime
  <2> QED
    BY <2>1, <2>2 DEF Gone
<1> HIDE DEF g, I
<1>2. window = Moved(I, g)
  <2>1. ASSUME NEW j \in window
        PROVE  j \in Moved(I, g)
    <3>1. j - g \in I /\ g + (j - g) = j
      BY <1>1
    <3> QED
      BY <3>1 DEF Moved
  <2>2. ASSUME NEW i \in I
        PROVE  g + i \in window
    BY <1>1
  <2> QED
    BY <2>1, <2>2 DEF Moved
<1> HIDE DEF window
<1>3. Successes(l, window) = Moved(Successes(s, I), g)
  BY <1>1, <1>2 DEF Successes, Moved
<1>4. SlowOnes(l, window) = Moved(SlowOnes(s, I), g)
  BY <1>1, <1>2 DEF SlowOnes, Moved
<1>5. I \in SUBSET (1..Len(s)) /\ Successes(s, I) \in SUBSET (1..Len(s))
        /\ SlowOnes(s, I) \in SUBSET (1..Len(s))
  BY <1>1 DEF Successes, SlowOnes
<1>6. Cardinality(window) = Cardinality(I)
  BY <1>1, <1>2, <1>5, SameCount
<1>7. Cardinality(Successes(l, window)) = Cardinality(Successes(s, I))
  BY <1>1, <1>3, <1>5, SameCount
<1>8. Cardinality(SlowOnes(l, window)) = Cardinality(SlowOnes(s, I))
  BY <1>1, <1>4, <1>5, SameCount
<1>9. Cardinality(I) = Len(s)
  <2>1. Len(s) \in Nat
    BY <1>1
  <2>2. Cardinality(1..Len(s)) = Len(s)
    BY <2>1, CountTo
  <2> QED
    BY <1>1, <2>2
<1>10. TooManyErrors(l, window) <=> TooManyErrors(s, I)
  BY <1>6, <1>7 DEF TooManyErrors
<1>11. HighLatency(l, window) <=> HighLatency(s, I)
  BY <1>7, <1>8 DEF HighLatency
<1> QED
  BY <1>6, <1>9, <1>10, <1>11 DEF window, I, g

\* The window of a log, and what the alerts of a step must say of it.
Window(l) == {i \in DOMAIN l : l[i].at >= time - WindowMs}

Told ==
  LET kept(t) == t \in activeAlerts' <=> t \in activeAlerts
  IN /\ IF Cardinality(Window(log')) < MinimumEvents
        THEN kept("high-error-rate") /\ kept("high-latency")
        ELSE /\ "high-error-rate" \in activeAlerts' <=> TooManyErrors(log', Window(log'))
             /\ "high-latency" \in activeAlerts' <=> HighLatency(log', Window(log'))
     /\ \A call \in calls' : ~call.again

\* An event is recorded: it is the last of both, and the latest.
LEMMA Logged ==
  ASSUME AlertInv, NEW success \in BOOLEAN, NEW slow \in BOOLEAN, recordEvent(success, slow)
  PROVE  /\ AlertInv'
         /\ Cardinality(Window(log')) = Len(events')
         /\ TooManyErrors(log', Window(log')) <=> TooManyErrors(events', DOMAIN events')
         /\ HighLatency(log', Window(log')) <=> HighLatency(events', DOMAIN events')
<1> DEFINE e == [at |-> time, success |-> success, slow |-> slow]
           l == Append(log, e)
           s == Append(events, e)
           cutoff == time - WindowMs
<1>1. /\ time \in Nat /\ cutoff \in Int /\ log \in Seq(Event) /\ events \in Seq(Event)
      /\ Len(events) <= Len(log) /\ Sorted(log)
      /\ \A i \in 1..Len(log) : log[i].at <= time /\ log[i].at \in Nat
      /\ Len(log) \in Nat /\ Len(events) \in Nat
  BY AlertAssumption, EventsInTime DEF AlertInv, EndOfLog
<1>2. e \in Event /\ e.at = time
  BY <1>1 DEF Event
<1>3. log' = l /\ events' = pruneEvents(s) /\ time' = time
  BY DEF recordEvent
<1> HIDE DEF e
<1>4. /\ l \in Seq(Event) /\ Len(l) = Len(log) + 1
      /\ \A i \in 1..Len(log) : l[i] = log[i]
      /\ l[Len(log) + 1] = e
  BY <1>1, <1>2, AppendProperties
<1>5. /\ s \in Seq(Event) /\ Len(s) = Len(events) + 1
      /\ \A i \in 1..Len(events) : s[i] = events[i]
      /\ s[Len(events) + 1] = e
  BY <1>1, <1>2, AppendProperties
<1> HIDE DEF l, s, cutoff
<1>6. \A i \in 1..Len(l) : l[i].at <= time /\ l[i].at \in Nat
  BY <1>1, <1>2, <1>4
<1>7. Sorted(l)
  <2> SUFFICES ASSUME NEW i \in 1..Len(l), NEW j \in 1..Len(l), i <= j
               PROVE  l[i].at <= l[j].at
    BY DEF Sorted
  <2>1. CASE j = Len(l)
    BY <1>1, <1>2, <1>4, <1>6, <2>1
  <2>2. CASE j # Len(l)
    <3>1. i \in 1..Len(log) /\ j \in 1..Len(log)
      BY <1>1, <1>4, <2>2
    <3>2. log[i].at <= log[j].at
      BY <1>1, <3>1 DEF Sorted
    <3> QED
      BY <1>4, <3>1, <3>2
  <2> QED
    BY <2>1, <2>2
<1> DEFINE g == Len(log) - Len(events)
<1>8. g \in 0..Len(log) /\ Len(l) - Len(s) = g
  BY <1>1, <1>4, <1>5
<1>9. \A i \in 1..Len(events) : events[i] = log[g + i]
  BY DEF AlertInv, EndOfLog, Gone
<1>10. \A i \in 1..g : log[i].at < cutoff
  BY DEF AlertInv, Gone, cutoff
<1> HIDE DEF g
<1>11. ASSUME NEW i \in 1..Len(s)
       PROVE  s[i] = l[g + i]
  <2>1. CASE i = Len(s)
    <3>1. i = Len(events) + 1 /\ g + i = Len(log) + 1
      BY <1>1, <1>4, <1>5, <1>8, <2>1
    <3> QED
      BY <1>4, <1>5, <3>1
  <2>2. CASE i # Len(s)
    <3>1. i \in 1..Len(events) /\ g + i \in 1..Len(log)
      BY <1>1, <1>4, <1>5, <1>8, <2>2
    <3> QED
      BY <1>4, <1>5, <1>9, <3>1
  <2> QED
    BY <2>1, <2>2
<1>12. \A i \in 1..g : l[i].at < cutoff
  BY <1>4, <1>8, <1>10
<1>13. EndOfLog(s, l) /\ Gone(s, l) = g
  <2>1. Gone(s, l) = g /\ Len(s) <= Len(l)
    BY <1>1, <1>4, <1>5, <1>8 DEF Gone
  <2> QED
    BY <1>5, <1>11, <2>1 DEF EndOfLog
<1> DEFINE new == WithoutBefore(s, cutoff)
<1>14. /\ EndOfLog(new, l)
       /\ \A i \in 1..Gone(new, l) : l[i].at < cutoff
       /\ {i \in DOMAIN l : l[i].at >= cutoff} = Gone(new, l) + 1..Len(l)
  BY <1>1, <1>4, <1>7, <1>12, <1>13, PruningKeepsEnd
<1>15. events' = new /\ log' = l /\ time' = time /\ cutoff = time - WindowMs
  BY <1>3 DEF pruneEvents, cutoff
<1> HIDE DEF new
<1>16. Window(log') = Gone(new, l) + 1..Len(l)
  BY <1>14, <1>15 DEF Window
<1>17. AlertInv'
  BY <1>1, <1>4, <1>6, <1>7, <1>14, <1>15 DEF AlertInv
<1>18. /\ Cardinality(Gone(new, l) + 1..Len(l)) = Len(new)
       /\ TooManyErrors(l, Gone(new, l) + 1..Len(l)) <=> TooManyErrors(new, DOMAIN new)
       /\ HighLatency(l, Gone(new, l) + 1..Len(l)) <=> HighLatency(new, DOMAIN new)
  BY <1>4, <1>14, SameMetrics
<1>19. l = log' /\ new = events' /\ Gone(new, l) + 1..Len(l) = Window(log')
  BY <1>15, <1>16
<1> QED
  BY <1>17, <1>18, <1>19

LEMMA RecordingTells ==
  ASSUME AlertInv, NEW success \in BOOLEAN, NEW slow \in BOOLEAN, recordEvent(success, slow)
  PROVE  AlertInv' /\ Told
<1> DEFINE few == Len(events') < MinimumEvents
           errors == TooManyErrors(events', DOMAIN events')
           latency == HighLatency(events', DOMAIN events')
           watched == {"high-error-rate", "high-latency"}
           bad == {t \in watched : IF t = "high-error-rate" THEN errors ELSE latency}
<1>1. /\ AlertInv' /\ Cardinality(Window(log')) = Len(events')
      /\ TooManyErrors(log', Window(log')) <=> errors
      /\ HighLatency(log', Window(log')) <=> latency
  BY Logged
<1>2. IF few THEN Fires({}) /\ activeAlerts' = activeAlerts
      ELSE /\ Fires(bad \ activeAlerts)
           /\ activeAlerts' = (activeAlerts \ watched) \cup bad
  BY DEF recordEvent, evaluate
<1> HIDE DEF errors, latency
<1>3. /\ "high-error-rate" \in bad <=> errors
      /\ "high-latency" \in bad <=> latency
  OBVIOUS
<1> HIDE DEF bad
<1>4. ASSUME NEW fired, Fires(fired), fired \cap activeAlerts = {}
      PROVE  \A call \in calls' : ~call.again
  <2> SUFFICES ASSUME NEW call \in calls'
               PROVE  ~call.again
    OBVIOUS
  <2>1. PICK t \in fired : call = [trigger |-> t, again |-> t \in activeAlerts]
    BY <1>4 DEF Fires
  <2>2. t \notin activeAlerts
    BY <1>4
  <2>3. call.again = (t \in activeAlerts)
    BY <2>1
  <2> QED
    BY <2>2, <2>3
<1>5. CASE few
  <2>1. \A call \in calls' : ~call.again
    BY <1>2, <1>4, <1>5
  <2>2. activeAlerts' = activeAlerts /\ Cardinality(Window(log')) < MinimumEvents
    BY <1>1, <1>2, <1>5
  <2> QED
    BY <1>1, <2>1, <2>2 DEF Told
<1>6. CASE ~few
  <2>1. \A call \in calls' : ~call.again
    BY <1>2, <1>4, <1>6
  <2>2. /\ "high-error-rate" \in activeAlerts' <=> errors
        /\ "high-latency" \in activeAlerts' <=> latency
    BY <1>2, <1>3, <1>6
  <2>3. ~(Cardinality(Window(log')) < MinimumEvents)
    BY <1>1, <1>6
  <2> HIDE DEF few
  <2> QED
    BY <1>1, <2>1, <2>2, <2>3 DEF Told
<1> QED
  BY <1>5, <1>6

\* Events only leave when the metrics are read, or time goes on.
LEMMA OtherStepsKeep ==
  ASSUME AlertInv,
         getMetrics \/ AlertTick \/ (\E t \in Triggers : alertNow(t) \/ clearAlert(t))
  PROVE  AlertInv' /\ log' = log
<1>1. CASE getMetrics
  <2>1. events' = WithoutBefore(events, time - WindowMs) /\ log' = log /\ time' = time
    BY <1>1 DEF getMetrics, pruneEvents
  <2>2. time - WindowMs \in Int
    BY AlertAssumption DEF AlertInv
  <2>3. /\ EndOfLog(WithoutBefore(events, time - WindowMs), log)
        /\ \A i \in 1..Gone(WithoutBefore(events, time - WindowMs), log) :
             log[i].at < time - WindowMs
    BY <2>2, PruningKeepsEnd DEF AlertInv
  <2> QED
    BY <2>1, <2>3 DEF AlertInv
<1>2. CASE AlertTick
  <2>1. time' = time + 1 /\ events' = events /\ log' = log /\ time \in Nat /\ WindowMs \in Nat
    BY <1>2, AlertAssumption DEF AlertTick, AlertInv
  <2>2. \A i \in 1..Len(log) : log[i].at \in Nat /\ log[i].at <= time
    BY EventsInTime DEF AlertInv
  <2>3. \A i \in 1..Gone(events, log) : i \in 1..Len(log)
    <3>1. Len(events) \in Nat /\ Len(log) \in Nat
      BY EventsInTime DEF AlertInv, EndOfLog
    <3> QED
      BY <3>1 DEF Gone
  <2>4. \A i \in 1..Len(log) : log[i].at <= time + 1
    BY <2>1, <2>2
  <2>5. \A i \in 1..Gone(events, log) : log[i].at < time + 1 - WindowMs
    <3>1. \A i \in 1..Gone(events, log) : log[i].at < time - WindowMs
      BY DEF AlertInv
    <3>2. ASSUME NEW i \in 1..Gone(events, log)
          PROVE  log[i].at < time + 1 - WindowMs
      <4>1. log[i].at \in Nat /\ log[i].at < time - WindowMs
        BY <2>2, <2>3, <3>1
      <4> QED
        BY <2>1, <4>1
    <3> QED
      BY <3>2
  <2>6. /\ \A i \in 1..Len(log') : log'[i].at <= time'
        /\ \A i \in 1..Gone(events', log') : log'[i].at < time' - WindowMs
    BY <2>1, <2>4, <2>5
  <2>7. /\ time' \in Nat /\ log' \in Seq(Event) /\ Sorted(log') /\ EndOfLog(events', log')
    BY <2>1 DEF AlertInv
  <2> QED
    BY <2>1, <2>6, <2>7 DEF AlertInv
<1>3. CASE \E t \in Triggers : alertNow(t) \/ clearAlert(t)
  <2>1. UNCHANGED <<time, events, log>>
    BY <1>3 DEF alertNow, clearAlert
  <2> QED
    BY <2>1 DEF AlertInv
<1> QED
  BY <1>1, <1>2, <1>3

(* For any window, thresholds, least number of events and triggers: after    *)
(* every event the two alerts say what the window of the whole log says, if  *)
(* it holds enough events, although only the end of the log is kept and      *)
(* metrics, clock and hand-fired alerts come in between; and nobody is told  *)
(* again of an alert that is still active (recordEvent, evaluate).           *)
THEOREM AlertsTellWindow == AlertSpec => AlertsFollowWindow
<1>1. AlertInit => AlertInv
  <2>1. <<>> \in Seq(Event) /\ Len(<<>>) = 0
    OBVIOUS
  <2> QED
    BY <2>1 DEF AlertInit, AlertInv, Sorted, EndOfLog, Gone
<1>2. AlertInv /\ [AlertNext]_alertVars => AlertInv'
  BY RecordingTells, OtherStepsKeep DEF AlertNext, alertVars, AlertInv
<1>3. ASSUME AlertInv, [AlertNext]_alertVars
      PROVE  Len(log') > Len(log) => Told
  <2> SUFFICES ASSUME Len(log') > Len(log)
               PROVE  Told
    OBVIOUS
  <2>1. log' # log
    <3>1. Len(log) \in Nat
      BY DEF AlertInv
    <3> QED
      BY <3>1
  <2> QED
    BY <1>3, <2>1, RecordingTells, OtherStepsKeep DEF AlertNext, alertVars
<1>4. AlertInv /\ [AlertNext]_alertVars =>
        [Len(log') > Len(log) =>
           LET window == {i \in DOMAIN log' : log'[i].at >= time - WindowMs}
               kept(t) == t \in activeAlerts' <=> t \in activeAlerts
           IN /\ IF Cardinality(window) < MinimumEvents
                 THEN kept("high-error-rate") /\ kept("high-latency")
                 ELSE /\ "high-error-rate" \in activeAlerts' <=> TooManyErrors(log', window)
                      /\ "high-latency" \in activeAlerts' <=> HighLatency(log', window)
              /\ \A call \in calls' : ~call.again]_alertVars
  BY <1>3 DEF Told, Window
<1> QED
  BY <1>1, <1>2, <1>4, PTL DEF AlertSpec, AlertsFollowWindow
==============================================================================
