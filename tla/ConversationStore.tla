------------------------- MODULE ConversationStore -------------------------
(***************************************************************************)
(* pipeline-store.ts, conversation-store.ts, contact-importer.ts: the rows *)
(* a delivered message leaves in PostgreSQL.  The gateway starts one       *)
(* storeInboundMessage per message and does not wait, so the queries of    *)
(* different deliveries interleave; each query is one step here and any of *)
(* them may fail.  Threads and messages have no row number of their own: a *)
(* delivery creates at most one thread and two messages, which are named   *)
(* by the delivery.                                                        *)
(***************************************************************************)
EXTENDS Naturals, FiniteSets

CONSTANTS
  Deliveries,
  Arrivals,    \* what may be delivered: functions from Deliveries to
               \* [account, contact, group, id]
  DirectMessage, \* the group of a message that is in none: groupJid is NULL
  Filters,     \* storage filters: [enabled, groups, contacts]
  MaxBroken    \* deliveries one of whose queries fails, at most

VARIABLES
  inbound,     \* the member of Arrivals that is delivered
  filter,      \* _storageFilter, set at boot
  store,       \* store[d]: [pc, turn, reply, thread] of a delivery
  contactRow,  \* contacts stored: contact -> linked to a CRM person?
  threadRow,   \* threads: the delivery that created it -> messageCount
  messageRow,  \* messages: [by, reply, thread]
  broken,      \* history: deliveries one of whose queries failed
  concurrent   \* history: pairs of deliveries stored at the same time

conversationVars == <<inbound, filter, store, contactRow, threadRow, messageRow,
                      broken, concurrent>>

ConversationInit ==
  /\ inbound \in Arrivals
  /\ filter \in Filters
  /\ store = [d \in Deliveries |-> [pc |-> "arrives", turn |-> FALSE,
                                    reply |-> FALSE, thread |-> d]]
  /\ contactRow = <<>> /\ threadRow = <<>> /\ messageRow = {}
  /\ broken = {} /\ concurrent = {}

Ended == {"arrives", "filtered", "stored", "rejected"}
Storing == {d \in Deliveries : store[d].pc \notin Ended}

At(d, pc) == store[d].pc = pc
Goto(d, pc) == store' = [store EXCEPT ![d].pc = pc]

\* The key of a thread, and of a message: messageId alone for the message
\* itself, with "-response" for the answer.
Chat(d) == <<inbound[d].account, inbound[d].contact, inbound[d].group>>
MessageKey(d, reply) == <<inbound[d].account, inbound[d].id, reply>>

shouldStore(d) ==
  \/ ~filter.enabled
  \/ inbound[d].group # DirectMessage /\ inbound[d].group \in filter.groups
  \/ inbound[d].group = DirectMessage /\ inbound[d].contact \in filter.contacts

storeInboundMessage(d) ==
  /\ At(d, "arrives")
  /\ Goto(d, IF shouldStore(d) THEN "account" ELSE "filtered")
  /\ concurrent' = concurrent \cup
       {{d, e} : e \in IF shouldStore(d) THEN Storing ELSE {}}
  /\ UNCHANGED <<inbound, filter, contactRow, threadRow, messageRow, broken>>

\* The message and its answer together; no filter is applied.
storeConversation(d) ==
  /\ At(d, "arrives")
  /\ store' = [store EXCEPT ![d].pc = "account", ![d].turn = TRUE]
  /\ concurrent' = concurrent \cup {{d, e} : e \in Storing}
  /\ UNCHANGED <<inbound, filter, contactRow, threadRow, messageRow, broken>>

Same == UNCHANGED <<inbound, filter, broken, concurrent>>

\* INSERT ... ON CONFLICT DO UPDATE: one statement.
upsertAccount(d) ==
  /\ At(d, "account")
  /\ Goto(d, "contact")
  /\ Same /\ UNCHANGED <<contactRow, threadRow, messageRow>>

\* A row that is there already is left as it is.
WithRow(rows, key, row) ==
  [k \in DOMAIN rows \cup {key} |-> IF k \in DOMAIN rows THEN rows[k] ELSE row]
WithContact(c) == WithRow(contactRow, c, FALSE)

upsertContact(d) ==
  /\ At(d, "contact")
  /\ contactRow' = WithContact(inbound[d].contact)
  /\ Goto(d, "find thread")
  /\ Same /\ UNCHANGED <<threadRow, messageRow>>

ThreadsOf(d) == {t \in DOMAIN threadRow : Chat(t) = Chat(d)}

FindThread(d) ==
  /\ At(d, "find thread")
  /\ \/ ThreadsOf(d) = {} /\ Goto(d, "create thread")
     \/ \E t \in ThreadsOf(d) :
          store' = [store EXCEPT ![d].pc = "bump thread", ![d].thread = t]
  /\ Same /\ UNCHANGED <<contactRow, threadRow, messageRow>>

BumpThread(d, from, to) ==
  /\ At(d, from)
  /\ threadRow' = [threadRow EXCEPT ![store[d].thread] = @ + 1]
  /\ Goto(d, to)

UpdateThread(d) ==
  /\ BumpThread(d, "bump thread", "find message")
  /\ Same /\ UNCHANGED <<contactRow, messageRow>>

\* unique(account, contact, group) does not bind rows whose group is NULL.
CreateThread(d) ==
  /\ At(d, "create thread")
  /\ IF inbound[d].group # DirectMessage /\ ThreadsOf(d) # {}
     THEN Goto(d, "rejected") /\ UNCHANGED threadRow
     ELSE /\ threadRow' = WithRow(threadRow, d, 1)
          /\ Goto(d, "find message")
  /\ Same /\ UNCHANGED <<contactRow, messageRow>>

\* Where storing goes on once the message, or the answer, is in.
AfterMessage(d) ==
  IF store[d].turn /\ ~store[d].reply
  THEN store' = [store EXCEPT ![d].pc = "find message", ![d].reply = TRUE]
  ELSE Goto(d, IF store[d].turn THEN "stored" ELSE "import")

\* Faulty: the account is left out of the query.
FoundAnywhere(d) == \E m \in messageRow : inbound[m.by].id = inbound[d].id
                                            /\ m.reply = store[d].reply

FoundMessage(d) ==
  \E m \in messageRow : MessageKey(m.by, m.reply) = MessageKey(d, store[d].reply)

\* Faulty: the query is left out and the row created every time.
FindNoMessage(d) ==
  /\ At(d, "find message") /\ Goto(d, "create message")
  /\ Same /\ UNCHANGED <<contactRow, threadRow, messageRow>>

FindMessage(d) ==
  /\ At(d, "find message")
  /\ IF FoundMessage(d) THEN AfterMessage(d) ELSE Goto(d, "create message")
  /\ Same /\ UNCHANGED <<contactRow, threadRow, messageRow>>

CreateMessage(d) ==
  /\ At(d, "create message")
  /\ messageRow' = messageRow \cup
       {[by |-> d, reply |-> store[d].reply, thread |-> store[d].thread]}
  /\ Goto(d, "count message")
  /\ Same /\ UNCHANGED <<contactRow, threadRow>>

CountMessage(d) ==
  /\ At(d, "count message")
  /\ threadRow' = [threadRow EXCEPT ![store[d].thread] = @ + 1]
  /\ AfterMessage(d)
  /\ Same /\ UNCHANGED <<contactRow, messageRow>>

\* importContactFromMessage, then tryCRMLink, after storeInboundMessage has
\* returned: their failures are only logged.
importContactFromMessage(d) ==
  /\ At(d, "import")
  /\ contactRow' = WithContact(inbound[d].contact)
  /\ \/ Goto(d, "link") \* a phone number can be read from the sender's id
     \/ Goto(d, "stored")
  /\ Same /\ UNCHANGED <<threadRow, messageRow>>

tryCRMLink(d) ==
  /\ At(d, "link")
  /\ \/ contactRow' = [contactRow EXCEPT ![inbound[d].contact] = TRUE]
     \/ UNCHANGED contactRow \* no bridge, no such person, or it failed
  /\ Goto(d, "stored")
  /\ Same /\ UNCHANGED <<threadRow, messageRow>>

ImportFails(d) ==
  /\ At(d, "import")
  /\ Goto(d, "stored")
  /\ Same /\ UNCHANGED <<contactRow, threadRow, messageRow>>

\* A query rejects; so does the call, and the gateway logs it.
QueryFails(d) ==
  /\ d \in Storing /\ store[d].pc \notin {"import", "link"}
  /\ Cardinality(broken) < MaxBroken
  /\ Goto(d, "rejected")
  /\ broken' = broken \cup {d}
  /\ UNCHANGED <<inbound, filter, contactRow, threadRow, messageRow, concurrent>>

ConversationNext ==
  \E d \in Deliveries :
    \/ storeInboundMessage(d) \/ storeConversation(d)
    \/ upsertAccount(d) \/ upsertContact(d)
    \/ FindThread(d) \/ UpdateThread(d) \/ CreateThread(d)
    \/ FindMessage(d) \/ CreateMessage(d) \/ CountMessage(d)
    \/ importContactFromMessage(d) \/ tryCRMLink(d) \/ ImportFails(d)
    \/ QueryFails(d)

ConversationSpec == ConversationInit /\ [][ConversationNext]_conversationVars

-----------------------------------------------------------------------------
(* One thread per chat and one row per message id of an account: a second  *)
(* is there only if the deliveries that made the two were stored at the    *)
(* same time, each finding nothing before the other created its row, and a *)
(* second thread only for a chat that is in no group.  (upsertThread,      *)
(* storeMessage)                                                           *)
OnceUnlessTogether ==
  /\ \A t, u \in DOMAIN threadRow :
       t # u /\ Chat(t) = Chat(u) =>
         {t, u} \in concurrent /\ inbound[t].group = DirectMessage
  /\ \A m, n \in messageRow :
       m # n /\ MessageKey(m.by, m.reply) = MessageKey(n.by, n.reply) =>
         {m.by, n.by} \in concurrent

(* A message that passed the filter is, once its delivery has ended, in a  *)
(* thread of its own chat; unless a query failed, or another message of    *)
(* the same new group was stored at the same time, or the account had      *)
(* stored the same id for another chat.  (storeInboundMessage,             *)
(* storeConversation)                                                      *)
InPlace(d) ==
  \E m \in messageRow :
    Chat(m.thread) = Chat(d) /\ MessageKey(m.by, m.reply) = MessageKey(d, FALSE)

InPlaceUnlessRaced ==
  \A d \in Deliveries :
    store[d].pc \in {"stored", "rejected"} =>
      \/ InPlace(d)
      \/ d \in broken
      \/ \E e \in Deliveries \ {d} :
           \/ /\ {d, e} \in concurrent /\ Chat(e) = Chat(d)
              /\ inbound[d].group # DirectMessage
           \/ MessageKey(e, FALSE) = MessageKey(d, FALSE) /\ Chat(e) # Chat(d)

\* What storage promises of the messages the gateway hands it without waiting.
StoredOnceInPlace == OnceUnlessTogether /\ InPlaceUnlessRaced
=============================================================================
