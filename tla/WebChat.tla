------------------------------ MODULE WebChat ------------------------------
(***************************************************************************)
(* adapters/webchat.ts: a chat request is answered with what the gateway   *)
(* sends to its channel, the id of the request, or after 30 s with an      *)
(* apology.  The gateway (Gateway) is here a handler that calls sendText   *)
(* any number of times, an auto-reply also after it has resolved.          *)
(***************************************************************************)
EXTENDS Integers

CONSTANTS
  Chats,              \* requests
  ChatTimeout,        \* 30_000
  ChatMaxTime,        \* time passes ChatMaxTime only while a timer is to fire
  MaxSends            \* calls of sendText for a request

ASSUME ChatAssumption == ChatTimeout \in Nat

VARIABLES
  clock,
  server,             \* "none", "listening", "closing"; "exited" is the process
  pendingResponses,   \* the chats whose resolver is registered
  chat                \* [Chats -> [pc, due, resolved, sends, status]]

chatVars == <<clock, server, pendingResponses, chat>>

NewChat == [pc |-> "new", due |-> 0, resolved |-> "no", sends |-> 0, status |-> 0]
Open == {c \in Chats : chat[c].pc \notin {"new", "end"}}

ChatInit ==
  /\ clock = 0 /\ server = "none" /\ pendingResponses = {}
  /\ chat = [c \in Chats |-> NewChat]

-----------------------------------------------------------------------------
ConnectChat ==
  /\ server = "none"
  /\ server' = "listening"
  /\ UNCHANGED <<clock, pendingResponses, chat>>

\* close() takes no new requests, and resolves when the open ones have ended.
DisconnectChat ==
  /\ server = "listening"
  /\ server' = "closing"
  /\ UNCHANGED <<clock, pendingResponses, chat>>

ServerClosed ==
  /\ server = "closing" /\ Open = {}
  /\ server' = "none"
  /\ UNCHANGED <<clock, pendingResponses, chat>>

\* A preflight or a health request, or one of another path, needs no body.
OtherRequest(c) ==
  /\ server = "listening" /\ chat[c].pc = "new"
  /\ chat' = [chat EXCEPT ![c].pc = "end", ![c].status = 404]
  /\ UNCHANGED <<clock, server, pendingResponses>>

ChatRequest(c) ==
  /\ server = "listening" /\ chat[c].pc = "new"
  /\ chat' = [chat EXCEPT ![c].pc = "body"]
  /\ UNCHANGED <<clock, server, pendingResponses>>

\* Too long, not JSON, or without a text.
BodyRefused(c) ==
  /\ chat[c].pc = "body"
  /\ chat' = [chat EXCEPT ![c].pc = "end", ![c].status = 400]
  /\ UNCHANGED <<clock, server, pendingResponses>>

\* The client goes away: the loop over the body throws, in a promise nobody
\* awaits, and the unhandled rejection ends the process.
BodyAborted(c) ==
  /\ chat[c].pc = "body"
  /\ server' = "exited" /\ pendingResponses' = {}
  /\ chat' = [d \in Chats |-> [chat[d] EXCEPT !.pc = "end"]]
  /\ UNCHANGED clock

\* The resolver and its timer are set, then the handler is called.
Accepted(c) ==
  /\ chat[c].pc = "body"
  /\ pendingResponses' = pendingResponses \cup {c}
  /\ chat' = [chat EXCEPT ![c].pc = "handling", ![c].due = clock + ChatTimeout]
  /\ UNCHANGED <<clock, server>>

\* Without a resolver the text is dropped, and the caller is not told.
sendText(c) ==
  /\ chat[c].pc \in {"handling", "waiting"} /\ chat[c].sends < MaxSends
  /\ pendingResponses' = pendingResponses \ {c}
  /\ chat' = [chat EXCEPT ![c].sends = @ + 1,
                          ![c].resolved = IF c \in pendingResponses THEN "answer" ELSE @]
  /\ UNCHANGED <<clock, server>>

\* Faulty: the resolver is forgotten without being called.
TimedOutUnresolved(c) ==
  /\ c \in pendingResponses /\ clock >= chat[c].due
  /\ pendingResponses' = pendingResponses \ {c}
  /\ UNCHANGED <<clock, server, chat>>

TimedOut(c) ==
  /\ c \in pendingResponses /\ clock >= chat[c].due
  /\ pendingResponses' = pendingResponses \ {c}
  /\ chat' = [chat EXCEPT ![c].resolved = "timeout"]
  /\ UNCHANGED <<clock, server>>

\* Only now is the response looked at, also when it timed out long ago.
HandlerResolves(c) ==
  /\ chat[c].pc = "handling"
  /\ chat' = [chat EXCEPT ![c].pc = "waiting"]
  /\ UNCHANGED <<clock, server, pendingResponses>>

HandlerRejects(c) ==
  /\ chat[c].pc = "handling"
  /\ pendingResponses' = pendingResponses \ {c}
  /\ chat' = [chat EXCEPT ![c].pc = "end", ![c].status = 500]
  /\ UNCHANGED <<clock, server>>

Respond(c) ==
  /\ chat[c].pc = "waiting" /\ chat[c].resolved # "no"
  /\ chat' = [chat EXCEPT ![c].pc = "end", ![c].status = 200]
  /\ UNCHANGED <<clock, server, pendingResponses>>

ChatTick ==
  /\ clock < ChatMaxTime \/ \E c \in pendingResponses : clock < chat[c].due
  /\ server # "exited"
  /\ clock' = clock + 1
  /\ UNCHANGED <<server, pendingResponses, chat>>

ChatNext ==
  \/ ConnectChat \/ DisconnectChat \/ ServerClosed \/ ChatTick
  \/ \E c \in Chats : OtherRequest(c) \/ ChatRequest(c) \/ BodyRefused(c) \/ BodyAborted(c) \/ Accepted(c)
                        \/ sendText(c) \/ TimedOut(c) \/ HandlerResolves(c) \/ HandlerRejects(c) \/ Respond(c)

\* Clients finish or drop their requests, handlers settle (EveryMessageHandled
\* of Gateway), timers fire, and close() resolves.
ChatRuns(c) ==
  \/ Accepted(c) \/ BodyAborted(c) \/ HandlerResolves(c) \/ HandlerRejects(c)
  \/ chat[c].pc = "waiting" /\ TimedOut(c)
  \/ Respond(c)

ChatSpec == ChatInit /\ [][ChatNext]_chatVars

ChatFairSpec ==
  /\ ChatSpec
  /\ WF_chatVars(ChatTick) /\ WF_chatVars(ServerClosed)
  /\ \A c \in Chats : WF_chatVars(ChatRuns(c))

-----------------------------------------------------------------------------
(* As long as a request may be answered with 200, it has a resolver exactly *)
(* if it has no answer yet, and with the request its resolver is gone: so  *)
(* whichever of the bot's first text and the timer comes first is the      *)
(* answer, and the later one finds nothing (handleChatRequest, sendText).  *)
ResolvedOnce ==
  /\ \A c \in pendingResponses : chat[c].pc \in {"handling", "waiting"}
  /\ \A c \in Chats : chat[c].pc \in {"handling", "waiting"} =>
       (c \in pendingResponses <=> chat[c].resolved = "no")

(* Every request is answered or its connection ends, and a disconnect()    *)
(* resolves, whether the bot answers, fails or says nothing                *)
(* (handleChatRequest, disconnect).                                        *)
EveryChatAnswered ==
  /\ \A c \in Chats : chat[c].pc = "body" ~> chat[c].pc = "end"
  /\ server = "closing" ~> server # "closing"
=============================================================================
